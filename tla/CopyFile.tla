----------------------------- MODULE CopyFile ------------------------------
(***************************************************************************)
(* copy_file and copy_file_fd (fileutil.h) by bytes: the copies that one   *)
(* process after the other makes to one path of the storage directory.     *)
(*                                                                         *)
(* The loop reads up to MAX_BUFFER_FILE_SIZE bytes and always writes that  *)
(* many, whatever it has read; the destination is created if it is not     *)
(* there and never truncated; a failing read or write ends the loop as the *)
(* end of the file does, a write of a part of the buffer does not, and     *)
(* nobody is told.                                                         *)
(***************************************************************************)
EXTENDS Integers, Sequences

CONSTANTS
    MAX_BUFFER_FILE_SIZE,
    Sizes,      \* the sizes of the files that are copied
    MaxCopies,  \* the copies made in all, bounding the run
    Faults      \* what may go wrong: of {"open", "read", "write", "full"}

ASSUME CopyAssumption ==
    /\ MAX_BUFFER_FILE_SIZE \in Nat \ {0}
    /\ Sizes \subseteq Nat
    /\ MaxCopies \in Nat
    /\ Faults \subseteq {"open", "read", "write", "full"}

VARIABLES
    dest,     \* the bytes of the destination: <<copy, position>>, or Heap
    copy,     \* the number of the copy made now, or made last
    size,     \* of its source
    before,   \* history: the destination as the copy found it
    fd_src,   \* position in the source, or -1: not open
    fd_dest,  \* position in the destination, or -1: not open
    buffer,   \* what malloc found, and the bytes read
    rb,       \* the bytes of the last read
    pc,       \* "idle", at its "read" or "write", or "exited"
    fault     \* history: a "read" or "write" failed, the disk was "full", or "none"

vars == <<dest, copy, size, before, fd_src, fd_dest, buffer, rb, pc, fault>>
-----------------------------------------------------------------------------
\* A byte of memory nobody initialised.
Heap == <<0, 0>>
Byte == Nat \X Nat
Columns == 1 .. MAX_BUFFER_FILE_SIZE
Smaller(m, n) == IF m < n THEN m ELSE n
Larger(m, n) == IF m < n THEN n ELSE m

Init ==
    /\ dest = <<>>
    /\ copy = 0
    /\ size = 0
    /\ before = <<>>
    /\ fd_src = -1
    /\ fd_dest = -1
    /\ buffer = [k \in Columns |-> Heap]
    /\ rb = 0
    /\ pc = "idle"
    /\ fault = "none"

\* Mutant: the destination is opened with O_TRUNC.
Truncated(data) == <<>>
\* The destination is opened with O_RDWR, or O_CREAT|O_RDWR.
Opened(data) == data

\* copy_file opens both files, copy_file_fd allocates its buffer.
Open(s) ==
    /\ pc \in {"idle", "exited"}
    /\ copy < MaxCopies
    /\ copy' = copy + 1
    /\ size' = s
    /\ dest' = Opened(dest)
    /\ before' = dest
    /\ fd_src' = 0
    /\ fd_dest' = 0
    /\ buffer' = [k \in Columns |-> Heap]
    /\ rb' = 0
    /\ pc' = "read"
    /\ fault' = "none"

\* The source is gone, or the destination is not there and cannot be created: exit.
OpenFails ==
    /\ "open" \in Faults
    /\ pc = "idle"
    /\ pc' = "exited"
    /\ UNCHANGED <<dest, copy, size, before, fd_src, fd_dest, buffer, rb, fault>>

\* Mutant: a destination descriptor is left open.
CloseSource == fd_src' = -1 /\ UNCHANGED fd_dest
\* close(fd_src) and close(fd_dest).
Close == fd_src' = -1 /\ fd_dest' = -1

\* Behind the loop.
Finish(why) ==
    /\ Close
    /\ pc' = "idle"
    /\ fault' = IF why = "none" THEN fault ELSE why
    /\ UNCHANGED <<dest, copy, size, before, buffer, rb>>

\* Mutants: a read that does not fill the buffer is the last; one byte too many is asked.
IsEndShort(n) == n < MAX_BUFFER_FILE_SIZE
WantedOneMore == MAX_BUFFER_FILE_SIZE + 1

\* The loop ends at a read of nothing.
IsEnd(n) == n <= 0
\* The bytes a read asks for.
Wanted == MAX_BUFFER_FILE_SIZE

Read ==
    /\ pc = "read"
    /\ LET n == Smaller(Wanted, size - fd_src) IN
       IF IsEnd(n) THEN Finish("none")
       ELSE /\ buffer' = [k \in Columns |-> IF k <= n THEN <<copy, fd_src + k>> ELSE buffer[k]]
            /\ fd_src' = fd_src + n
            /\ rb' = n
            /\ pc' = "write"
            /\ UNCHANGED <<dest, copy, size, before, fd_dest, fault>>

\* read returns -1, which ends the loop like the end of the file.
ReadFails == "read" \in Faults /\ pc = "read" /\ Finish("read")

\* Mutant: the terminating byte of a text is spared.
AmountButOne == MAX_BUFFER_FILE_SIZE - 1
\* A write is always given the whole buffer.
Amount == MAX_BUFFER_FILE_SIZE

\* The n first bytes of the buffer go to the position of the destination.
Put(n) ==
    /\ dest' = [i \in 1 .. Larger(Len(dest), fd_dest + n) |->
                   IF i \in fd_dest + 1 .. fd_dest + n THEN buffer[i - fd_dest] ELSE dest[i]]
    /\ fd_dest' = fd_dest + n
    /\ pc' = "read"
    /\ UNCHANGED <<copy, size, before, fd_src, buffer, rb>>

Write == pc = "write" /\ fault # "full" /\ Put(Amount) /\ UNCHANGED fault

\* The disk is full: a file that grows gets a part of the buffer, and the loop goes on.
WriteShort ==
    /\ "full" \in Faults
    /\ pc = "write" /\ fault # "full"
    /\ \E n \in 1 .. Amount - 1 : fd_dest + n >= Len(dest) /\ Put(n)
    /\ fault' = "full"

\* write returns -1, once the disk is full or for another reason.
WriteFails ==
    /\ pc = "write"
    /\ IF fault = "full" THEN Finish("none") ELSE "write" \in Faults /\ Finish("write")

Step == Read \/ ReadFails \/ Write \/ WriteShort \/ WriteFails

Next == (\E s \in Sizes : Open(s)) \/ OpenFails \/ Step

\* The process is scheduled; nobody need search again.
Spec == Init /\ [][Next]_vars /\ WF_vars(Step)
-----------------------------------------------------------------------------
(***************************************************************************)
(* Properties.                                                             *)
(***************************************************************************)
Positions == Nat \cup {-1}

\* The variables have their types; a read fits the buffer.
TypeOK ==
    /\ dest \in Seq(Byte)
    /\ copy \in Nat
    /\ size \in Nat
    /\ before \in Seq(Byte)
    /\ fd_src \in Positions
    /\ fd_dest \in Positions
    /\ buffer \in [Columns -> Byte]
    /\ rb \in 0 .. MAX_BUFFER_FILE_SIZE
    /\ pc \in {"idle", "read", "write", "exited"}
    /\ fault \in {"none", "read", "write", "full"}

Done == pc = "idle" /\ copy > 0

\* A copy nothing went wrong with has every byte of its source at its place, whatever the
\* destination held before and though no write is told how much was read.
Whole == Done /\ fault = "none" =>
    /\ Len(dest) >= size
    /\ \A i \in 1 .. size : dest[i] = <<copy, i>>

\* The size of the file that is written for a source of s bytes.
Padded(s) == LET odd == s % MAX_BUFFER_FILE_SIZE IN
    IF odd = 0 THEN s ELSE s - odd + MAX_BUFFER_FILE_SIZE

\* The byte at i behind the end of the source: a byte of the block before at the same
\* column, uninitialised memory if there is none, and behind that the old file's.
TailByte(i) ==
    IF i > Padded(size) THEN before[i]
    ELSE IF i > MAX_BUFFER_FILE_SIZE THEN <<copy, i - MAX_BUFFER_FILE_SIZE>> ELSE Heap

\* What follows the copied bytes is exactly this: no byte of the heap but in the first
\* block, and the length of the old file or of the padded one, whichever is longer.
Padding == Done /\ fault = "none" =>
    /\ Len(dest) = Larger(Len(before), Padded(size))
    /\ \A i \in size + 1 .. Len(dest) : dest[i] = TailByte(i)

\* copy_file leaves no descriptor open, however its loop ends (the comment at
\* fileutil.h:575-577 leaves that to the caller, who does not do it).
NoneOpen == pc \in {"idle", "exited"} => fd_src = -1 /\ fd_dest = -1

\* The view by blocks.
BlocksOf(s) == Padded(s) \div MAX_BUFFER_FILE_SIZE
BlockAt(data, b) ==
    LET byte == data[(b - 1) * MAX_BUFFER_FILE_SIZE + 1]
    IN  <<byte[1], (byte[2] + MAX_BUFFER_FILE_SIZE - 1) \div MAX_BUFFER_FILE_SIZE>>

BlocksIn(data) == [b \in 1 .. Len(data) \div MAX_BUFFER_FILE_SIZE |-> BlockAt(data, b)]

\* A block is still to be copied.
Copying == fault # "full" /\ (pc = "write" \/ (pc = "read" /\ fd_src < size))

Blockwise == INSTANCE BlockCopy WITH
    Lengths <- {BlocksOf(s) : s \in Sizes},
    MayStop <- Faults \cap {"read", "write", "full"} # {},
    content <- BlocksIn(dest),
    blocks <- BlocksOf(size),
    off <- IF Copying THEN fd_dest \div MAX_BUFFER_FILE_SIZE ELSE 0,
    stage <- IF Copying THEN "copy" ELSE "idle"

\* copy_file copies as BlockCopy does: block after block to its place, nothing else
\* touched, cut at a block and nowhere else if a call fails; and every copy ends.
BlockSpec == Blockwise!Spec

=============================================================================
