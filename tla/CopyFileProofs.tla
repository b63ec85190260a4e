-------------------------- MODULE CopyFileProofs ---------------------------
(***************************************************************************)
(* Theorems about CopyFile, for every size of the buffer and of the files: *)
(* the types, the bytes of the copy and behind it, the descriptors, and    *)
(* that by blocks a copy is what BlockCopy says.                           *)
(***************************************************************************)
EXTENDS CopyFile, SequenceTheorems, TLAPS

\* Where the copy stands: the loop is at its read, or at the write that follows.
Reading ==
    /\ fd_src \in 0 .. size
    /\ fd_dest \in 0 .. Len(dest)
    /\ fault = "none" =>
          /\ fd_src <= fd_dest
          /\ fd_src < size => fd_dest = fd_src
          /\ \A i \in 1 .. fd_src : dest[i] = <<copy, i>>

\* A read that was not full was the last.
Writing ==
    /\ fd_src \in 0 .. size
    /\ fd_dest \in 0 .. Len(dest)
    /\ rb > 0
    /\ fault = "none" =>
          /\ fd_src = fd_dest + rb
          /\ rb = MAX_BUFFER_FILE_SIZE \/ fd_src = size
          /\ \A i \in 1 .. fd_dest : dest[i] = <<copy, i>>
          /\ \A k \in 1 .. rb : buffer[k] = <<copy, fd_dest + k>>

Inv ==
    /\ TypeOK
    /\ Whole
    /\ NoneOpen
    /\ pc = "read" => Reading
    /\ pc = "write" => Writing

LEMMA FunctionIsSeq ==
    ASSUME NEW S, NEW m \in Nat, NEW e \in [1 .. m -> S]
    PROVE  e \in Seq(S) /\ Len(e) = m
<1>1. e \in Seq(S)
  BY SeqDef
<1>2. Len(e) \in Nat /\ 1 .. Len(e) = 1 .. m
  BY <1>1, LenProperties
<1> QED BY <1>1, <1>2

\* A buffer of bytes written somewhere in a file, or at its end, leaves a file of bytes.
LEMMA PutIsFile ==
    ASSUME NEW d \in Seq(Byte), NEW p \in 0 .. Len(d), NEW n \in Nat,
           NEW b \in [Columns -> Byte], n <= MAX_BUFFER_FILE_SIZE,
           NEW e, e = [i \in 1 .. Larger(Len(d), p + n) |->
                          IF i \in p + 1 .. p + n THEN b[i - p] ELSE d[i]]
    PROVE  /\ e \in Seq(Byte)
           /\ Len(e) = Larger(Len(d), p + n)
           /\ Len(e) \in Nat
           /\ p + n \in 0 .. Len(e)
<1> DEFINE m == Larger(Len(d), p + n)
<1>1. Len(d) \in Nat /\ MAX_BUFFER_FILE_SIZE \in Nat
  BY CopyAssumption
<1>2. m \in Nat /\ p + n <= m /\ Len(d) <= m /\ (m = Len(d) \/ m = p + n)
  BY <1>1 DEF Larger
<1>3. ASSUME NEW i \in 1 .. m
      PROVE  (IF i \in p + 1 .. p + n THEN b[i - p] ELSE d[i]) \in Byte
  <2>1. CASE i \in p + 1 .. p + n
    <3>1. i - p \in Columns
      BY <1>1, <2>1 DEF Columns
    <3> QED BY <2>1, <3>1
  <2>2. CASE i \notin p + 1 .. p + n
    <3>1. i \in 1 .. Len(d)
      BY <1>1, <1>2, <2>2
    <3> QED BY <2>2, <3>1, ElementOfSeq
  <2> QED BY <2>1, <2>2
<1>4. e \in [1 .. m -> Byte]
  BY <1>3
<1>5. m \in Nat
  BY <1>2
<1> HIDE DEF m
<1>6. e \in Seq(Byte) /\ Len(e) = m
  BY <1>4, <1>5, FunctionIsSeq
<1> USE DEF m
<1> QED BY <1>2, <1>6

LEMMA InvInit == Init => Inv
<1> SUFFICES ASSUME Init PROVE Inv
  OBVIOUS
<1>1. Heap \in Byte /\ <<>> \in Seq(Byte) /\ MAX_BUFFER_FILE_SIZE \in Nat
  BY CopyAssumption DEF Heap, Byte
<1> QED BY <1>1 DEF Init, Inv, TypeOK, Whole, NoneOpen, Done, Positions

\* The loop is left: what it has written stays.
LEMMA InvFinish ==
    ASSUME Inv, NEW why \in {"none", "read", "write"}, Finish(why), pc \in {"read", "write"},
           why = "none" /\ fault = "none" => pc = "read" /\ fd_src = size
    PROVE  Inv'
<1> USE DEF Finish, Close
<1>1. TypeOK'
  BY DEF Inv, TypeOK, Positions
<1>2. Whole'
  <2> SUFFICES ASSUME fault' = "none"
               PROVE  Len(dest) >= size /\ \A i \in 1 .. size : dest[i] = <<copy, i>>
    BY DEF Whole
  <2>1. why = "none" /\ fault = "none"
    OBVIOUS
  <2>2. Reading /\ fd_src = size
    BY <2>1 DEF Inv
  <2>3. size \in Nat /\ Len(dest) \in Nat
    BY DEF Inv, TypeOK
  <2> QED BY <2>1, <2>2, <2>3 DEF Reading
<1>3. NoneOpen' /\ (pc' = "read" => Reading') /\ (pc' = "write" => Writing')
  BY DEF NoneOpen
<1> QED BY <1>1, <1>2, <1>3 DEF Inv

\* A full buffer, or a part of it on a full disk, is written.
LEMMA InvPut ==
    ASSUME Inv, pc = "write", NEW n \in Nat, n <= MAX_BUFFER_FILE_SIZE, Put(n),
           \/ n = MAX_BUFFER_FILE_SIZE /\ UNCHANGED fault
           \/ fault' = "full"
    PROVE  Inv'
<1> USE DEF Put
<1>1. Writing /\ TypeOK
  BY DEF Inv
<1>2. dest \in Seq(Byte) /\ buffer \in [Columns -> Byte] /\ Len(dest) \in Nat /\ size \in Nat
  BY <1>1 DEF TypeOK
<1>3. fd_dest \in 0 .. Len(dest)
  BY <1>1 DEF Writing
<1>4. /\ dest' \in Seq(Byte)
      /\ Len(dest') = Larger(Len(dest), fd_dest + n)
      /\ fd_dest' \in 0 .. Len(dest')
  BY <1>2, <1>3, PutIsFile
<1>5. MAX_BUFFER_FILE_SIZE \in Nat \ {0}
  BY CopyAssumption
<1>6. TypeOK'
  BY <1>1, <1>4 DEF TypeOK, Positions
<1>7. Reading'
  <2>1. fd_src' \in 0 .. size'
    BY <1>1 DEF Writing
  <2>2. ASSUME fault' = "none"
        PROVE  /\ fd_src' <= fd_dest'
               /\ fd_src' < size' => fd_dest' = fd_src'
               /\ \A i \in 1 .. fd_src' : dest'[i] = <<copy', i>>
    <3>1. n = MAX_BUFFER_FILE_SIZE /\ fault = "none"
      BY <2>2
    <3>2. /\ fd_src = fd_dest + rb
          /\ rb = MAX_BUFFER_FILE_SIZE \/ fd_src = size
          /\ rb \in 0 .. MAX_BUFFER_FILE_SIZE
      BY <1>1, <3>1 DEF Writing, TypeOK
    <3>3. fd_src <= fd_dest' /\ (fd_src < size => fd_dest' = fd_src)
      BY <1>2, <1>3, <1>5, <3>1, <3>2
    <3>4. ASSUME NEW i \in 1 .. fd_src
          PROVE  dest'[i] = <<copy, i>>
      <4>1. i \in 1 .. Larger(Len(dest), fd_dest + n)
        BY <1>2, <1>3, <1>5, <3>1, <3>2 DEF Larger
      <4>2. CASE i <= fd_dest
        <5>1. dest'[i] = dest[i]
          BY <1>2, <1>3, <4>1, <4>2
        <5>2. \A j \in 1 .. fd_dest : dest[j] = <<copy, j>>
          BY <1>1, <3>1 DEF Writing
        <5>3. i \in 1 .. fd_dest
          BY <1>3, <4>2
        <5> QED BY <5>1, <5>2, <5>3
      <4>3. CASE i > fd_dest
        <5>1. i - fd_dest \in 1 .. rb /\ i \in fd_dest + 1 .. fd_dest + n
          BY <1>2, <1>3, <1>5, <3>1, <3>2, <4>3
        <5>2. dest'[i] = buffer[i - fd_dest]
          BY <4>1, <5>1
        <5>3. buffer[i - fd_dest] = <<copy, fd_dest + (i - fd_dest)>>
          BY <1>1, <3>1, <5>1 DEF Writing
        <5>4. fd_dest + (i - fd_dest) = i
          BY <1>2, <1>3
        <5> QED BY <5>2, <5>3, <5>4
      <4>4. i <= fd_dest \/ i > fd_dest
        BY <1>3
      <4> QED BY <4>2, <4>3, <4>4
    <3> QED BY <3>1, <3>3, <3>4
  <2> QED BY <1>4, <2>1, <2>2 DEF Reading
<1> QED BY <1>6, <1>7 DEF Inv, Whole, Done, NoneOpen

LEMMA InvRead == ASSUME Inv, Read PROVE Inv'
<1> DEFINE n == Smaller(Wanted, size - fd_src)
<1>1. pc = "read" /\ Reading /\ TypeOK
  BY DEF Inv, Read
<1>2. size \in Nat /\ fd_src \in 0 .. size /\ MAX_BUFFER_FILE_SIZE \in Nat \ {0}
  BY <1>1, CopyAssumption DEF Reading, TypeOK
<1>3. /\ n \in 0 .. MAX_BUFFER_FILE_SIZE
      /\ n <= size - fd_src
      /\ n = MAX_BUFFER_FILE_SIZE \/ n = size - fd_src
  BY <1>2 DEF Smaller, Wanted
<1>4. CASE IsEnd(n)
  <2>1. Finish("none") /\ fd_src = size
    BY <1>2, <1>3, <1>4 DEF Read, IsEnd
  <2> QED BY <1>1, <2>1, InvFinish
<1>5. CASE ~IsEnd(n)
  <2>1. /\ buffer' = [k \in Columns |-> IF k <= n THEN <<copy, fd_src + k>> ELSE buffer[k]]
        /\ fd_src' = fd_src + n
        /\ rb' = n
        /\ pc' = "write"
        /\ UNCHANGED <<dest, copy, size, before, fd_dest, fault>>
    BY <1>5 DEF Read
  <2>2. n > 0
    BY <1>3, <1>5 DEF IsEnd
  <2>3. buffer' \in [Columns -> Byte]
    <3>1. ASSUME NEW k \in Columns
          PROVE  <<copy, fd_src + k>> \in Byte /\ buffer[k] \in Byte
      BY <1>1, <1>2 DEF Byte, Columns, TypeOK
    <3> QED BY <2>1, <3>1
  <2>4. TypeOK'
    BY <1>1, <1>2, <1>3, <2>1, <2>3 DEF TypeOK, Positions
  <2>5. Writing'
    <3>1. fd_src' \in 0 .. size' /\ fd_dest' \in 0 .. Len(dest') /\ rb' > 0
      BY <1>1, <1>2, <1>3, <2>1, <2>2 DEF Reading
    <3>2. ASSUME fault' = "none"
          PROVE  /\ fd_src' = fd_dest' + rb'
                 /\ rb' = MAX_BUFFER_FILE_SIZE \/ fd_src' = size'
                 /\ \A i \in 1 .. fd_dest' : dest'[i] = <<copy', i>>
                 /\ \A k \in 1 .. rb' : buffer'[k] = <<copy', fd_dest' + k>>
      <4>1. fd_dest = fd_src
        BY <1>1, <1>2, <1>3, <2>1, <2>2, <3>2 DEF Reading
      <4>2. fd_src' = fd_dest' + rb' /\ (rb' = MAX_BUFFER_FILE_SIZE \/ fd_src' = size')
        BY <1>2, <1>3, <2>1, <4>1
      <4>3. \A i \in 1 .. fd_dest' : dest'[i] = <<copy', i>>
        BY <1>1, <2>1, <3>2, <4>1 DEF Reading
      <4>4. ASSUME NEW k \in 1 .. n
            PROVE  buffer'[k] = <<copy, fd_dest + k>>
        BY <1>2, <1>3, <2>1, <4>1 DEF Columns
      <4> QED BY <2>1, <4>2, <4>3, <4>4
    <3> QED BY <3>1, <3>2 DEF Writing
  <2> QED BY <2>1, <2>4, <2>5 DEF Inv, Whole, Done, NoneOpen
<1> QED BY <1>4, <1>5

\* One step per action.
LEMMA InvNext == Inv /\ [Next]_vars => Inv'
<1> SUFFICES ASSUME Inv, [Next]_vars PROVE Inv'
  OBVIOUS
<1>1. CASE UNCHANGED vars
  BY <1>1 DEF vars, Inv, TypeOK, Whole, NoneOpen, Reading, Writing, Done
<1>2. ASSUME NEW s \in Sizes, Open(s) PROVE Inv'
  <2>1. s \in Nat /\ Heap \in Byte /\ MAX_BUFFER_FILE_SIZE \in Nat
    BY CopyAssumption DEF Heap, Byte
  <2>2. TypeOK'
    BY <1>2, <2>1 DEF Open, Opened, Inv, TypeOK, Positions
  <2>3. Reading'
    BY <1>2, <2>1, <2>2 DEF Open, Reading, TypeOK
  <2> QED BY <1>2, <2>2, <2>3 DEF Open, Inv, Whole, Done, NoneOpen
<1>3. CASE OpenFails
  BY <1>3 DEF OpenFails, Inv, TypeOK, Whole, NoneOpen, Done
<1>4. CASE Read
  BY <1>4, InvRead
<1>5. CASE ReadFails
  BY <1>5, InvFinish DEF ReadFails
<1>6. CASE Write
  <2>1. MAX_BUFFER_FILE_SIZE \in Nat
    BY CopyAssumption
  <2> QED BY <1>6, <2>1, InvPut DEF Write, Amount
<1>7. CASE WriteShort
  <2>1. PICK n \in 1 .. Amount - 1 : Put(n)
    BY <1>7 DEF WriteShort
  <2>2. n \in Nat /\ n <= MAX_BUFFER_FILE_SIZE
    BY <2>1, CopyAssumption DEF Amount
  <2> QED BY <1>7, <2>1, <2>2, InvPut DEF WriteShort
<1>8. CASE WriteFails
  <2>1. pc = "write" /\ \E why \in {"none", "write"} :
            Finish(why) /\ (why = "none" => fault = "full")
    BY <1>8 DEF WriteFails
  <2> QED BY <2>1, InvFinish
<1> QED BY <1>1, <1>2, <1>3, <1>4, <1>5, <1>6, <1>7, <1>8 DEF Next, Step

LEMMA Invariant == Spec => []Inv
<1> QED BY InvInit, InvNext, PTL DEF Spec

-----------------------------------------------------------------------------
(***************************************************************************)
(* What lies behind the bytes of the source.                               *)
(***************************************************************************)
Times(q) == MAX_BUFFER_FILE_SIZE * q

\* Up to the position of the destination, which is one of whole buffers, it is written, and
\* behind it as the copy has found it.
Tailed ==
    /\ \E q \in Nat : fd_dest = Times(q)
    /\ Len(dest) = Larger(Len(before), fd_dest)
    /\ \A i \in 1 .. Len(dest) : i > fd_dest => dest[i] = before[i]
    /\ \A i \in 1 .. fd_dest : i > size => dest[i] = TailByte(i)

\* Behind its first n bytes the buffer is as malloc has found it, or holds the block before.
Stale(n) == \A k \in n + 1 .. MAX_BUFFER_FILE_SIZE :
    buffer[k] = IF fd_dest = 0 THEN Heap ELSE <<copy, fd_dest - MAX_BUFFER_FILE_SIZE + k>>

PadRead == pc = "read" /\ fault = "none" =>
    /\ Tailed
    /\ fd_src < size => Stale(0)
    /\ fd_src = size => fd_dest = Padded(size)

PadWrite == pc = "write" /\ fault = "none" =>
    /\ Tailed
    /\ fd_dest < size
    /\ Stale(rb)

PadInv == PadRead /\ PadWrite /\ Padding

LEMMA BufferIs == MAX_BUFFER_FILE_SIZE \in Nat /\ MAX_BUFFER_FILE_SIZE > 0
  BY CopyAssumption

LEMMA TimesIs ==
    /\ Times(0) = 0
    /\ \A q \in Nat : Times(q) \in Nat /\ Times(q + 1) = Times(q) + MAX_BUFFER_FILE_SIZE
    /\ \A q \in Nat, r \in Nat : q < r => Times(q) + MAX_BUFFER_FILE_SIZE <= Times(r)
<1>1. Times(0) = 0
  BY BufferIs DEF Times
<1>2. \A q \in Nat : Times(q) \in Nat /\ Times(q + 1) = Times(q) + MAX_BUFFER_FILE_SIZE
  BY BufferIs DEF Times
<1>3. ASSUME NEW q \in Nat, NEW r \in Nat, q < r
      PROVE  Times(q) + MAX_BUFFER_FILE_SIZE <= Times(r)
  <2> DEFINE c == r - q - 1
  <2>1. c \in Nat /\ r = (q + 1) + c
    BY <1>3
  <2> HIDE DEF c
  <2>2. Times(r) = Times(q + 1) + Times(c)
    BY <2>1, BufferIs DEF Times
  <2>3. Times(c) \in Nat /\ Times(q) \in Nat /\ Times(q + 1) = Times(q) + MAX_BUFFER_FILE_SIZE
    BY <1>2, <2>1
  <2> QED BY <2>2, <2>3, BufferIs
<1> QED BY <1>1, <1>2, <1>3

LEMMA Division ==
    ASSUME NEW s \in Nat
    PROVE  /\ s \div MAX_BUFFER_FILE_SIZE \in Nat
           /\ s % MAX_BUFFER_FILE_SIZE \in 0 .. MAX_BUFFER_FILE_SIZE - 1
           /\ s = Times(s \div MAX_BUFFER_FILE_SIZE) + (s % MAX_BUFFER_FILE_SIZE)
<1>1. \A b \in Nat : b > 0 => s = b * (s \div b) + (s % b)
  OBVIOUS
<1>2. \A b \in Nat : b > 0 => s \div b \in Nat /\ s % b \in 0 .. b - 1
  OBVIOUS
<1> QED BY <1>1, <1>2, BufferIs DEF Times

\* A size is padded to the next whole number of buffers.
LEMMA PaddedIs ==
    ASSUME NEW s \in Nat, NEW q \in Nat
    PROVE  /\ s = Times(q) => Padded(s) = s
           /\ Times(q) < s /\ s <= Times(q) + MAX_BUFFER_FILE_SIZE =>
                 Padded(s) = Times(q) + MAX_BUFFER_FILE_SIZE
<1> DEFINE d == s \div MAX_BUFFER_FILE_SIZE
           odd == s % MAX_BUFFER_FILE_SIZE
<1>1. d \in Nat /\ odd \in 0 .. MAX_BUFFER_FILE_SIZE - 1 /\ s = Times(d) + odd
  BY Division
<1>2. Padded(s) = IF odd = 0 THEN s ELSE s - odd + MAX_BUFFER_FILE_SIZE
  BY DEF Padded
<1> HIDE DEF d, odd
<1>3. Times(d) \in Nat /\ Times(q) \in Nat
  BY <1>1, TimesIs
<1>4. d < q => Times(d) + MAX_BUFFER_FILE_SIZE <= Times(q)
  BY <1>1, TimesIs
<1>5. q < d => Times(q) + MAX_BUFFER_FILE_SIZE <= Times(d)
  BY <1>1, TimesIs
<1>6. q + 1 < d => Times(q) + MAX_BUFFER_FILE_SIZE + MAX_BUFFER_FILE_SIZE <= Times(d)
  <2> SUFFICES ASSUME q + 1 < d
               PROVE  Times(q) + MAX_BUFFER_FILE_SIZE + MAX_BUFFER_FILE_SIZE <= Times(d)
    OBVIOUS
  <2>1. q + 1 \in Nat /\ Times(q + 1) = Times(q) + MAX_BUFFER_FILE_SIZE
    BY TimesIs
  <2>2. Times(q + 1) + MAX_BUFFER_FILE_SIZE <= Times(d)
    BY <1>1, <2>1, TimesIs
  <2> QED BY <2>1, <2>2
<1>7. ASSUME s = Times(q) PROVE Padded(s) = s
  <2>1. d = q
    BY <1>1, <1>3, <1>4, <1>5, <1>7, BufferIs
  <2> QED BY <1>1, <1>2, <1>3, <1>7, <2>1
<1>8. ASSUME Times(q) < s, s <= Times(q) + MAX_BUFFER_FILE_SIZE
      PROVE  Padded(s) = Times(q) + MAX_BUFFER_FILE_SIZE
  <2>1. d = q \/ d = q + 1
    BY <1>1, <1>3, <1>4, <1>6, <1>8, BufferIs
  <2>2. CASE d = q
    BY <1>1, <1>2, <1>3, <1>8, <2>2, BufferIs
  <2>3. CASE d = q + 1
    <3>1. Times(d) = Times(q) + MAX_BUFFER_FILE_SIZE
      BY <2>3, TimesIs
    <3> QED BY <1>1, <1>2, <1>3, <1>8, <3>1, BufferIs
  <2> QED BY <2>1, <2>2, <2>3
<1> QED BY <1>7, <1>8

\* The loop ends at the end of the source.
LEMMA PadFinish ==
    ASSUME Inv, PadInv, NEW why \in {"none", "read", "write"}, Finish(why),
           why = "none" /\ fault = "none" => pc = "read" /\ fd_src = size
    PROVE  PadInv'
<1> USE DEF Finish, Close
<1>1. PadRead' /\ PadWrite'
  BY DEF PadRead, PadWrite
<1>2. Padding'
  <2> SUFFICES ASSUME fault' = "none"
               PROVE  /\ Len(dest) = Larger(Len(before), Padded(size))
                      /\ \A i \in size + 1 .. Len(dest) : dest[i] = TailByte(i)'
    BY DEF Padding
  <2>1. Tailed /\ fd_dest = Padded(size)
    BY DEF PadInv, PadRead
  <2>2. fd_dest \in Nat /\ size \in Nat /\ Len(dest) \in Nat
    <3>1. fd_dest \in 0 .. Len(dest) /\ size \in Nat /\ Len(dest) \in Nat
      BY DEF Inv, Reading, TypeOK
    <3> QED BY <3>1
  <2>3. ASSUME NEW i \in size + 1 .. Len(dest) PROVE dest[i] = TailByte(i)'
    <3>1. TailByte(i)' = TailByte(i)
      BY DEF TailByte
    <3>2. CASE i <= fd_dest
      BY <2>1, <2>2, <2>3, <3>1, <3>2 DEF Tailed
    <3>3. CASE i > fd_dest
      BY <2>1, <2>2, <2>3, <3>1, <3>3 DEF Tailed, TailByte
    <3> QED BY <2>2, <3>2, <3>3
  <2> QED BY <2>1, <2>3 DEF Tailed
<1> QED BY <1>1, <1>2 DEF PadInv

\* A copy begins.
LEMMA PadOpen == ASSUME Inv, NEW s \in Sizes, Open(s) PROVE PadInv'
<1>1. /\ pc' = "read" /\ fault' = "none" /\ size' = s /\ dest' = dest /\ before' = dest
      /\ fd_src' = 0 /\ fd_dest' = 0 /\ buffer' = [k \in Columns |-> Heap]
  BY DEF Open, Opened
<1>2. s \in Nat /\ Len(dest) \in Nat
  BY CopyAssumption DEF Inv, TypeOK
<1>3. Tailed'
  <2>1. fd_dest' = Times(0) /\ 0 \in Nat
    BY <1>1, TimesIs
  <2> QED BY <1>1, <1>2, <2>1 DEF Tailed, Larger
<1>4. Stale(0)'
  BY <1>1, BufferIs DEF Stale, Columns
<1>5. s = 0 => Padded(s) = 0
  <2>1. 0 = Times(0) => Padded(0) = 0
    BY PaddedIs
  <2> QED BY <2>1, TimesIs
<1> QED BY <1>1, <1>3, <1>4, <1>5 DEF PadInv, PadRead, PadWrite, Padding, Done

LEMMA PadReads == ASSUME Inv, PadInv, Read PROVE PadInv'
<1> DEFINE n == Smaller(Wanted, size - fd_src)
<1>1. pc = "read" /\ Reading /\ TypeOK
  BY DEF Inv, Read
<1>2. size \in Nat /\ fd_src \in 0 .. size /\ MAX_BUFFER_FILE_SIZE \in Nat \ {0}
  BY <1>1, CopyAssumption DEF Reading, TypeOK
<1>3. /\ n \in 0 .. MAX_BUFFER_FILE_SIZE
      /\ n <= size - fd_src
      /\ n = MAX_BUFFER_FILE_SIZE \/ n = size - fd_src
  BY <1>2 DEF Smaller, Wanted
<1>4. CASE IsEnd(n)
  <2>1. Finish("none") /\ fd_src = size
    BY <1>2, <1>3, <1>4 DEF Read, IsEnd
  <2> QED BY <1>1, <2>1, PadFinish
<1>5. CASE ~IsEnd(n)
  <2>1. /\ buffer' = [k \in Columns |-> IF k <= n THEN <<copy, fd_src + k>> ELSE buffer[k]]
        /\ fd_src' = fd_src + n
        /\ rb' = n
        /\ pc' = "write"
        /\ UNCHANGED <<dest, copy, size, before, fd_dest, fault>>
    BY <1>5 DEF Read
  <2>2. n > 0 /\ fd_src < size
    BY <1>2, <1>3, <1>5 DEF IsEnd
  <2> HIDE DEF n
  <2>3. ASSUME fault = "none" PROVE Tailed' /\ fd_dest' < size' /\ Stale(rb)'
    <3>1. Tailed /\ Stale(0) /\ fd_dest < size
      BY <1>1, <2>2, <2>3 DEF PadInv, PadRead, Reading
    <3>2. Tailed'
      BY <2>1, <3>1 DEF Tailed, TailByte
    <3>3. ASSUME NEW k \in n + 1 .. MAX_BUFFER_FILE_SIZE PROVE buffer'[k] = buffer[k]
      BY <1>2, <1>3, <2>1 DEF Columns
    <3>4. \A k \in n + 1 .. MAX_BUFFER_FILE_SIZE : k \in 0 + 1 .. MAX_BUFFER_FILE_SIZE
      BY <1>2, <1>3
    <3> QED BY <2>1, <3>1, <3>2, <3>3, <3>4 DEF Stale
  <2> QED BY <2>1, <2>3 DEF PadInv, PadRead, PadWrite, Padding, Done
<1> QED BY <1>4, <1>5

LEMMA PadPut ==
    ASSUME Inv, PadInv, pc = "write", fault = "none", Put(MAX_BUFFER_FILE_SIZE), UNCHANGED fault
    PROVE  PadInv'
<1> DEFINE B == MAX_BUFFER_FILE_SIZE
<1> USE DEF Put
<1>1. /\ Writing /\ Tailed /\ fd_dest < size /\ Stale(rb)
      /\ dest \in Seq(Byte) /\ buffer \in [Columns -> Byte]
  BY DEF Inv, PadInv, PadWrite, TypeOK
<1>2. /\ Len(dest) \in Nat /\ Len(before) \in Nat /\ size \in Nat /\ B \in Nat /\ B > 0
      /\ fd_dest \in 0 .. Len(dest) /\ fd_src \in 0 .. size /\ rb \in 1 .. B
      /\ fd_src = fd_dest + rb /\ (rb = B \/ fd_src = size)
  <2>1. rb \in 0 .. B /\ rb > 0
    BY <1>1 DEF Inv, TypeOK, Writing
  <2>2. rb \in 1 .. B
    BY <2>1, BufferIs
  <2> QED BY <1>1, <2>2, BufferIs, LenProperties DEF Inv, TypeOK, Writing
<1>3. PICK q \in Nat : fd_dest = Times(q)
  BY <1>1 DEF Tailed
<1>4. fd_src = size => Padded(size) = fd_dest + B
  BY <1>2, <1>3, PaddedIs
<1>5. /\ Len(dest') = Larger(Len(dest), fd_dest + B) /\ Len(dest') \in Nat
      /\ dest' = [i \in 1 .. Larger(Len(dest), fd_dest + B) |->
                     IF i \in fd_dest + 1 .. fd_dest + B THEN buffer[i - fd_dest] ELSE dest[i]]
      /\ fd_dest' = fd_dest + B /\ pc' = "read"
  <2>1. /\ dest' = [i \in 1 .. Larger(Len(dest), fd_dest + B) |->
                       IF i \in fd_dest + 1 .. fd_dest + B THEN buffer[i - fd_dest] ELSE dest[i]]
        /\ fd_dest' = fd_dest + B /\ pc' = "read"
    OBVIOUS
  <2>2. B <= MAX_BUFFER_FILE_SIZE /\ B \in Nat
    BY <1>2
  <2> HIDE DEF B, Put
  <2>3. dest \in Seq(Byte) /\ fd_dest \in 0 .. Len(dest) /\ buffer \in [Columns -> Byte]
    BY <1>1, <1>2
  <2>4. Len(dest') = Larger(Len(dest), fd_dest + B) /\ Len(dest') \in Nat
    BY <2>1, <2>2, <2>3, PutIsFile
  <2> QED BY <2>1, <2>4
<1>6. UNCHANGED <<copy, size, before, fd_src, buffer, rb>>
  OBVIOUS
<1> HIDE DEF B, Put
<1>7. Tailed'
  <2>1. \E r \in Nat : fd_dest' = Times(r)
    <3>1. fd_dest' = Times(q + 1) /\ q + 1 \in Nat
      BY <1>3, <1>5, TimesIs DEF B
    <3> QED BY <3>1
  <2>2. Len(dest') = Larger(Len(before'), fd_dest')
    BY <1>1, <1>2, <1>5, <1>6 DEF Tailed, Larger
  <2>3. ASSUME NEW i \in 1 .. Len(dest'), i > fd_dest' PROVE dest'[i] = before'[i]
    <3>1. i \notin fd_dest + 1 .. fd_dest + B /\ i > fd_dest /\ i \in 1 .. Len(dest)
      BY <1>2, <1>5, <2>3 DEF Larger
    <3> QED BY <1>1, <1>5, <1>6, <2>3, <3>1 DEF Tailed
  <2>4. ASSUME NEW i \in 1 .. fd_dest', i > size PROVE dest'[i] = TailByte(i)'
    <3>1. /\ i \in fd_dest + 1 .. fd_dest + B /\ i - fd_dest \in rb + 1 .. B
          /\ i \in 1 .. Larger(Len(dest), fd_dest + B)
      BY <1>1, <1>2, <1>5, <2>4 DEF Larger
    <3>2. dest'[i] = buffer[i - fd_dest]
      BY <1>5, <3>1
    <3>3. fd_src = size
      BY <1>2, <1>5, <2>4
    <3>4. dest'[i] = IF fd_dest = 0 THEN Heap ELSE <<copy, fd_dest - B + (i - fd_dest)>>
      BY <1>1, <3>1, <3>2 DEF Stale, B
    <3>5. Padded(size) = fd_dest + B /\ ~(i > fd_dest + B)
      BY <1>2, <1>4, <1>5, <2>4, <3>3
    <3>6. fd_dest = 0 <=> ~(i > B)
      <4>1. q # 0 => Times(q) >= B
        BY TimesIs, BufferIs DEF B
      <4>2. Times(0) = 0
        BY TimesIs
      <4>3. i \in Nat /\ fd_dest + 1 <= i /\ i <= fd_dest + B
        BY <1>2, <3>1
      <4>4. CASE q = 0
        BY <1>2, <1>3, <4>2, <4>3, <4>4
      <4>5. CASE q # 0
        BY <1>2, <1>3, <4>1, <4>3, <4>5
      <4> QED BY <4>4, <4>5
    <3>7. fd_dest - B + (i - fd_dest) = i - B
      BY <1>2
    <3>8. TailByte(i)' = IF i > B THEN <<copy, i - B>> ELSE Heap
      BY <1>6, <3>1, <3>5 DEF TailByte, B
    <3> QED BY <3>4, <3>6, <3>7, <3>8
  <2>5. \A i \in 1 .. fd_dest' : i > size' => dest'[i] = TailByte(i)'
    BY <1>6, <2>4
  <2> QED BY <2>1, <2>2, <2>3, <2>5 DEF Tailed
<1>8. ASSUME fd_src < size PROVE Stale(0)'
  <2> SUFFICES ASSUME NEW k \in 0 + 1 .. B
               PROVE  buffer[k] = IF fd_dest' = 0 THEN Heap ELSE <<copy, fd_dest' - B + k>>
    BY <1>6 DEF Stale, B
  <2>1. rb = B
    BY <1>2, <1>8
  <2>2. buffer[k] = <<copy, fd_dest + k>>
    BY <1>1, <2>1 DEF Writing
  <2>3. fd_dest' # 0 /\ fd_dest' - B + k = fd_dest + k
    BY <1>2, <1>5
  <2> QED BY <2>2, <2>3
<1>9. fd_src = size => fd_dest' = Padded(size)
  BY <1>4, <1>5
<1> QED BY <1>5, <1>6, <1>7, <1>8, <1>9 DEF PadInv, PadRead, PadWrite, Padding, Done

LEMMA PadNext == Inv /\ PadInv /\ [Next]_vars => PadInv'
<1> SUFFICES ASSUME Inv, PadInv, [Next]_vars PROVE PadInv'
  OBVIOUS
<1>1. CASE UNCHANGED vars
  BY <1>1 DEF vars, PadInv, PadRead, PadWrite, Padding, Done, Tailed, Stale, TailByte
<1>2. CASE \E s \in Sizes : Open(s)
  BY <1>2, PadOpen
<1>3. CASE OpenFails
  BY <1>3 DEF OpenFails, PadInv, PadRead, PadWrite, Padding, Done
<1>4. CASE Read
  BY <1>4, PadReads
<1>5. CASE ReadFails
  BY <1>5, PadFinish DEF ReadFails
<1>6. CASE Write
  <2>1. CASE fault = "none"
    BY <1>6, <2>1, PadPut DEF Write, Amount
  <2>2. CASE fault # "none"
    BY <1>6, <2>2 DEF Write, Put, PadInv, PadRead, PadWrite, Padding
  <2> QED BY <2>1, <2>2
<1>7. CASE WriteShort
  BY <1>7 DEF WriteShort, PadInv, PadRead, PadWrite, Padding
<1>8. CASE WriteFails
  <2>1. \E why \in {"none", "write"} : Finish(why) /\ (why = "none" => fault = "full")
    BY <1>8 DEF WriteFails
  <2> QED BY <2>1, PadFinish
<1> QED BY <1>1, <1>2, <1>3, <1>4, <1>5, <1>6, <1>7, <1>8 DEF Next, Step

LEMMA PadInit == Init => PadInv
  BY DEF Init, PadInv, PadRead, PadWrite, Padding, Done

\* The types: a read never gets more than the buffer holds (fileutil.h:583-588), and the
\* stored file is made of bytes of sources and of uninitialised memory only.
THEOREM BytesOnly == Spec => []TypeOK
<1>1. Inv => TypeOK
  BY DEF Inv
<1> QED BY <1>1, Invariant, PTL

\* However long the file and the buffer are and whatever the destination held, the loop
\* at fileutil.h:587-593 that always writes a full buffer copies every byte to its place.
THEOREM CopiesWhole == Spec => []Whole
<1>1. Inv => Whole
  BY DEF Inv
<1> QED BY <1>1, Invariant, PTL

\* copy_file_fd closes both files however it ends (fileutil.h:595-596).
THEOREM ClosesBoth == Spec => []NoneOpen
<1>1. Inv => NoneOpen
  BY DEF Inv
<1> QED BY <1>1, Invariant, PTL

\* What is stored behind the bytes of the source is, for every size of the buffer, the rest of
\* the block before, uninitialised memory in a first block only, and the old file where it was
\* longer: the loop never writes behind the padded size and never shortens a file.
THEOREM PadsWithBlockBefore == Spec => []Padding
<1>1. PadInv => Padding
  BY DEF PadInv
<1> QED BY <1>1, InvInit, InvNext, PadInit, PadNext, PTL DEF Spec

-----------------------------------------------------------------------------
(***************************************************************************)
(* The view by blocks: every step of the loop is one of BlockCopy, or none.*)
(***************************************************************************)
\* While it goes on, a copy has lost nothing but what a full disk did not take.
FaultInv == pc \in {"read", "write"} => fault \in {"none", "full"}

BlockInv == Inv /\ PadInv /\ FaultInv

LEMMA FaultNext == Inv /\ FaultInv /\ [Next]_vars => FaultInv'
<1> SUFFICES ASSUME FaultInv, [Next]_vars PROVE FaultInv'
  OBVIOUS
<1>1. CASE UNCHANGED vars
  BY <1>1 DEF vars, FaultInv
<1>2. CASE (\E s \in Sizes : Open(s)) \/ OpenFails
  BY <1>2 DEF Open, OpenFails, FaultInv
<1>3. CASE Read
  BY <1>3 DEF Read, Finish, FaultInv
<1>4. CASE ReadFails \/ WriteFails
  BY <1>4 DEF ReadFails, WriteFails, Finish, FaultInv
<1>5. CASE Write \/ WriteShort
  BY <1>5 DEF Write, WriteShort, Put, FaultInv
<1> QED BY <1>1, <1>2, <1>3, <1>4, <1>5 DEF Next, Step

LEMMA BlockInvariant == Spec => []BlockInv
<1>1. Init => FaultInv
  BY DEF Init, FaultInv
<1>2. BlockInv <=> Inv /\ PadInv /\ FaultInv
  BY DEF BlockInv
<1> QED BY <1>1, <1>2, InvInit, InvNext, PadInit, PadNext, FaultNext, PTL DEF Spec

\* The division of what lies in the block behind q whole ones.
LEMMA Quotient ==
    ASSUME NEW n \in Nat, NEW q \in Nat, Times(q) <= n, n < Times(q) + MAX_BUFFER_FILE_SIZE
    PROVE  n \div MAX_BUFFER_FILE_SIZE = q
<1> DEFINE d == n \div MAX_BUFFER_FILE_SIZE
           odd == n % MAX_BUFFER_FILE_SIZE
<1>1. d \in Nat /\ odd \in 0 .. MAX_BUFFER_FILE_SIZE - 1 /\ n = Times(d) + odd
  BY Division
<1> HIDE DEF d, odd
<1>2. Times(d) \in Nat /\ Times(q) \in Nat
  BY <1>1, TimesIs
<1>3. d < q => Times(d) + MAX_BUFFER_FILE_SIZE <= Times(q)
  BY <1>1, TimesIs
<1>4. q < d => Times(q) + MAX_BUFFER_FILE_SIZE <= Times(d)
  BY <1>1, TimesIs
<1>5. d = q
  BY <1>1, <1>2, <1>3, <1>4, BufferIs
<1> QED BY <1>5 DEF d

LEMMA WholeQuotient ==
    ASSUME NEW q \in Nat
    PROVE  Times(q) \div MAX_BUFFER_FILE_SIZE = q
<1>1. Times(q) \in Nat
  BY TimesIs
<1>2. Times(q) < Times(q) + MAX_BUFFER_FILE_SIZE
  BY <1>1, BufferIs
<1> QED BY <1>1, <1>2, Quotient

\* A source of s bytes has as many blocks as buffers are needed for it.
LEMMA BlocksAre ==
    ASSUME NEW s \in Nat
    PROVE  /\ BlocksOf(s) \in Nat
           /\ s = 0 => BlocksOf(s) = 0
           /\ \A q \in Nat : Times(q) < s /\ s <= Times(q) + MAX_BUFFER_FILE_SIZE =>
                  BlocksOf(s) = q + 1
           /\ \A q \in Nat : Times(q) + MAX_BUFFER_FILE_SIZE < s => BlocksOf(s) # q + 1
           /\ s > 0 => BlocksOf(s) # 0
<1> DEFINE d == s \div MAX_BUFFER_FILE_SIZE
           odd == s % MAX_BUFFER_FILE_SIZE
<1>1. d \in Nat /\ odd \in 0 .. MAX_BUFFER_FILE_SIZE - 1 /\ s = Times(d) + odd
  BY Division
<1> HIDE DEF d, odd
<1>2. /\ Times(d) \in Nat /\ d + 1 \in Nat
      /\ Times(d + 1) = Times(d) + MAX_BUFFER_FILE_SIZE
  BY <1>1, TimesIs
<1>3. CASE odd = 0
  <2>1. s = Times(d) /\ Padded(s) = Times(d)
    BY <1>1, <1>2, <1>3, PaddedIs
  <2>2. BlocksOf(s) = d
    BY <1>1, <2>1, WholeQuotient DEF BlocksOf
  <2>3. ASSUME NEW q \in Nat
        PROVE  /\ Times(q) < s /\ s <= Times(q) + MAX_BUFFER_FILE_SIZE => d = q + 1
               /\ Times(q) + MAX_BUFFER_FILE_SIZE < s => d # q + 1
    <3>1. Times(q) \in Nat /\ Times(q + 1) = Times(q) + MAX_BUFFER_FILE_SIZE /\ q + 1 \in Nat
      BY TimesIs
    <3>2. /\ d < q + 1 => Times(d) + MAX_BUFFER_FILE_SIZE <= Times(q + 1)
          /\ q + 1 < d => Times(q + 1) + MAX_BUFFER_FILE_SIZE <= Times(d)
      BY <1>1, <3>1, TimesIs
    <3> QED BY <1>1, <1>2, <2>1, <3>1, <3>2, BufferIs
  <2>4. s = 0 <=> d = 0
    <3>1. d # 0 => MAX_BUFFER_FILE_SIZE <= Times(d)
      <4>1. d # 0 => Times(0) + MAX_BUFFER_FILE_SIZE <= Times(d)
        BY <1>1, TimesIs
      <4>2. Times(0) + MAX_BUFFER_FILE_SIZE = MAX_BUFFER_FILE_SIZE
        BY TimesIs, BufferIs
      <4> QED BY <4>1, <4>2
    <3>2. d = 0 => Times(d) = 0
      BY TimesIs
    <3> QED BY <1>1, <1>2, <2>1, <3>1, <3>2, BufferIs
  <2> QED BY <1>1, <2>2, <2>3, <2>4
<1>4. CASE odd # 0
  <2>1. Times(d) < s /\ s <= Times(d) + MAX_BUFFER_FILE_SIZE /\ s < Times(d + 1)
    BY <1>1, <1>2, <1>4, BufferIs
  <2>2. Padded(s) = Times(d + 1)
    BY <1>1, <1>2, <2>1, PaddedIs
  <2>3. BlocksOf(s) = d + 1
    BY <1>2, <2>2, WholeQuotient DEF BlocksOf
  <2>4. ASSUME NEW q \in Nat
        PROVE  /\ Times(q) < s /\ s <= Times(q) + MAX_BUFFER_FILE_SIZE => d = q
               /\ Times(q) + MAX_BUFFER_FILE_SIZE < s => d # q
    <3>1. Times(q) \in Nat
      BY TimesIs
    <3>2. /\ d < q => Times(d) + MAX_BUFFER_FILE_SIZE <= Times(q)
          /\ q < d => Times(q) + MAX_BUFFER_FILE_SIZE <= Times(d)
      BY <1>1, TimesIs
    <3> QED BY <1>1, <1>2, <2>1, <3>1, <3>2, BufferIs
  <2>5. s # 0
    BY <1>1, <1>4, <1>2
  <2> QED BY <1>1, <2>3, <2>4, <2>5
<1> QED BY <1>3, <1>4

\* The first byte of the block behind q whole ones.
LEMMA BlockIs ==
    ASSUME NEW data, NEW q \in Nat
    PROVE  /\ (q + 1 - 1) * MAX_BUFFER_FILE_SIZE + 1 = Times(q) + 1
           /\ \A x : data[Times(q) + 1] = <<x, Times(q) + 1>> => BlockAt(data, q + 1) = <<x, q + 1>>
           /\ \A other : other[Times(q) + 1] = data[Times(q) + 1] =>
                  BlockAt(other, q + 1) = BlockAt(data, q + 1)
<1>1. (q + 1 - 1) * MAX_BUFFER_FILE_SIZE = Times(q)
  <2>1. \A x, y \in Nat : x * y = y * x
    OBVIOUS
  <2>2. q + 1 - 1 = q
    OBVIOUS
  <2> QED BY <2>1, <2>2, BufferIs DEF Times
<1>2. ASSUME NEW x, data[Times(q) + 1] = <<x, Times(q) + 1>>
      PROVE  BlockAt(data, q + 1) = <<x, q + 1>>
  <2>1. BlockAt(data, q + 1)
          = <<x, (Times(q) + 1 + MAX_BUFFER_FILE_SIZE - 1) \div MAX_BUFFER_FILE_SIZE>>
    BY <1>1, <1>2 DEF BlockAt
  <2>2. Times(q) + 1 + MAX_BUFFER_FILE_SIZE - 1 = Times(q + 1)
    BY TimesIs, BufferIs
  <2> QED BY <2>1, <2>2, WholeQuotient
<1>3. ASSUME NEW other, other[Times(q) + 1] = data[Times(q) + 1]
      PROVE  BlockAt(other, q + 1) = BlockAt(data, q + 1)
  BY <1>1, <1>3 DEF BlockAt
<1>4. (q + 1 - 1) * MAX_BUFFER_FILE_SIZE + 1 = Times(q) + 1
  BY <1>1
<1> QED BY <1>2, <1>3, <1>4

LEMMA BlocksInIs ==
    ASSUME NEW data \in Seq(Byte)
    PROVE  /\ Len(BlocksIn(data)) = Len(data) \div MAX_BUFFER_FILE_SIZE
           /\ Len(data) \div MAX_BUFFER_FILE_SIZE \in Nat
           /\ Times(Len(data) \div MAX_BUFFER_FILE_SIZE) <= Len(data)
           /\ Len(data) < Times(Len(data) \div MAX_BUFFER_FILE_SIZE) + MAX_BUFFER_FILE_SIZE
           /\ BlocksIn(data) \in Seq(Byte)
<1> DEFINE m == Len(data) \div MAX_BUFFER_FILE_SIZE
<1>1. Len(data) \in Nat
  OBVIOUS
<1>2. m \in Nat /\ Times(m) <= Len(data) /\ Len(data) < Times(m) + MAX_BUFFER_FILE_SIZE
      /\ Times(m) \in Nat
  <2>1. /\ m \in Nat /\ Len(data) % MAX_BUFFER_FILE_SIZE \in 0 .. MAX_BUFFER_FILE_SIZE - 1
        /\ Len(data) = Times(m) + (Len(data) % MAX_BUFFER_FILE_SIZE)
    BY <1>1, Division
  <2>2. Times(m) \in Nat
    BY <2>1, TimesIs
  <2> QED BY <2>1, <2>2, BufferIs
<1>3. BlocksIn(data) = [b \in 1 .. m |-> BlockAt(data, b)]
  BY DEF BlocksIn
<1> HIDE DEF m
<1>4. ASSUME NEW b \in 1 .. m PROVE BlockAt(data, b) \in Byte
  <2>1. PICK q \in Nat : b = q + 1 /\ q < m
    <3>1. b - 1 \in Nat /\ b = (b - 1) + 1 /\ b - 1 < m
      BY <1>2
    <3> QED BY <3>1
  <2>2. Times(q) + MAX_BUFFER_FILE_SIZE <= Times(m) /\ Times(q) \in Nat
    BY <1>2, <2>1, TimesIs
  <2>3. Times(q) + 1 \in 1 .. Len(data)
    BY <1>1, <1>2, <2>2, BufferIs
  <2>4. data[Times(q) + 1] \in Byte
    BY <2>3, ElementOfSeq
  <2> DEFINE x == data[Times(q) + 1][1]
             y == data[Times(q) + 1][2]
  <2>5. x \in Nat /\ y \in Nat
    BY <2>4 DEF Byte
  <2>6. BlockAt(data, b)
          = <<x, (y + MAX_BUFFER_FILE_SIZE - 1) \div MAX_BUFFER_FILE_SIZE>>
    BY <2>1, BlockIs DEF BlockAt
  <2> HIDE DEF x, y
  <2>7. y + MAX_BUFFER_FILE_SIZE - 1 \in Nat
    BY <2>5, BufferIs
  <2>8. (y + MAX_BUFFER_FILE_SIZE - 1) \div MAX_BUFFER_FILE_SIZE \in Nat
    BY <2>7, Division
  <2> QED BY <2>5, <2>6, <2>8 DEF Byte
<1>5. BlocksIn(data) \in [1 .. m -> Byte]
  BY <1>3, <1>4
<1>6. BlocksIn(data) \in Seq(Byte) /\ Len(BlocksIn(data)) = m
  BY <1>2, <1>5, FunctionIsSeq
<1> QED BY <1>2, <1>6 DEF m

PutAt(data, q, x) == SubSeq(data, 1, q) \o <<x>> \o SubSeq(data, q + 2, Len(data))

\* An element put behind the first q ones, in the place of another or of none.
LEMMA PutInSeq ==
    ASSUME NEW S, NEW old \in Seq(S), NEW x \in S, NEW q \in Nat, q <= Len(old)
    PROVE  /\ PutAt(old, q, x) \in Seq(S)
           /\ Len(PutAt(old, q, x)) = Larger(Len(old), q + 1)
           /\ \A b \in 1 .. Len(PutAt(old, q, x)) :
                  PutAt(old, q, x)[b] = IF b = q + 1 THEN x ELSE old[b]
<1> DEFINE put == PutAt(old, q, x)
           n == Len(old)
           head == SubSeq(old, 1, q)
           rest == SubSeq(old, q + 2, n)
           front == head \o <<x>>
<1>1. n \in Nat /\ q \in Nat /\ q <= n
  BY LenProperties
<1>2. head \in Seq(S) /\ Len(head) = q /\ \A b \in 1 .. q : head[b] = old[b]
  BY <1>1, SubSeqProperties
<1>3. /\ rest \in Seq(S) /\ Len(rest) = IF q + 2 <= n THEN n - q - 1 ELSE 0
      /\ \A b \in 1 .. Len(rest) : rest[b] = old[b + q + 1]
  <2>1. CASE q + 2 <= n
    BY <1>1, <2>1, SubSeqProperties
  <2>2. CASE n < q + 2
    BY <1>1, <2>2, SubSeqProperties
  <2> QED BY <1>1, <2>1, <2>2
<1>4. put = front \o rest
  BY DEF PutAt
<1> HIDE DEF put, n, head, rest
<1>5. /\ front \in Seq(S) /\ Len(front) = q + 1 /\ front[q + 1] = x
      /\ \A b \in 1 .. q : front[b] = old[b]
  BY <1>1, <1>2, ConcatProperties
<1> HIDE DEF front
<1>6. put \in Seq(S) /\ Len(put) = q + 1 + Len(rest) /\ Len(rest) \in Nat
  <2>1. Len(rest) \in Nat
    BY <1>3, LenProperties
  <2>2. front \o rest \in Seq(S) /\ Len(front \o rest) = Len(front) + Len(rest)
    BY <1>3, <1>5, ConcatProperties
  <2> QED BY <1>4, <1>5, <2>1, <2>2
<1>9. /\ \A b \in 1 .. q + 1 : put[b] = front[b]
      /\ \A b \in 1 .. Len(rest) : put[b + q + 1] = rest[b]
  <2>1. ASSUME NEW b \in 1 .. q + 1 + Len(rest)
        PROVE  put[b] = IF b <= q + 1 THEN front[b] ELSE rest[b - (q + 1)]
    <3>1. b \in 1 .. Len(front) + Len(rest)
      BY <1>5
    <3>2. (front \o rest)[b] = IF b <= Len(front) THEN front[b] ELSE rest[b - Len(front)]
      BY <1>3, <1>5, <3>1, ConcatProperties
    <3> QED BY <1>4, <1>5, <3>2
  <2>2. ASSUME NEW b \in 1 .. q + 1 PROVE put[b] = front[b]
    BY <1>1, <1>6, <2>1
  <2>3. ASSUME NEW b \in 1 .. Len(rest) PROVE put[b + q + 1] = rest[b]
    <3>1. b + q + 1 \in 1 .. q + 1 + Len(rest) /\ ~(b + q + 1 <= q + 1)
      BY <1>1, <1>6
    <3>2. b + q + 1 - (q + 1) = b
      BY <1>1
    <3> QED BY <2>1, <3>1, <3>2
  <2> QED BY <2>2, <2>3
<1>7. Len(put) = Larger(n, q + 1)
  <2>1. Len(rest) = IF q + 2 <= n THEN n - q - 1 ELSE 0
    BY <1>3
  <2> QED BY <1>1, <1>6, <2>1 DEF Larger
<1>8. ASSUME NEW b \in 1 .. Len(put)
      PROVE  put[b] = IF b = q + 1 THEN x ELSE old[b]
  <2>1. CASE b <= q + 1
    <3>1. put[b] = front[b] /\ (b = q + 1 \/ b \in 1 .. q)
      BY <1>1, <1>6, <1>9, <2>1
    <3> QED BY <1>1, <1>5, <3>1
  <2>2. CASE q + 1 < b
    <3>1. PICK c \in 1 .. Len(rest) : b = c + q + 1
      <4>1. b - (q + 1) \in 1 .. Len(rest) /\ b = (b - (q + 1)) + q + 1
        BY <1>1, <1>6, <2>2
      <4> QED BY <4>1
    <3>2. put[b] = rest[c] /\ rest[c] = old[c + q + 1]
      BY <1>3, <1>9, <3>1
    <3> QED BY <1>1, <2>2, <3>1, <3>2
  <2>3. b <= q + 1 \/ q + 1 < b
    BY <1>1, <1>6
  <2> QED BY <2>1, <2>2, <2>3
<1> QED BY <1>6, <1>7, <1>8 DEF n, put

\* A buffer written at the position of the destination is a block of it.
LEMMA PutIsBlock ==
    ASSUME Inv, pc = "write", Put(MAX_BUFFER_FILE_SIZE), NEW q \in Nat, fd_dest = Times(q),
           buffer[1] = <<copy, fd_dest + 1>>
    PROVE  BlocksIn(dest)' = SubSeq(BlocksIn(dest), 1, q) \o <<<<copy, q + 1>>>>
                                \o SubSeq(BlocksIn(dest), q + 2, Len(BlocksIn(dest)))
<1> DEFINE old == BlocksIn(dest)
           new == BlocksIn(dest')
           put == PutAt(old, q, <<copy, q + 1>>)
           B == MAX_BUFFER_FILE_SIZE
<1>1. /\ dest \in Seq(Byte) /\ buffer \in [Columns -> Byte] /\ Len(dest) \in Nat
      /\ fd_dest \in 0 .. Len(dest) /\ copy \in Nat
  BY DEF Inv, TypeOK, Writing
<1>11. dest' = [i \in 1 .. Larger(Len(dest), fd_dest + B) |->
                  IF i \in fd_dest + 1 .. fd_dest + B THEN buffer[i - fd_dest] ELSE dest[i]]
  BY DEF Put
<1>14. \A i \in 1 .. Larger(Len(dest), fd_dest + B) :
           dest'[i] = IF i \in fd_dest + 1 .. fd_dest + B THEN buffer[i - fd_dest] ELSE dest[i]
  BY <1>11
<1>2. /\ dest' \in Seq(Byte) /\ Len(dest') = Larger(Len(dest), fd_dest + B)
      /\ Len(dest') \in Nat
  <2>1. PICK n \in Nat : n = B
    BY BufferIs
  <2>2. dest' = [i \in 1 .. Larger(Len(dest), fd_dest + n) |->
                   IF i \in fd_dest + 1 .. fd_dest + n THEN buffer[i - fd_dest] ELSE dest[i]]
    BY <1>11, <2>1
  <2>3. n <= MAX_BUFFER_FILE_SIZE
    BY <2>1
  <2>4. /\ dest' \in Seq(Byte) /\ Len(dest') = Larger(Len(dest), fd_dest + n)
        /\ Len(dest') \in Nat
    BY <1>1, <2>2, <2>3, PutIsFile
  <2> QED BY <2>1, <2>4
<1>3. /\ old \in Seq(Byte) /\ Len(old) \in Nat /\ Times(Len(old)) \in Nat
      /\ Times(Len(old)) <= Len(dest) /\ Len(dest) < Times(Len(old)) + B
  BY <1>1, BlocksInIs, TimesIs
<1>12. \A b \in 1 .. Len(old) : old[b] = BlockAt(dest, b)
  BY <1>1, BlocksInIs DEF BlocksIn
<1>4. /\ new \in Seq(Byte) /\ Len(new) \in Nat /\ Times(Len(new)) \in Nat
      /\ Times(Len(new)) <= Len(dest') /\ Len(dest') < Times(Len(new)) + B
  BY <1>2, BlocksInIs, TimesIs
<1>13. \A b \in 1 .. Len(new) : new[b] = BlockAt(dest', b)
  BY <1>2, BlocksInIs DEF BlocksIn
<1> HIDE DEF old, new
<1>5. Times(q) \in Nat /\ Times(q + 1) = Times(q) + B /\ q + 1 \in Nat
  BY TimesIs
<1>6. q <= Len(old)
  <2>1. Len(old) < q => Times(Len(old)) + B <= Times(q)
    BY <1>3, TimesIs
  <2> QED BY <1>1, <1>3, <1>5, <2>1, BufferIs
<1>7. Len(new) = Larger(Len(old), q + 1)
  <2>1. CASE Len(old) <= q
    <3>1. Len(old) = q
      BY <1>3, <1>6, <2>1
    <3>2. Len(dest') = Times(q + 1)
      BY <1>1, <1>2, <1>3, <1>5, <3>1, BufferIs DEF Larger
    <3>3. Len(new) = q + 1
      BY <1>5, <3>2, <1>2, BlocksInIs, WholeQuotient DEF new
    <3> QED BY <1>3, <3>1, <3>3 DEF Larger
  <2>2. CASE q < Len(old)
    <3>1. Times(q) + B <= Times(Len(old))
      BY <1>3, <2>2, TimesIs
    <3>2. Len(dest') = Len(dest)
      BY <1>1, <1>2, <1>3, <1>5, <3>1, BufferIs DEF Larger
    <3>3. Len(new) = Len(old)
      BY <1>1, <1>2, <3>2, BlocksInIs DEF old, new
    <3> QED BY <1>3, <2>2, <3>3 DEF Larger
  <2> QED BY <1>3, <2>1, <2>2
<1>8. ASSUME NEW b \in 1 .. Len(new)
      PROVE  new[b] = IF b = q + 1 THEN <<copy, q + 1>> ELSE old[b]
  <2>1. PICK r \in Nat : b = r + 1
    <3>1. b - 1 \in Nat /\ b = (b - 1) + 1
      BY <1>4
    <3> QED BY <3>1
  <2>2. new[b] = BlockAt(dest', b)
    BY <1>13
  <2>3. Times(r) \in Nat /\ (r + 1 <= Len(new) => Times(r) + B <= Times(Len(new)))
    <3>1. r < Len(new) => Times(r) + B <= Times(Len(new))
      BY <1>4, TimesIs
    <3>2. Times(r) \in Nat
      BY TimesIs
    <3>3. r + 1 <= Len(new) => r < Len(new)
      BY <1>4
    <3> QED BY <3>1, <3>2, <3>3
  <2>4. Times(r) + 1 \in 1 .. Len(dest')
    BY <1>2, <1>4, <2>1, <2>3, BufferIs
  <2>5. CASE r = q
    <3>1. dest'[Times(q) + 1] = buffer[1]
      <4>2. Times(q) + 1 \in 1 .. Larger(Len(dest), fd_dest + B)
        BY <1>2, <2>4, <2>5
      <4>3. ASSUME NEW i \in 1 .. Larger(Len(dest), fd_dest + B), i = fd_dest + 1
            PROVE  dest'[i] = buffer[1]
        <5>1. i \in fd_dest + 1 .. fd_dest + B /\ i - fd_dest = 1
          <6>1. fd_dest \in Int /\ i \in Int
            BY <1>1, <4>3
          <6> QED BY <4>3, <6>1, BufferIs
        <5> QED BY <1>14, <5>1
      <4> QED BY <4>2, <4>3
    <3>2. BlockAt(dest', q + 1) = <<copy, q + 1>>
      BY <3>1, BlockIs
    <3> QED BY <2>1, <2>2, <2>5, <3>2
  <2>6. CASE r # q
    <3>1. (r < q => Times(r) + B <= Times(q)) /\ (q < r => Times(q) + B <= Times(r))
      BY TimesIs
    <3>2. Times(r) + 1 \notin fd_dest + 1 .. fd_dest + B
      BY <1>5, <2>3, <2>6, <3>1, BufferIs
    <3>3. dest'[Times(r) + 1] = dest[Times(r) + 1]
      BY <1>2, <1>14, <2>4, <3>2
    <3>4. BlockAt(dest', r + 1) = BlockAt(dest, r + 1)
      BY <3>3, BlockIs
    <3>5. b \in 1 .. Len(old)
      BY <1>3, <1>4, <1>6, <1>7, <2>1, <2>6 DEF Larger
    <3>6. old[b] = BlockAt(dest, b)
      BY <1>12, <3>5
    <3> QED BY <2>1, <2>2, <2>6, <3>4, <3>6
  <2> QED BY <2>5, <2>6
<1>9. /\ put \in Seq(Byte) /\ Len(put) = Larger(Len(old), q + 1)
      /\ \A b \in 1 .. Len(put) : put[b] = IF b = q + 1 THEN <<copy, q + 1>> ELSE old[b]
  <2>1. PICK x \in Byte : x = <<copy, q + 1>>
    BY <1>1, <1>5 DEF Byte
  <2>2. old \in Seq(Byte) /\ q <= Len(old)
    BY <1>3, <1>6
  <2>3. /\ PutAt(old, q, x) \in Seq(Byte) /\ Len(PutAt(old, q, x)) = Larger(Len(old), q + 1)
        /\ \A b \in 1 .. Len(PutAt(old, q, x)) :
               PutAt(old, q, x)[b] = IF b = q + 1 THEN x ELSE old[b]
    BY <2>2, PutInSeq
  <2> QED BY <2>1, <2>3
<1> HIDE DEF put
<1>10. new = put
  BY <1>4, <1>7, <1>8, <1>9, SeqEqual
<1> QED BY <1>10 DEF new, old, put, PutAt

\* What a full disk takes of a buffer is no block.
LEMMA PartIsNoBlock ==
    ASSUME Inv, pc = "write", NEW n \in 1 .. MAX_BUFFER_FILE_SIZE - 1, Put(n),
           fd_dest + n >= Len(dest), NEW q \in Nat, fd_dest = Times(q)
    PROVE  BlocksIn(dest)' = BlocksIn(dest)
<1> DEFINE old == BlocksIn(dest)
           new == BlocksIn(dest')
<1>1. /\ dest \in Seq(Byte) /\ buffer \in [Columns -> Byte] /\ Len(dest) \in Nat
      /\ fd_dest \in 0 .. Len(dest) /\ n \in Nat /\ n < MAX_BUFFER_FILE_SIZE
  BY BufferIs DEF Inv, TypeOK, Writing
<1>7. dest' = [i \in 1 .. Larger(Len(dest), fd_dest + n) |->
                  IF i \in fd_dest + 1 .. fd_dest + n THEN buffer[i - fd_dest] ELSE dest[i]]
  BY DEF Put
<1>2. dest' \in Seq(Byte) /\ Len(dest') = Larger(Len(dest), fd_dest + n)
  <2>1. n \in Nat /\ n <= MAX_BUFFER_FILE_SIZE
    BY <1>1, BufferIs
  <2> QED BY <1>1, <1>7, <2>1, PutIsFile
<1>3. Len(dest') = fd_dest + n
  BY <1>1, <1>2 DEF Larger
<1>4. Times(q) \in Nat
  BY TimesIs
<1>5. Len(dest) \div MAX_BUFFER_FILE_SIZE = q /\ Len(dest') \div MAX_BUFFER_FILE_SIZE = q
  <2>1. Times(q) <= Len(dest) /\ Len(dest) < Times(q) + MAX_BUFFER_FILE_SIZE
    BY <1>1, <1>4, BufferIs
  <2>2. /\ Len(dest') \in Nat
        /\ Times(q) <= Len(dest') /\ Len(dest') < Times(q) + MAX_BUFFER_FILE_SIZE
    BY <1>1, <1>3, <1>4, BufferIs
  <2> QED BY <1>1, <2>1, <2>2, Quotient
<1>6. ASSUME NEW b \in 1 .. q
      PROVE  BlockAt(dest', b) = BlockAt(dest, b)
  <2>1. PICK r \in Nat : b = r + 1 /\ r < q
    <3>1. b - 1 \in Nat /\ b = (b - 1) + 1 /\ b - 1 < q
      OBVIOUS
    <3> QED BY <3>1
  <2>2. Times(r) \in Nat /\ Times(r) + MAX_BUFFER_FILE_SIZE <= Times(q)
    BY <2>1, TimesIs
  <2>3. /\ Times(r) + 1 \in 1 .. Larger(Len(dest), fd_dest + n)
        /\ Times(r) + 1 \notin fd_dest + 1 .. fd_dest + n
    BY <1>1, <1>2, <1>3, <1>4, <2>2, BufferIs
  <2>4. dest'[Times(r) + 1] = dest[Times(r) + 1]
    BY <1>7, <2>3
  <2> QED BY <2>1, <2>4, BlockIs
<1> QED BY <1>5, <1>6 DEF BlocksIn

\* Blocks of the destination do not change where it does not.
LEMMA SameBlocks == dest' = dest => BlocksIn(dest)' = BlocksIn(dest)
  BY DEF BlocksIn, BlockAt

Offset == IF Copying THEN fd_dest \div MAX_BUFFER_FILE_SIZE ELSE 0
Stage == IF Copying THEN "copy" ELSE "idle"

\* BlockCopy's view of this state, of a step that it does not see, and of a copy that is cut.
LEMMA ViewIs ==
    /\ Blockwise!vars = <<BlocksIn(dest), copy, BlocksOf(size), Offset, Stage>>
    /\ Blockwise!vars' = <<BlocksIn(dest)', copy', BlocksOf(size)', Offset', Stage'>>
  BY DEF Blockwise!vars, Offset, Stage

LEMMA Unseen ==
    ASSUME UNCHANGED <<dest, copy, size>>,
           \/ ~Copying /\ ~Copying'
           \/ (Copying' <=> Copying) /\ fd_dest' = fd_dest
    PROVE  UNCHANGED Blockwise!vars
<1>1. Offset' = Offset /\ Stage' = Stage
  BY DEF Offset, Stage
<1>2. BlocksOf(size)' = BlocksOf(size)
  BY DEF BlocksOf, Padded
<1> QED BY <1>1, <1>2, ViewIs, SameBlocks

LEMMA Stopped ==
    ASSUME BlocksIn(dest)' = BlocksIn(dest), UNCHANGED <<copy, size>>, Copying, ~Copying',
           Faults \cap {"read", "write", "full"} # {}
    PROVE  Blockwise!Stop
<1>1. BlocksOf(size)' = BlocksOf(size)
  BY DEF BlocksOf, Padded
<1> QED BY <1>1 DEF Blockwise!Stop

LEMMA OpenStarts ==
    ASSUME Inv, NEW s \in Sizes, Open(s)
    PROVE  Blockwise!Start
<1>1. ~Copying /\ copy' = copy + 1 /\ dest' = dest
  BY DEF Open, Opened, Copying
<1>2. s \in Nat /\ size' = s /\ BlocksOf(size)' = BlocksOf(s)
  BY CopyAssumption DEF Open, BlocksOf, Padded
<1>3. /\ fd_dest' = 0
      /\ Copying' <=> 0 < s
  BY DEF Open, Copying
<1>4. 0 < s <=> BlocksOf(s) # 0
  BY <1>2, BlocksAre
<1>5. fd_dest' \div MAX_BUFFER_FILE_SIZE = 0
  <2>1. fd_dest' = Times(0)
    BY <1>3, TimesIs
  <2> QED BY <2>1, WholeQuotient
<1> QED BY <1>1, <1>2, <1>3, <1>4, <1>5, SameBlocks DEF Blockwise!Start

LEMMA ReadIsUnseen ==
    ASSUME Inv, Read
    PROVE  UNCHANGED Blockwise!vars
<1> DEFINE n == Smaller(Wanted, size - fd_src)
<1>1. pc = "read" /\ fd_src \in 0 .. size /\ size \in Nat
  BY DEF Read, Inv, Reading, TypeOK
<1>2. CASE IsEnd(n)
  <2>1. fd_src = size
    BY <1>1, <1>2, BufferIs DEF IsEnd, Smaller, Wanted
  <2>2. Finish("none")
    BY <1>2 DEF Read
  <2> QED BY <1>1, <2>1, <2>2, Unseen DEF Finish, Copying
<1>3. CASE ~IsEnd(n)
  <2>1. fd_src < size
    BY <1>1, <1>3, BufferIs DEF IsEnd, Smaller, Wanted
  <2>2. UNCHANGED <<dest, copy, size, fd_dest, fault>> /\ pc' = "write"
    BY <1>3 DEF Read
  <2> QED BY <1>1, <2>1, <2>2, Unseen DEF Copying
<1> QED BY <1>2, <1>3

LEMMA WriteCopiesBlock ==
    ASSUME Inv, PadInv, FaultInv, Write
    PROVE  Blockwise!CopyBlock
<1>1. pc = "write" /\ fault = "none" /\ fault' = fault /\ Put(MAX_BUFFER_FILE_SIZE)
  BY DEF Write, FaultInv, Amount
<1>2. Writing /\ Tailed /\ fd_dest < size
  BY <1>1 DEF Inv, PadInv, PadWrite
<1>3. PICK q \in Nat : fd_dest = Times(q)
  BY <1>2 DEF Tailed
<1>4. /\ rb \in 0 .. MAX_BUFFER_FILE_SIZE /\ rb > 0 /\ size \in Nat /\ fd_src \in 0 .. size
      /\ fd_src = fd_dest + rb
      /\ rb = MAX_BUFFER_FILE_SIZE \/ fd_src = size
      /\ buffer[1] = <<copy, fd_dest + 1>>
  BY <1>1, <1>2 DEF Inv, TypeOK, Writing
<1>5. BlocksIn(dest)' = SubSeq(BlocksIn(dest), 1, q) \o <<<<copy, q + 1>>>>
                           \o SubSeq(BlocksIn(dest), q + 2, Len(BlocksIn(dest)))
  BY <1>1, <1>3, <1>4, PutIsBlock
<1>6. UNCHANGED <<copy, size, fd_src>> /\ fd_dest' = Times(q + 1) /\ pc' = "read"
  BY <1>1, <1>3, TimesIs DEF Put
<1>7. BlocksOf(size)' = BlocksOf(size)
  BY <1>6 DEF BlocksOf, Padded
<1>8. BlocksOf(size) = q + 1 <=> ~(fd_src < size)
  <2>1. CASE fd_src < size
    <3>1. Times(q) + MAX_BUFFER_FILE_SIZE < size
      BY <1>3, <1>4, <2>1
    <3> QED BY <1>4, <2>1, <3>1, BlocksAre
  <2>2. CASE ~(fd_src < size)
    <3>1. Times(q) < size /\ size <= Times(q) + MAX_BUFFER_FILE_SIZE
      <4>1. Times(q) \in Nat
        BY TimesIs
      <4> QED BY <1>2, <1>3, <1>4, <2>2, <4>1, BufferIs
    <3> QED BY <1>4, <2>2, <3>1, BlocksAre
  <2> QED BY <2>1, <2>2
<1>9. fd_dest \div MAX_BUFFER_FILE_SIZE = q /\ fd_dest' \div MAX_BUFFER_FILE_SIZE = q + 1
  BY <1>3, <1>6, WholeQuotient
<1>10. Copying /\ (Copying' <=> fd_src < size)
  BY <1>1, <1>6 DEF Copying
<1> QED BY <1>5, <1>6, <1>7, <1>8, <1>9, <1>10 DEF Blockwise!CopyBlock

LEMMA StepByBlocks == BlockInv /\ [Next]_vars => [Blockwise!Next]_(Blockwise!vars)
<1> SUFFICES ASSUME BlockInv, [Next]_vars
             PROVE  Blockwise!Next \/ UNCHANGED Blockwise!vars
  OBVIOUS
<1> USE DEF BlockInv
<1>1. CASE UNCHANGED vars
  <2>1. UNCHANGED <<dest, copy, size, fd_dest>> /\ (Copying' <=> Copying)
    BY <1>1 DEF vars, Copying
  <2> QED BY <2>1, Unseen
<1>2. CASE \E s \in Sizes : Open(s)
  BY <1>2, OpenStarts DEF Blockwise!Next
<1>3. CASE OpenFails
  <2>1. UNCHANGED <<dest, copy, size>> /\ ~Copying /\ ~Copying'
    BY <1>3 DEF OpenFails, Copying
  <2> QED BY <2>1, Unseen
<1>4. CASE Read
  BY <1>4, ReadIsUnseen
<1>5. CASE ReadFails
  <2>1. UNCHANGED <<dest, copy, size>> /\ ~Copying' /\ "read" \in Faults
    BY <1>5 DEF ReadFails, Finish, Copying
  <2>2. CASE Copying
    BY <2>1, <2>2, Stopped, SameBlocks DEF Blockwise!Next
  <2>3. CASE ~Copying
    BY <2>1, <2>3, Unseen
  <2> QED BY <2>2, <2>3
<1>6. CASE Write
  BY <1>6, WriteCopiesBlock DEF Blockwise!Next
<1>7. CASE WriteShort
  <2>1. PICK n \in 1 .. Amount - 1 : fd_dest + n >= Len(dest) /\ Put(n)
    BY <1>7 DEF WriteShort
  <2>2. pc = "write" /\ fault = "none" /\ fault' = "full" /\ "full" \in Faults
    BY <1>7 DEF WriteShort, FaultInv
  <2>3. PICK q \in Nat : fd_dest = Times(q)
    BY <2>2 DEF PadInv, PadWrite, Tailed
  <2>4. BlocksIn(dest)' = BlocksIn(dest)
    BY <2>1, <2>2, <2>3, PartIsNoBlock DEF Amount
  <2>5. UNCHANGED <<copy, size>> /\ Copying /\ ~Copying'
    BY <2>1, <2>2 DEF Put, Copying
  <2> QED BY <2>2, <2>4, <2>5, Stopped DEF Blockwise!Next
<1>8. CASE WriteFails
  <2>1. UNCHANGED <<dest, copy, size>> /\ ~Copying'
    BY <1>8 DEF WriteFails, Finish, Copying
  <2>2. CASE fault = "full"
    <3>1. ~Copying
      BY <2>2 DEF Copying
    <3> QED BY <2>1, <3>1, Unseen
  <2>3. CASE fault # "full"
    <3>1. Copying /\ "write" \in Faults
      BY <1>8, <2>3 DEF WriteFails, Copying
    <3> QED BY <2>1, <3>1, Stopped, SameBlocks DEF Blockwise!Next
  <2> QED BY <2>2, <2>3
<1> QED
  BY <1>1, <1>2, <1>3, <1>4, <1>5, <1>6, <1>7, <1>8 DEF Next, Step

LEMMA StartByBlocks == Init => Blockwise!Init
<1> SUFFICES ASSUME Init PROVE Blockwise!Init
  OBVIOUS
<1>1. BlocksIn(dest) = <<>>
  <2>1. dest \in Seq(Byte) /\ Len(dest) = Times(0)
    BY TimesIs DEF Init
  <2>2. BlocksIn(dest) \in Seq(Byte) /\ Len(BlocksIn(dest)) = 0
    BY <2>1, BlocksInIs, WholeQuotient
  <2> QED BY <2>2, EmptySeq
<1>2. BlocksOf(size) = 0
  BY BlocksAre DEF Init
<1>3. ~Copying
  BY DEF Init, Copying
<1> QED BY <1>1, <1>2, <1>3 DEF Init, Blockwise!Init

\* For every size of the buffer, of the files and of what was there before: the loop at
\* fileutil.h:587-593 copies block after block to its place and touches no other, and a read
\* or write that fails cuts the copy between two blocks.  Archive takes copies for this.
THEOREM CopiesByBlocks == Spec => Blockwise!Safety
<1>1. BlockInv /\ [Next]_vars => [Blockwise!Next]_(Blockwise!vars)
  BY StepByBlocks
<1> QED BY <1>1, StartByBlocks, BlockInvariant, PTL DEF Spec, Blockwise!Safety

=============================================================================
