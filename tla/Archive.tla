------------------------------ MODULE Archive ------------------------------
(***************************************************************************)
(* The searches that answer with an archive (fileutil.h: file_search_size, *)
(* file_search_dt, f_extension_search and their callbacks; srvrutil.h:     *)
(* handle_fs_size, handle_fs_ext, handle_fs_date, send_tar_to_client), run *)
(* by the children of any number of clients at the same time.              *)
(*                                                                         *)
(* All of them share one storage directory: a search walks the tree and    *)
(* copies every file that matches to the file of the same name there,      *)
(* block by block, lets tar write temp.tar.gz in that directory from       *)
(* everything the directory holds, and sends that file.  Nothing is locked *)
(* and nothing is ever removed.                                            *)
(***************************************************************************)
EXTENDS Naturals, Sequences, FiniteSets

CONSTANTS
    Children,   \* the processes forked for clients
    Files,      \* the files of the tree that is searched
    Names,      \* their names, without directories
    Name,       \* [file -> name]
    Blocks,     \* [file -> number of blocks of MAX_BUFFER_FILE_SIZE bytes]
    Searches,   \* what users ask: [ext: is it w24ft, files: the files that match]
    Hole,       \* what a read finds where nothing was written
    MaxSearches,\* the searches asked in all, bounding the run
    Faults,     \* what may return an error: a subset of {"tar", "walk"}
    Faulty      \* the children whose open, read or write of a file may fail too

ASSUME ArchiveAssumption ==
    /\ Name \in [Files -> Names]
    /\ Blocks \in [Files -> Nat]
    /\ Searches \subseteq [ext : BOOLEAN, files : SUBSET Files]
    /\ Hole \notin (Files \X Nat) \cup [name : Names, data : Seq(Files \X Nat), by : Children]
    /\ MaxSearches \in Nat
    /\ Faults \subseteq {"tar", "walk"}
    /\ Faulty \subseteq Children

VARIABLES
    stored,   \* the names in the storage directory
    content,  \* [name -> blocks] of the file of that name there
    dir,      \* the storage directory exists
    archive,  \* the members in temp.tar.gz
    pc,       \* [child -> place] in the search
    search,   \* [child -> search] it answers, or answered last
    todo,     \* [child -> files] that match and are not copied yet
    current,  \* [child -> file] being copied, or "none"
    off,      \* [child -> number] blocks, or members, its file descriptor is past
    dangling, \* [child -> BOOLEAN] f_path_tracker points to memory that was freed
    members,  \* [child -> names] its tar has still to add
    reply,    \* [child -> answer] "TAR" and the members sent, "404", or a bare "TAR"
    done,     \* the number of searches begun
    alone,    \* history: [child -> BOOLEAN] nobody else searched since it began
    lost      \* history: [child -> files] of which a failing read or write took a part

storageVars == <<stored, content, dir, archive>>
vars == <<storageVars, pc, search, todo, current, off, dangling, members, reply, done, alone, lost>>

-----------------------------------------------------------------------------
\* write(2) of x at position i of a file: a gap behind its end reads as zeroes.
WriteAt(data, i, x) ==
    [k \in 1 .. (IF i > Len(data) THEN i ELSE Len(data)) |->
        IF k = i THEN x ELSE IF k <= Len(data) THEN data[k] ELSE Hole]

NoReply == [tag |-> "none", sent |-> <<>>]

Init ==
    /\ dir \in BOOLEAN
    /\ stored = {}
    /\ content = [n \in Names |-> <<>>]
    /\ archive = <<>>
    /\ pc = [p \in Children |-> "idle"]
    /\ search \in [Children -> {[ext |-> FALSE, files |-> {}]}]
    /\ todo = [p \in Children |-> {}]
    /\ current = [p \in Children |-> "none"]
    /\ off = [p \in Children |-> 0]
    /\ dangling = [p \in Children |-> FALSE]
    /\ members = [p \in Children |-> {}]
    /\ reply = [p \in Children |-> NoReply]
    /\ done = 0
    /\ alone = [p \in Children |-> FALSE]
    /\ lost = [p \in Children |-> {}]

Busy(p) == pc[p] \notin {"idle", "dead"}
Goto(p, place) == pc' = [pc EXCEPT ![p] = place]

\* The searches by size and date free f_path_tracker if it is not NULL, and nothing
\* makes it NULL again when it has been freed: of a second free the process may die.
\* w24ft does not free it, and looks for the storage directory first.
Entered(p, q) ==
    IF q.ext THEN {"stat"} ELSE IF dangling[p] THEN {"walk", "dead"} ELSE {"walk"}

\* A request for q arrives.  Every search allocates its own f_path_tracker.
BeginWith(p, q) ==
    /\ pc[p] = "idle"
    /\ done < MaxSearches
    /\ done' = done + 1
    /\ dangling' = [dangling EXCEPT ![p] = FALSE]
    /\ search' = [search EXCEPT ![p] = q]
    /\ todo' = [todo EXCEPT ![p] = q.files]
    /\ reply' = [reply EXCEPT ![p] = NoReply]
    /\ \E place \in Entered(p, q) : Goto(p, place)
    /\ alone' = [c \in Children |-> IF c = p THEN \A d \in Children : ~Busy(d)
                                             ELSE alone[c] /\ ~Busy(c)]
    /\ lost' = [lost EXCEPT ![p] = {}]
    /\ UNCHANGED <<storageVars, current, off, members>>

Begin(p) == \E q \in Searches : BeginWith(p, q)

StatStorage(p) ==
    /\ pc[p] = "stat"
    /\ Goto(p, IF dir THEN "walk" ELSE "mkdir")
    /\ UNCHANGED <<storageVars, dangling, search, todo, current, off, members, reply, done,
                   alone, lost>>

\* mkdir fails, and the process exits, if another made the directory meanwhile.
MakeStorage(p) ==
    /\ pc[p] = "mkdir"
    /\ dir' = TRUE
    /\ Goto(p, IF dir THEN "dead" ELSE "walk")
    /\ UNCHANGED <<stored, content, archive, dangling, search, todo, current, off, members, reply,
                   done, alone, lost>>

(***************************************************************************)
(* The walk, in any order, and copy_file for every match.                  *)
(***************************************************************************)
\* Mutants: a block is written for the read that finds the end; the file is copied again
\* and again.
AfterBlockOneMore(p, f, n) ==
    /\ Goto(p, IF n > Blocks[f] THEN "walk" ELSE "copy")
    /\ todo' = [todo EXCEPT ![p] = IF n > Blocks[f] THEN @ \ {f} ELSE @]
    /\ off' = [off EXCEPT ![p] = IF n > Blocks[f] THEN 0 ELSE n]
    /\ current' = [current EXCEPT ![p] = IF n > Blocks[f] THEN "none" ELSE f]
AfterBlockAgain(p, f, n) ==
    /\ Goto(p, IF n = Blocks[f] THEN "walk" ELSE "copy")
    /\ off' = [off EXCEPT ![p] = IF n = Blocks[f] THEN 0 ELSE n]
    /\ current' = [current EXCEPT ![p] = IF n = Blocks[f] THEN "none" ELSE f]
    /\ UNCHANGED todo

\* The file f is copied up to its block n.
AfterBlock(p, f, n) ==
    /\ Goto(p, IF n = Blocks[f] THEN "walk" ELSE "copy")
    /\ todo' = [todo EXCEPT ![p] = IF n = Blocks[f] THEN @ \ {f} ELSE @]
    /\ off' = [off EXCEPT ![p] = IF n = Blocks[f] THEN 0 ELSE n]
    /\ current' = [current EXCEPT ![p] = IF n = Blocks[f] THEN "none" ELSE f]

\* Mutant: the destination is opened with O_TRUNC.
Truncated(data) == <<>>

\* copy_file opens the destination with O_RDWR, and with O_CREAT|O_RDWR if it is not
\* there: one that is there is not truncated.
Opened(data) == data

CopyFile(p) == \E f \in todo[p] :
    /\ pc[p] = "walk"
    /\ dir
    /\ stored' = stored \cup {Name[f]}
    /\ content' = [content EXCEPT ![Name[f]] = Opened(@)]
    /\ AfterBlock(p, f, 0)
    /\ UNCHANGED <<dir, archive, dangling, search, members, reply, done, alone, lost>>

\* There is no directory for the destination, or one of the two files cannot be opened for
\* another reason: exit(CODE_ERROR_APP), and nothing was created.
CopyFails(p) ==
    /\ pc[p] = "walk"
    /\ todo[p] # {}
    /\ ~dir \/ p \in Faulty
    /\ Goto(p, "dead")
    /\ UNCHANGED <<storageVars, dangling, search, todo, current, off, members, reply, done,
                   alone, lost>>

\* The walk cannot go on: w24ft exits, the others answer "404" and free nothing.
WalkFails(p) ==
    /\ "walk" \in Faults
    /\ pc[p] = "walk"
    /\ Goto(p, IF search[p].ext THEN "dead" ELSE "idle")
    /\ reply' = [reply EXCEPT ![p].tag = IF search[p].ext THEN @ ELSE "404"]
    /\ UNCHANGED <<storageVars, search, todo, current, off, dangling, members, done, alone, lost>>

\* Mutant: the block before is read.
LastBlock(p) == <<current[p], off[p]>>

NextBlock(p) == <<current[p], off[p] + 1>>

\* copy_file_fd: a block is read from the tree and written behind the last one.
CopyBlock(p) ==
    /\ pc[p] = "copy"
    /\ LET f == current[p] IN
          /\ content' = [content EXCEPT ![Name[f]] = WriteAt(@, off[p] + 1, NextBlock(p))]
          /\ AfterBlock(p, f, off[p] + 1)
    /\ UNCHANGED <<stored, dir, archive, dangling, search, members, reply, done, alone, lost>>

\* A read or a write fails: the loop ends as at the end of the file, and the walk goes on.  That
\* a copy is cut between blocks, also by a full disk, is what CopyFile shows (its BlockSpec).
CopyCut(p) ==
    /\ p \in Faulty
    /\ pc[p] = "copy"
    /\ lost' = [lost EXCEPT ![p] = @ \cup {current[p]}]
    /\ todo' = [todo EXCEPT ![p] = @ \ {current[p]}]
    /\ off' = [off EXCEPT ![p] = 0]
    /\ current' = [current EXCEPT ![p] = "none"]
    /\ Goto(p, "walk")
    /\ UNCHANGED <<storageVars, dangling, search, members, reply, done, alone>>

(***************************************************************************)
(* The walk has ended, f_path_tracker is freed: create_temp_tar_gz.  tar   *)
(* truncates the archive, then adds what it found in the directory; two of *)
(* them write to the same file, each at its own position.                  *)
(***************************************************************************)
TarBegin(p) ==
    /\ pc[p] = "walk"
    /\ todo[p] = {}
    /\ dir
    /\ archive' = <<>>
    /\ members' = [members EXCEPT ![p] = stored]
    /\ Goto(p, "tar")
    /\ dangling' = [dangling EXCEPT ![p] = TRUE]
    /\ UNCHANGED <<stored, content, dir, search, todo, current, off, reply, done, alone, lost>>

TarAdd(p) == \E n \in members[p] :
    /\ pc[p] = "tar"
    /\ archive' = WriteAt(archive, off[p] + 1, [name |-> n, data |-> content[n], by |-> p])
    /\ off' = [off EXCEPT ![p] = @ + 1]
    /\ members' = [members EXCEPT ![p] = @ \ {n}]
    /\ UNCHANGED <<stored, content, dir, pc, dangling, search, todo, current, reply, done, alone,
                   lost>>

\* The handler has the path of the archive and sends the tag.
TarEnd(p) ==
    /\ pc[p] = "tar"
    /\ members[p] = {}
    /\ off' = [off EXCEPT ![p] = 0]
    /\ reply' = [reply EXCEPT ![p] = [tag |-> "TAR", sent |-> <<>>]]
    /\ Goto(p, "send")
    /\ UNCHANGED <<storageVars, dangling, search, todo, current, members, done, alone, lost>>

\* Without a path: "404", but handle_fs_ext sends the tag all the same, and no archive.
Unpathed(p) ==
    /\ reply' = [reply EXCEPT ![p].tag = IF search[p].ext THEN "bare" ELSE "404"]
    /\ Goto(p, "idle")
    /\ off' = [off EXCEPT ![p] = 0]
    /\ members' = [members EXCEPT ![p] = {}]
    /\ dangling' = [dangling EXCEPT ![p] = TRUE]
    /\ UNCHANGED <<storageVars, search, todo, current, done, alone, lost>>

TarFails(p) ==
    \/ pc[p] = "walk" /\ todo[p] = {} /\ ~dir /\ Unpathed(p)
    \/ "tar" \in Faults /\ pc[p] = "tar" /\ Unpathed(p)

\* Mutant: the last one is not sent.
MoreBehind(p) == off[p] + 1 < Len(archive)

\* There is more to read in the archive, as it is by now.
MoreToSend(p) == off[p] < Len(archive)

\* send_tar_to_client: read and write until the end of the file, as it is by then.
SendMember(p) ==
    /\ pc[p] = "send"
    /\ MoreToSend(p)
    /\ reply' = [reply EXCEPT ![p].sent = Append(@, archive[off[p] + 1])]
    /\ off' = [off EXCEPT ![p] = @ + 1]
    /\ UNCHANGED <<storageVars, pc, dangling, search, todo, current, members, done, alone, lost>>

SendEnd(p) ==
    /\ pc[p] = "send"
    /\ ~MoreToSend(p)
    /\ Goto(p, "idle")
    /\ off' = [off EXCEPT ![p] = 0]
    /\ UNCHANGED <<storageVars, dangling, search, todo, current, members, reply, done, alone, lost>>

\* The archive cannot be opened, or read any further: the client gets what was sent so far.
SendFails(p) ==
    /\ p \in Faulty
    /\ pc[p] = "send"
    /\ lost' = [lost EXCEPT ![p] = search[p].files]
    /\ Goto(p, "idle")
    /\ off' = [off EXCEPT ![p] = 0]
    /\ UNCHANGED <<storageVars, dangling, search, todo, current, members, reply, done, alone>>

Work(p) ==
    \/ StatStorage(p) \/ MakeStorage(p)
    \/ CopyFile(p) \/ CopyFails(p) \/ CopyBlock(p) \/ CopyCut(p) \/ WalkFails(p)
    \/ TarBegin(p) \/ TarAdd(p) \/ TarEnd(p) \/ TarFails(p)
    \/ SendMember(p) \/ SendEnd(p) \/ SendFails(p)

Next == \E p \in Children : Begin(p) \/ Work(p)

\* The children are scheduled; no user need ask anything.
Spec == Init /\ [][Next]_vars /\ \A p \in Children : WF_vars(Work(p))

-----------------------------------------------------------------------------
(***************************************************************************)
(* Properties.                                                             *)
(***************************************************************************)
Block == Files \X (Nat \ {0})
Member == [name : Names, data : Seq(Block), by : Children]

\* The variables have their types.
TypeOK ==
    /\ stored \subseteq Names
    /\ content \in [Names -> Seq(Block \cup {Hole})]
    /\ dir \in BOOLEAN
    /\ archive \in Seq(Member \cup {Hole})
    /\ pc \in [Children -> {"idle", "stat", "mkdir", "walk", "copy", "tar", "send", "dead"}]
    /\ search \in [Children -> [ext : BOOLEAN, files : SUBSET Files]]
    /\ todo \in [Children -> SUBSET Files]
    /\ current \in [Children -> Files \cup {"none"}]
    /\ off \in [Children -> Nat]
    /\ dangling \in [Children -> BOOLEAN]
    /\ members \in [Children -> SUBSET Names]
    /\ reply \in [Children -> [tag : {"none", "TAR", "404", "bare"},
                               sent : Seq(Member \cup {Hole})]]
    /\ done \in 0 .. MaxSearches
    /\ alone \in [Children -> BOOLEAN]
    /\ lost \in [Children -> SUBSET Files]

\* However the copies of several children to one name interleave, every block of a
\* stored file is the block at that position of some file of that name: no copy leaves
\* a gap, or puts a block of one name or position at another.
BlocksInPlace == \A n \in Names : \A k \in 1 .. Len(content[n]) :
    \E f \in Files : Name[f] = n /\ k <= Blocks[f] /\ content[n][k] = <<f, k>>

\* When a child makes or sends its archive there is a file for every match, also for those
\* whose copies were cut; the copies that were not are stored in full length, and neither
\* another child's copy nor one that was cut has made them shorter.
StoredWhole == \A p \in Children : pc[p] \in {"tar", "send"} =>
    \A f \in search[p].files :
        /\ Name[f] \in stored
        /\ f \notin lost[p] => Len(content[Name[f]]) >= Blocks[f]

Answered(p) == pc[p] = "idle" /\ reply[p].tag = "TAR"
Sent(p) == {reply[p].sent[i] : i \in 1 .. Len(reply[p].sent)} \ {Hole}

\* The copy of a match of this name was cut, or the archive was.
LostName(p, n) == \E f \in lost[p] : Name[f] = n

\* A child nobody disturbs sends an archive of its own that has, for every name of a
\* match of which no copy was cut, all blocks of a match of that name, in their places.
ServedAlone == \A p \in Children :
    alone[p] /\ Answered(p) =>
        /\ \A m \in Sent(p) : m.by = p
        /\ \A f \in {h \in search[p].files : ~LostName(p, Name[h])} :
              \E m \in Sent(p), g \in search[p].files :
                 /\ m.name = Name[f]
                 /\ m.name = Name[g]
                 /\ \A k \in 1 .. Blocks[g] : m.data[k] = <<g, k>>

\* Every search ends, also while others truncate and rewrite the archive it reads.
SearchEnds == \A p \in Children : Busy(p) ~> ~Busy(p)

\* README.md:59 says of w24fz, and of the other searches alike, that the server "must return to
\* the client temp.tar.gz that contains all the files" that match: each has a member.
ArchiveHasAll == \A p \in Children : Answered(p) =>
    \A f \in search[p].files : \E m \in Sent(p) : m.name = Name[f] /\ Len(m.data) >= Blocks[f]

=============================================================================
