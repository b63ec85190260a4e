------------------------------ MODULE Search -------------------------------
(***************************************************************************)
(* The searches one child makes for its client, one after the other        *)
(* (srvrutil.h: handle_fs_name, handle_fs_size, handle_fs_ext,             *)
(* handle_fs_date; fileutil.h: file_search, file_search_size,              *)
(* file_search_dt, f_extension_search and their callbacks): what the       *)
(* client lets pass, what the child takes it for, which files are found,   *)
(* and what a search leaves behind for the next, in the globals            *)
(* f_path_tracker and fs_details and in the table of descriptors.          *)
(***************************************************************************)
EXTENDS Matching, Sequences, FiniteSets

CONSTANTS
    Files,      \* the files of the tree that is searched
    File,       \* [file -> record], see Matching
    Asked,      \* the names users ask for
    Tight,      \* those of them that fill the block malloc returns for their length
    SizeTexts,  \* the numbers they type
    ExtTexts,   \* the extensions
    DateTexts,  \* the dates
    MaxFds,     \* the descriptors a child may have open besides its socket
    Faults      \* what may return an error: a subset of {"walk", "tar"}

ASSUME SearchAssumption ==
    /\ \A f \in Files : File[f].long \in BOOLEAN /\ File[f].size \in Nat /\ File[f].birth \in Nat
    /\ Tight \subseteq Asked
    /\ SizeTexts \subseteq [value : Nat, digits : BOOLEAN]
    /\ DateTexts \subseteq
          [style : {"digits", "month", "iso"}, day : Nat, month : Nat, year : Nat]
    /\ "none" \notin ExtTexts
    /\ MaxFds \in Nat
    /\ Faults \subseteq {"walk", "tar"}

VARIABLES
    pc,       \* "idle", "enter", "nftw", "walk", "tar", "send" or "dead"
    request,  \* the command: [cmd, name, sizes, exts, date]
    tracker,  \* f_path_tracker: "null", "live" or "freed"
    details,  \* fs_details, likewise
    todo,     \* the files the walk has still to visit
    copied,   \* the files that match: copied, or the one whose details are kept
    fds,      \* the descriptors in use besides the socket
    reply,    \* [tag, size]: what was answered, and for w24fn the text of the size
    why,      \* what the child died of
    entered   \* history: the times w24ft was entered

memory == <<tracker, details>>
vars == <<pc, request, memory, todo, copied, fds, reply, why, entered>>
-----------------------------------------------------------------------------
NoDate == [style |-> "none", day |-> 0, month |-> 0, year |-> 0]
NoReply == [tag |-> "none", size |-> 0]
NoRequest == [cmd |-> "none", name |-> "none", sizes |-> <<>>, exts |-> {}, date |-> NoDate]

Init ==
    /\ pc = "idle"
    /\ request = NoRequest
    /\ tracker = "null"
    /\ details = "null"
    /\ todo = {}
    /\ copied = {}
    /\ fds = 0
    /\ reply = NoReply
    /\ why = "none"
    /\ entered = 0

(***************************************************************************)
(* The client, which does not count the extensions of w24ft.               *)
(***************************************************************************)
NameRequests == {[NoRequest EXCEPT !.cmd = "w24fn", !.name = n] : n \in Asked}
SizeRequests == {[NoRequest EXCEPT !.cmd = "w24fz", !.sizes = s] :
                     s \in {<<a>> : a \in SizeTexts} \cup (SizeTexts \X SizeTexts)}
ExtRequests == {[NoRequest EXCEPT !.cmd = "w24ft", !.exts = e] :
                     e \in {x \in SUBSET ExtTexts : Cardinality(x) \in 1 .. 4}}
DateRequest(c, d) == [NoRequest EXCEPT !.cmd = c, !.date = d]
DateRequests == {DateRequest(c, d) : c \in {"w24fdb", "w24fda"}, d \in DateTexts}
Requests == NameRequests \cup SizeRequests \cup ExtRequests \cup DateRequests

\* The first two arguments of w24fz and the date are looked at.
verify_input(r) ==
    /\ r.cmd = "w24fz" => \A i \in DOMAIN r.sizes : is_arg_number(r.sizes[i])
    /\ r.cmd \in {"w24fdb", "w24fda"} => validate_date(r.date)

Answer(tag) == reply' = [tag |-> tag, size |-> 0]

Ask(r) ==
    /\ pc = "idle"
    /\ request' = r
    /\ IF verify_input(r) THEN pc' = "enter" /\ Answer("none")
                          ELSE Answer("refused") /\ UNCHANGED pc
    /\ copied' = {}
    /\ UNCHANGED <<memory, todo, fds, why, entered>>

(***************************************************************************)
(* The handlers up to the walk.                                            *)
(***************************************************************************)
Die(cause) == pc' = "dead" /\ why' = cause

\* Handlers that return without a word: two sizes must be there, and numbers; there is
\* room for three extensions.
Numbers == Len(request.sizes) >= 2 /\ \A i \in 1 .. 2 : is_number(request.sizes[i])
Refused == CASE request.cmd = "w24fz" -> ~Numbers
             [] request.cmd = "w24ft" -> Cardinality(request.exts) > 3
             [] OTHER -> FALSE

Silence ==
    /\ pc = "enter"
    /\ Refused
    /\ pc' = "idle"
    /\ Answer("silent")
    /\ UNCHANGED <<request, memory, todo, copied, fds, why, entered>>

\* All but w24ft free what f_path_tracker points to.
Frees == request.cmd # "w24ft"

\* Of a second free the process may die.
SecondFree ==
    /\ pc = "enter" /\ ~Refused
    /\ Frees /\ tracker = "freed"
    /\ Die("second free")
    /\ UNCHANGED <<request, memory, todo, copied, fds, reply, entered>>

\* The copy of the name is one byte longer than its memory.
NameOverrun ==
    /\ pc = "enter"
    /\ request.cmd = "w24fn" /\ request.name \in Tight
    /\ Die("overrun")
    /\ UNCHANGED <<request, memory, todo, copied, fds, reply, entered>>

\* Mutant: memory is allocated the first time only.
AllocatedOnce(pointer) == IF pointer = "null" THEN "live" ELSE pointer
\* malloc, whatever the pointer was.
Allocated(pointer) == "live"

sz_min == int(atoll(request.sizes[1]))
sz_max == int(atoll(request.sizes[2]))

\* Up to the call of nftw; a range without sizes is answered at once.
EnterPlain ==
    /\ pc = "enter" /\ ~Refused
    /\ Frees
    /\ tracker' = Allocated(tracker)
    /\ details' = IF request.cmd = "w24fz" THEN details ELSE Allocated(details)
    /\ IF request.cmd = "w24fz" /\ (sz_min < 0 \/ sz_max < sz_min \/ sz_max < 0)
       THEN pc' = "idle" /\ Answer("404")
       ELSE pc' = "nftw" /\ UNCHANGED reply
    /\ UNCHANGED <<request, todo, copied, fds, why, entered>>

\* w24ft opens the root of the tree, and never closes it.
EnterExt ==
    /\ pc = "enter" /\ ~Refused
    /\ ~Frees
    /\ entered' = entered + 1
    /\ IF fds = MaxFds THEN Die("descriptors") /\ UNCHANGED <<tracker, fds>>
       ELSE /\ tracker' = Allocated(tracker)
            /\ fds' = fds + 1
            /\ pc' = "nftw"
            /\ UNCHANGED why
    /\ UNCHANGED <<request, details, todo, copied, reply>>

(***************************************************************************)
(* The walk, in any order, and its callbacks.                              *)
(***************************************************************************)
\* Without a descriptor, or for a reason of its own, nftw returns -1.
WalkFails ==
    /\ pc = "nftw"
    /\ fds = MaxFds \/ "walk" \in Faults
    /\ IF request.cmd \in {"w24fn", "w24ft"}
       THEN Die(IF fds = MaxFds THEN "descriptors" ELSE "walk") /\ UNCHANGED reply
       ELSE pc' = "idle" /\ Answer("404") /\ UNCHANGED why
    /\ UNCHANGED <<request, memory, todo, copied, fds, entered>>

WalkBegins ==
    /\ pc = "nftw"
    /\ fds < MaxFds
    /\ fds' = fds + 1
    /\ todo' = Files
    /\ pc' = "walk"
    /\ UNCHANGED <<request, memory, copied, reply, why, entered>>

Matches(f) ==
    CASE request.cmd = "w24fn" -> File[f].name = request.name
      [] request.cmd = "w24fz" -> InRange(File[f].size, sz_min, sz_max)
      [] request.cmd = "w24ft" -> \E e \in request.exts : extcmp(File[f], e)
      [] request.cmd = "w24fdb" -> is_before(File[f].birth, to_seconds(request.date))
      [] request.cmd = "w24fda" -> is_after(File[f].birth, to_seconds(request.date))

\* The first file of the name ends the walk.  Its details are sent, and freed.
AnswerName(f) ==
    /\ reply' = [tag |-> "TXT", size |-> SizeText(File[f].size)]
    /\ details' = "freed"
    /\ fds' = fds - 1
    /\ pc' = "idle"
    /\ todo' = {}
    /\ UNCHANGED <<tracker, why>>

\* copy_file needs two descriptors more, for a moment.
Copies ==
    /\ IF fds + 2 > MaxFds THEN Die("descriptors") ELSE UNCHANGED <<pc, why>>
    /\ UNCHANGED <<memory, fds, reply>>

Visit == \E f \in todo :
    /\ pc = "walk"
    /\ IF Matches(f)
       THEN /\ copied' = copied \cup {f}
            /\ IF request.cmd = "w24fn" THEN AnswerName(f)
                                        ELSE Copies /\ todo' = todo \ {f}
       ELSE todo' = todo \ {f} /\ UNCHANGED <<pc, memory, copied, fds, reply, why>>
    /\ UNCHANGED <<request, entered>>

\* extcmp reads before the start of the path.
ReadsBeyond ==
    /\ pc = "walk"
    /\ request.cmd = "w24ft" /\ \E f \in todo : Beyond(File[f])
    /\ Die("beyond")
    /\ UNCHANGED <<request, memory, todo, copied, fds, reply, entered>>

\* The end of the walk: f_path_tracker is freed.  After a search by name the child
\* dereferences the details it has not got.
WalkEnds ==
    /\ pc = "walk"
    /\ todo = {}
    /\ fds' = fds - 1
    /\ tracker' = "freed"
    /\ IF request.cmd = "w24fn" THEN Die("miss") ELSE pc' = "tar" /\ UNCHANGED why
    /\ UNCHANGED <<request, details, todo, copied, reply, entered>>

(***************************************************************************)
(* The archive.                                                            *)
(***************************************************************************)
\* Mutant: the handlers have no branch for a search without a path.
FailureSilent == "none"
\* handle_fs_ext sends its tag, and no archive, also without a path.
Failure == IF request.cmd = "w24ft" THEN "bare" ELSE "404"

TarFails ==
    /\ "tar" \in Faults
    /\ pc = "tar"
    /\ pc' = "idle"
    /\ Answer(Failure)
    /\ UNCHANGED <<request, memory, todo, copied, fds, why, entered>>

TarEnds ==
    /\ pc = "tar"
    /\ pc' = "send"
    /\ fds' = IF fds < MaxFds THEN fds + 1 ELSE fds
    /\ Answer(IF fds < MaxFds THEN "TAR" ELSE "bare")
    /\ UNCHANGED <<request, memory, todo, copied, why, entered>>

\* Mutants: the archive is not closed; it is closed, and its descriptor with it again.
NotClosed(n) == n
ClosedTwice(n) == n - 2
\* close(file), if it could be opened.
Closed(n) == n - 1

SendEnds ==
    /\ pc = "send"
    /\ fds' = IF reply.tag = "TAR" THEN Closed(fds) ELSE fds
    /\ pc' = "idle"
    /\ UNCHANGED <<request, memory, todo, copied, reply, why, entered>>

Step ==
    \/ Silence \/ SecondFree \/ NameOverrun \/ EnterPlain \/ EnterExt
    \/ WalkFails \/ WalkBegins \/ Visit \/ ReadsBeyond \/ WalkEnds
    \/ TarFails \/ TarEnds \/ SendEnds

Next == (\E r \in Requests : Ask(r)) \/ Step

\* The child is scheduled; no user need ask.
Spec == Init /\ [][Next]_vars /\ WF_vars(Step)
-----------------------------------------------------------------------------
(***************************************************************************)
(* Properties.                                                             *)
(***************************************************************************)
Pointer == {"null", "live", "freed"}

\* The variables have their types; a child has no more descriptors than it may.
TypeOK ==
    /\ pc \in {"idle", "enter", "nftw", "walk", "tar", "send", "dead"}
    /\ request \in Requests \cup {NoRequest}
    /\ tracker \in Pointer
    /\ details \in Pointer
    /\ todo \subseteq Files
    /\ copied \subseteq Files
    /\ fds \in 0 .. MaxFds
    /\ reply.tag \in {"none", "refused", "silent", "404", "TXT", "TAR", "bare"}
    /\ reply.size \in Nat \cup {Unwritten}
    /\ why \in {"none", "second free", "overrun", "descriptors", "walk", "miss", "beyond"}
    /\ entered \in Nat

\* Whatever was asked before and however it ended, a callback writes a path only to memory
\* that this search has allocated, and details likewise.
WritesLive == pc = "walk" =>
    /\ tracker = "live"
    /\ request.cmd = "w24fn" => details = "live"

\* A search keeps no descriptor but w24ft's one; a child dies for want of one only after
\* so many w24ft that less than the three of a copy are left.
DescriptorsKept ==
    /\ pc = "idle" => fds = entered
    /\ why = "descriptors" => entered + 3 > MaxFds

Done(tags, cmds) == pc = "idle" /\ reply.tag \in tags /\ request.cmd \in cmds

\* A name is answered with the details of one file of that name, the right size among them
\* unless the file is empty, and the child dies of a miss only if there is none.
NameFound ==
    /\ Done({"TXT"}, {"w24fn"}) => \E f \in Files :
          /\ copied = {f}
          /\ File[f].name = request.name
          /\ File[f].size > 0 => reply.size = File[f].size
    /\ why = "miss" => \A f \in Files : File[f].name # request.name

\* The size a search takes a number for: what multiples of 2^32 leave of it.
StandsFor(size, typed) == (typed - size) % (2 * IntHalf) = 0

\* What an archive is made of, for whatever was typed: by size all files between what the two
\* numbers are taken for, which are sizes and in order, though the numbers may be neither; by
\* extension all files of long names that end with one of them, and those without a period
\* whose path has one of them behind the last period of its directories; and no other file.
ArchiveSelects ==
    /\ Done({"TAR"}, {"w24fz"}) => \E min, max \in 0 .. IntHalf - 1 :
          /\ StandsFor(min, request.sizes[1].value)
          /\ StandsFor(max, request.sizes[2].value)
          /\ min <= max
          /\ copied = {f \in Files : min <= File[f].size /\ File[f].size <= max}
    /\ Done({"TAR"}, {"w24ft"}) =>
          copied = {f \in Files : /\ File[f].long
                                  /\ \/ File[f].ext \in request.exts
                                     \/ File[f].ext = "none" /\ File[f].above \in request.exts}

\* The days of a month, by counting up to the next.
DaysIn(d) ==
    DayNumber(IF d.month = 12 THEN [d EXCEPT !.day = 1, !.month = 1, !.year = @ + 1]
                              ELSE [d EXCEPT !.day = 1, !.month = @ + 1])
    - DayNumber([d EXCEPT !.day = 1])

\* Of the dates written as the client's strptime reads them, 31/12/2023, it sends exactly those
\* there are, from the past or of today.  (Those written as README.md:80 writes them, it never
\* sends.)
DatesAreReal == request.cmd \in {"w24fdb", "w24fda"} /\ request.date.style = "digits" =>
    (reply.tag # "refused" <=> LET d == request.date IN
        /\ d.month \in 1 .. 12 /\ d.day \in 1 .. DaysIn(d)
        /\ DayNumber(d) <= DayNumber(Today))

\* Every command the client sends is answered, or refused by its handler without a word, or
\* the child has died; also after second frees that went well and without descriptors.
Answered == (pc = "enter") ~>
    (pc = "dead" \/ (pc = "idle" /\ reply.tag # "none"))

\* fileutil.h:154-156 says where f_path_tracker is freed "don't want to take the risk of
\* freeing up the same memory twice".
FreedOnce == pc = "enter" /\ ~Refused /\ Frees => tracker # "freed"

\* README.md:78 says of w24fdb that it returns the files "whose date of creation is <=date".
DatesSelect == Done({"TAR"}, {"w24fdb"}) =>
    copied = {f \in Files : File[f].birth <= DayNumber(request.date)}

=============================================================================
