------------------------------ MODULE Listing ------------------------------
(***************************************************************************)
(* dirlist (srvrutil.h: handle_listdir_rqst; fileutil.h: dir_count,        *)
(* list_dir_sort and its comparators): a child reads the home directory    *)
(* twice, once to count the directories in it and once to fill an array of *)
(* that length, while others make, remove and change directories there.    *)
(***************************************************************************)
EXTENDS Integers, Sequences, FiniteSets, Functions

CONSTANTS
    Names,      \* names of directories, numbered in the order of strcmp
    Tight,      \* those whose copy fills the block malloc returns for it
    Times,      \* modification times, [sec, nsec]
    MaxChanges, \* the changes others make, bounding the run
    Faults      \* what may return an error: a subset of {"opendir"}

ASSUME ListingAssumption ==
    /\ Names \subseteq Nat /\ IsFiniteSet(Names)
    /\ Tight \subseteq Names
    /\ Times \subseteq [sec : Nat, nsec : Nat]
    /\ MaxChanges \in Nat
    /\ Faults \subseteq {"opendir"}

VARIABLES
    mtime,    \* [name -> time] of the directories in the home directory
    at_home,  \* the server was started in the home directory
    changes,  \* the changes made
    pc,       \* "idle", "counting", "reopen", "filling", "answer" or "dead"
    option,   \* "-a" or "-t"
    i_count,  \* directories counted, or entries filled
    cap,      \* the entries the array has room for
    list,     \* the entries: [f_name, nsec]
    must,     \* what readdir has still to return
    may,      \* what readdir may return: removed or made since opendir
    reply,    \* [tag: "none", "TXT" or "404", dirs: names in the order they are sent]
    steady,   \* history: the directories that were there since the request came
    ever,     \* history: those that were there at some time since
    made,     \* history: the number made since
    quiet,    \* history: nothing was changed since
    failed    \* history: opendir failed

home == <<mtime, at_home, changes>>
stream == <<must, may>>
history == <<steady, ever, made, quiet, failed>>
vars == <<home, pc, option, i_count, cap, list, stream, reply, history>>
-----------------------------------------------------------------------------
there == DOMAIN mtime
NoReply == [tag |-> "none", dirs |-> <<>>]
Nsecs == {t.nsec : t \in Times}

Init ==
    /\ \E dirs \in SUBSET Names : mtime \in [dirs -> Times]
    /\ at_home \in BOOLEAN
    /\ changes = 0
    /\ pc = "idle"
    /\ option = "-a"
    /\ i_count = 0
    /\ cap = 0
    /\ list = <<>>
    /\ must = {}
    /\ may = {}
    /\ reply = NoReply
    /\ steady = {}
    /\ ever = {}
    /\ made = 0
    /\ quiet = FALSE
    /\ failed = FALSE

(***************************************************************************)
(* Others in the home directory.  A stream that is being read need not     *)
(* return what is made after opendir, and may return what was removed.     *)
(* Between two requests the directory stays as one of Init's.              *)
(***************************************************************************)
Reading == pc \in {"counting", "filling"}

Change ==
    /\ pc \notin {"idle", "dead"}
    /\ changes < MaxChanges
    /\ changes' = changes + 1
    /\ quiet' = FALSE
    /\ UNCHANGED <<at_home, pc, option, i_count, cap, list, reply, failed>>

Make == Change /\ \E d \in Names \ there :
    /\ \E t \in Times : mtime' = [c \in there \cup {d} |-> IF c = d THEN t ELSE mtime[c]]
    /\ may' = IF Reading THEN may \cup {d} ELSE may
    /\ ever' = ever \cup {d}
    /\ made' = made + 1
    /\ UNCHANGED <<must, steady>>

Remove == Change /\ \E d \in there :
    /\ mtime' = Restrict(mtime, there \ {d})
    /\ must' = must \ {d}
    /\ may' = IF d \in must THEN may \cup {d} ELSE may
    /\ steady' = steady \ {d}
    /\ UNCHANGED <<ever, made>>

Touch == Change /\ \E d \in there, t \in Times :
    /\ mtime' = [mtime EXCEPT ![d] = t]
    /\ UNCHANGED <<stream, steady, ever, made>>

(***************************************************************************)
(* The child.                                                              *)
(***************************************************************************)
\* dir_count opens the home directory.
Request(o) ==
    /\ pc = "idle"
    /\ option' = o
    /\ pc' = "counting"
    /\ must' = there
    /\ may' = {}
    /\ i_count' = 0
    /\ cap' = 0
    /\ list' = <<>>
    /\ reply' = NoReply
    /\ steady' = there
    /\ ever' = there
    /\ made' = 0
    /\ quiet' = TRUE
    /\ failed' = FALSE
    /\ UNCHANGED home

\* readdir returns d.
Returned(d) ==
    /\ d \in must \cup may
    /\ must' = must \ {d}
    /\ may' = may \ {d}

Count == \E d \in Names :
    /\ pc = "counting"
    /\ Returned(d)
    /\ i_count' = i_count + 1
    /\ UNCHANGED <<home, pc, option, cap, list, reply, history>>

\* Mutant: nothing is sent when there is no list.
Missing == NoReply

\* list_dentry is NULL.
NotFound == [tag |-> "404", dirs |-> <<>>]

\* Without a directory list_dir_sort is done, otherwise it allocates the array.
Counted ==
    /\ pc = "counting"
    /\ must = {}
    /\ IF i_count = 0 THEN /\ reply' = NotFound
                           /\ pc' = "idle"
                           /\ UNCHANGED cap
                      ELSE /\ cap' = i_count
                           /\ pc' = "reopen"
                           /\ UNCHANGED reply
    /\ may' = {}
    /\ UNCHANGED <<home, option, i_count, list, must, history>>

\* Mutant: the counter goes on.
Goes(n) == n
\* "reset counter"
Reset(n) == 0

Reopen ==
    /\ pc = "reopen"
    /\ pc' = "filling"
    /\ must' = there
    /\ may' = {}
    /\ i_count' = Reset(i_count)
    /\ UNCHANGED <<home, option, cap, list, reply, history>>

\* opendir fails: closedir(NULL) may end the process.  If it does not, the answer is that
\* there is no directory, or after the first pass an empty list.
OpenFails ==
    /\ "opendir" \in Faults
    /\ pc \in {"counting", "reopen"}
    /\ pc = "counting" => i_count = 0 /\ must = there /\ may = {}
    /\ failed' = TRUE
    /\ i_count' = 0
    /\ \/ pc' = "dead" /\ UNCHANGED reply
       \/ /\ pc' = "idle"
          /\ reply' = IF pc = "counting" THEN NotFound ELSE [tag |-> "TXT", dirs |-> <<>>]
    /\ UNCHANGED <<home, option, cap, list, stream, steady, ever, made, quiet>>

\* stat of a name, not a path: what the array held, unless the home directory is the
\* working directory and the name is still there.
Stamps(d) == IF at_home /\ d \in there THEN {mtime[d].nsec} ELSE Nsecs

\* Mutant: the second pass stops where the array ends.
TakesFitting(d) == i_count < cap
\* Whatever readdir returns is appended.
Takes(d) == TRUE

\* Behind the array: the heap is overwritten, of which the process may die.
Fill == \E d \in Names :
    /\ pc = "filling"
    /\ Returned(d)
    /\ IF Takes(d)
       THEN /\ \E n \in Stamps(d) : list' = Append(list, [f_name |-> d, nsec |-> n])
            /\ i_count' = i_count + 1
            /\ pc' \in IF i_count >= cap THEN {"filling", "dead"} ELSE {"filling"}
       ELSE UNCHANGED <<list, i_count, pc>>
    /\ UNCHANGED <<home, option, cap, reply, history>>

\* Mutant: the comparison is the other way round.
d_compare_nameDown(x, y) == y.f_name - x.f_name

d_compare_name(x, y) == x.f_name - y.f_name
d_compare_modified(x, y) == x.nsec - y.nsec

\* The comparator handed to list_dir_sort.
sort_compare(x, y) ==
    IF option = "-a" THEN d_compare_name(x, y) ELSE d_compare_modified(x, y)

\* qsort is not stable: entries that compare equal come in any order.
Sort ==
    \E order \in Bijection(1 .. Len(list), 1 .. Len(list)) :
        /\ \A i, j \in 1 .. Len(list) :
               i < j => sort_compare(list[order[i]], list[order[j]]) <= 0
        /\ list' = [i \in 1 .. Len(list) |-> list[order[i]]]

Filled ==
    /\ pc = "filling"
    /\ must = {}
    /\ Sort
    /\ pc' = "answer"
    /\ may' = {}
    /\ UNCHANGED <<home, option, i_count, cap, must, reply, history>>

Overrun == i_count > cap

\* The lines are sent and free_dentry frees the list.
Answer ==
    /\ pc = "answer"
    /\ reply' = [tag |-> "TXT", dirs |-> [i \in 1 .. Len(list) |-> list[i].f_name]]
    /\ list' = <<>>
    /\ pc' \in IF Overrun THEN {"idle", "dead"} ELSE {"idle"}
    /\ UNCHANGED <<home, option, i_count, cap, stream, history>>

\* The zero behind the new line is written behind the copy of the name: if the copy fills
\* its block the process may die of it, as it may of what Fill has overwritten.
AnswerDies ==
    /\ pc = "answer"
    /\ Overrun \/ \E i \in 1 .. Len(list) : list[i].f_name \in Tight
    /\ pc' = "dead"
    /\ UNCHANGED <<home, option, i_count, cap, list, stream, reply, history>>

Step == Count \/ Counted \/ Reopen \/ OpenFails \/ Fill \/ Filled \/ Answer \/ AnswerDies

Next == (\E o \in {"-a", "-t"} : Request(o)) \/ Step \/ Make \/ Remove \/ Touch

\* The child is scheduled; nobody need ask, or change anything.
Spec == Init /\ [][Next]_vars /\ WF_vars(Step)
-----------------------------------------------------------------------------
(***************************************************************************)
(* Properties.                                                             *)
(***************************************************************************)
\* The variables have their types.
TypeOK ==
    /\ there \subseteq Names
    /\ mtime \in [there -> Times]
    /\ at_home \in BOOLEAN
    /\ changes \in 0 .. MaxChanges
    /\ pc \in {"idle", "counting", "reopen", "filling", "answer", "dead"}
    /\ option \in {"-a", "-t"}
    /\ i_count \in Nat
    /\ cap \in Nat
    /\ list \in Seq([f_name : Names, nsec : Nsecs])
    /\ pc \in {"filling", "answer"} => i_count = Len(list)
    /\ must \subseteq there
    /\ may \subseteq Names
    /\ reply \in [tag : {"none", "TXT", "404"}, dirs : Seq(Names)]
    /\ steady \subseteq there
    /\ ever \subseteq Names
    /\ made \in Nat
    /\ quiet \in BOOLEAN
    /\ failed \in BOOLEAN

Sent(d) == {i \in DOMAIN reply.dirs : reply.dirs[i] = d}
Replied == reply.tag # "none"

\* Whatever changes between and during the two passes, a directory that was there all the
\* time is sent once, and none that never was: "404" says that none was there all the time.
SteadyListed == Replied /\ ~failed =>
    /\ \A d \in steady : Cardinality(Sent(d)) = 1
    /\ \A d \in Names \ ever : Sent(d) = {}

\* The second pass fills more entries than the first has counted only when directories
\* were made in between, and at most as many as were made.
OverrunByNew == pc \in {"filling", "answer"} => i_count <= cap + made

Before(s, t) == s.sec < t.sec \/ (s.sec = t.sec /\ s.nsec < t.nsec)
InTheirOrder == \A i, j \in DOMAIN reply.dirs :
    i < j => ~Before(mtime[reply.dirs[j]], mtime[reply.dirs[i]])

\* A list by name is sorted whatever changes; a list by time is one from the oldest to the
\* latest if nothing changes, all times are in one second, and the server runs at home.
Ordered == Replied =>
    /\ option = "-a" => \A i, j \in DOMAIN reply.dirs :
           i < j => reply.dirs[i] <= reply.dirs[j]
    /\ option = "-t" /\ quiet /\ at_home
          /\ (\A c, d \in there : mtime[c].sec = mtime[d].sec) => InTheirOrder

\* A request is answered, or the process has died: while others make directories faster
\* than they are read, after the last of them.
Answered == (pc = "counting") ~> (pc = "dead" \/ (pc = "idle" /\ Replied))

\* README.md:41 says of dirlist -t that it lists directories "in the order in which they
\* were created (with the oldest created directory listed first)": also where stat finds them.
OldestFirst == Replied /\ option = "-t" /\ quiet /\ at_home => InTheirOrder

=============================================================================
