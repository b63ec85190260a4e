--------------------------- MODULE ListingProofs ---------------------------
(***************************************************************************)
(* Theorems about Listing, for every set of names and times and any number *)
(* of changes: what a dirlist finds in a directory that changes while it   *)
(* is read twice.                                                          *)
(***************************************************************************)
EXTENDS Listing, FiniteSetTheorems, SequenceTheorems, TLAPS

Entry == [f_name : Names, nsec : Nsecs]

\* A request is being served.
Busy == pc \in {"counting", "reopen", "filling", "answer"}

\* There is no answer yet, no entry before the second pass, and without a change the stream
\* has nothing but what is there.
Serving == Busy =>
    /\ reply = NoReply /\ ~failed
    /\ quiet => may = {}
    /\ pc \in {"counting", "reopen"} => list = <<>>

(***************************************************************************)
(* The array is overrun by new directories only: those there that the      *)
(* first pass will not count, and those the second may still return, are   *)
(* new.                                                                    *)
(***************************************************************************)
Room ==
    /\ pc = "counting" => Cardinality(there \ must) <= i_count + made
    /\ pc = "reopen" => Cardinality(there) <= cap + made
    /\ pc = "filling" => i_count + Cardinality(must) + Cardinality(may) <= cap + made
    /\ pc = "answer" => i_count <= cap + made

(***************************************************************************)
(* What stays is listed once, and nothing that never was.                  *)
(***************************************************************************)
\* d is the name of one entry, or the text of one line, and of no other.
OneEntry(d) == \E i \in 1 .. Len(list) :
    list[i].f_name = d /\ \A j \in 1 .. Len(list) : list[j].f_name = d => j = i

OneLine(d) == \E i \in 1 .. Len(reply.dirs) :
    reply.dirs[i] = d /\ \A j \in 1 .. Len(reply.dirs) : reply.dirs[j] = d => j = i

Steady ==
    /\ pc = "counting" /\ i_count = 0 => steady \subseteq must
    /\ pc = "filling" => \A d \in steady :
          \/ d \in must /\ d \notin may /\ \A i \in 1 .. Len(list) : list[i].f_name # d
          \/ d \notin must /\ d \notin may /\ OneEntry(d)
    /\ pc = "answer" => \A d \in steady : OneEntry(d)
    /\ Replied /\ ~failed => \A d \in steady : OneLine(d)

Ever ==
    /\ Busy => there \subseteq ever /\ may \subseteq ever
    /\ pc \in {"filling", "answer"} => \A i \in 1 .. Len(list) : list[i].f_name \in ever
    /\ \A i \in 1 .. Len(reply.dirs) : reply.dirs[i] \in ever

(***************************************************************************)
(* The order of the entries, and of the lines.                             *)
(***************************************************************************)
\* The times of the entries are those of the directories.
Stamped == quiet /\ at_home /\ pc \in {"filling", "answer"} =>
    \A i \in 1 .. Len(list) :
        list[i].f_name \in there /\ list[i].nsec = mtime[list[i].f_name].nsec

Sorted ==
    /\ pc = "answer" => \A i, j \in 1 .. Len(list) : i < j => sort_compare(list[i], list[j]) <= 0
    /\ option = "-a" => \A i, j \in 1 .. Len(reply.dirs) :
           i < j => reply.dirs[i] <= reply.dirs[j]
    /\ option = "-t" /\ quiet /\ at_home => \A i, j \in 1 .. Len(reply.dirs) : i < j =>
           /\ reply.dirs[i] \in there /\ reply.dirs[j] \in there
           /\ mtime[reply.dirs[i]].nsec <= mtime[reply.dirs[j]].nsec

Inv == TypeOK /\ Serving /\ Room /\ Steady /\ Ever /\ Stamped /\ Sorted

-----------------------------------------------------------------------------
(***************************************************************************)
(* Sets of names and their sizes.                                          *)
(***************************************************************************)
LEMMA SetsOfNames ==
    ASSUME NEW A \in SUBSET Names
    PROVE  IsFiniteSet(A) /\ Cardinality(A) \in Nat
<1>1. IsFiniteSet(Names)
  BY ListingAssumption
<1>2. IsFiniteSet(A)
  BY <1>1, FS_Subset
<1> QED
  BY <1>2, FS_CardinalityType

\* A set that adds at most d to another has at most one element more.
LEMMA OneMore ==
    ASSUME NEW A \in SUBSET Names, NEW B \in SUBSET Names, NEW d, B \subseteq A \cup {d}
    PROVE  Cardinality(B) <= Cardinality(A) + 1
<1>1. IsFiniteSet(A) /\ Cardinality(A) \in Nat /\ Cardinality(B) \in Nat
  BY SetsOfNames
<1>2. /\ IsFiniteSet(A \cup {d})
      /\ Cardinality(A \cup {d}) = IF d \in A THEN Cardinality(A) ELSE Cardinality(A) + 1
  BY <1>1, FS_AddElement
<1>3. Cardinality(B) <= Cardinality(A \cup {d}) /\ Cardinality(A \cup {d}) \in Nat
  BY <1>2, FS_Subset, FS_CardinalityType
<1> QED
  BY <1>1, <1>2, <1>3

LEMMA NoMore ==
    ASSUME NEW A \in SUBSET Names, NEW B \in SUBSET A
    PROVE  Cardinality(B) <= Cardinality(A)
  BY SetsOfNames, FS_Subset

LEMMA OneLess ==
    ASSUME NEW A \in SUBSET Names, NEW d \in A
    PROVE  Cardinality(A \ {d}) = Cardinality(A) - 1
  BY SetsOfNames, FS_RemoveElement

LEMMA NoneLeft == Cardinality({}) = 0
  BY FS_EmptySet

LEMMA NsecsAreNat == Nsecs \subseteq Nat
  BY ListingAssumption DEF Nsecs

-----------------------------------------------------------------------------
(***************************************************************************)
(* Others.                                                                 *)
(***************************************************************************)
\* While others can change something there is no answer yet.
LEMMA ChangeIs ==
    ASSUME Inv, Change
    PROVE  /\ Busy /\ Busy' /\ pc' = pc /\ ~Replied /\ reply' = reply /\ quiet' = FALSE
           /\ changes' \in 0 .. MaxChanges
           /\ UNCHANGED <<at_home, option, i_count, cap, list, failed>>
<1>1. Busy
  BY DEF Change, Inv, TypeOK, Busy
<1>2. changes' \in 0 .. MaxChanges
  BY ListingAssumption DEF Change, Inv, TypeOK
<1> QED
  BY <1>1, <1>2 DEF Change, Inv, Serving, Busy, Replied, NoReply

\* What does not depend on the directories.
LEMMA ChangeKeeps ==
    ASSUME Inv, Change, ever \subseteq ever'
    PROVE  /\ Stamped' /\ Sorted'
           /\ pc \in {"filling", "answer"} => \A i \in 1 .. Len(list) : list[i].f_name \in ever'
           /\ \A i \in 1 .. Len(reply.dirs) : reply.dirs[i] \in ever'
<1>1. quiet' = FALSE /\ UNCHANGED <<pc, list, reply, option, at_home>>
  BY DEF Change
<1>2. Stamped'
  BY <1>1 DEF Stamped
<1>3. Sorted'
  BY <1>1 DEF Inv, Sorted, sort_compare, d_compare_name, d_compare_modified
<1> QED
  BY <1>2, <1>3 DEF Inv, Ever

LEMMA MakeKeeps ==
    ASSUME Inv, Make
    PROVE  Inv'
<1>1. Change
  BY DEF Make
<1>2. PICK d \in Names \ there :
        /\ \E t \in Times : mtime' = [c \in there \cup {d} |-> IF c = d THEN t ELSE mtime[c]]
        /\ may' = IF Reading THEN may \cup {d} ELSE may
        /\ ever' = ever \cup {d}
        /\ made' = made + 1
        /\ UNCHANGED <<must, steady>>
  BY DEF Make
<1>3. there' = there \cup {d} /\ mtime' \in [there' -> Times]
  BY <1>2 DEF Inv, TypeOK, there
<1>4. /\ Busy /\ Busy' /\ pc' = pc /\ ~Replied /\ reply' = reply /\ quiet' = FALSE
      /\ changes' \in 0 .. MaxChanges
      /\ UNCHANGED <<at_home, option, i_count, cap, list, failed>>
  BY <1>1, ChangeIs
<1>5. TypeOK'
  <2>1. there' \subseteq Names /\ must' \subseteq there' /\ steady' \subseteq there'
    BY <1>2, <1>3 DEF Inv, TypeOK
  <2>2. may' \subseteq Names /\ ever' \subseteq Names /\ made' \in Nat
    BY <1>2 DEF Inv, TypeOK
  <2> QED
    BY <1>3, <1>4, <2>1, <2>2 DEF Inv, TypeOK
<1>6. Serving'
  BY <1>4 DEF Inv, Serving
<1>7. Room'
  <2>1. must \subseteq Names /\ may \subseteq Names /\ there \subseteq Names
        /\ may' \subseteq Names /\ there' \subseteq Names
    BY <1>5 DEF Inv, TypeOK
  <2>2. Cardinality((there \ must)') <= Cardinality(there \ must) + 1
    BY <1>2, <1>3, <2>1, OneMore
  <2>3. Cardinality(there') <= Cardinality(there) + 1
    BY <1>3, <2>1, OneMore
  <2>4. Cardinality(may') <= Cardinality(may) + 1
    BY <1>2, <2>1, OneMore
  <2>5. /\ Cardinality(there \ must) \in Nat /\ Cardinality((there \ must)') \in Nat
        /\ Cardinality(there) \in Nat /\ Cardinality(there') \in Nat
        /\ Cardinality(may) \in Nat /\ Cardinality(may') \in Nat /\ Cardinality(must) \in Nat
    BY <2>1, SetsOfNames
  <2>6. i_count \in Nat /\ cap \in Nat /\ made \in Nat
    BY DEF Inv, TypeOK
  <2> QED
    BY <1>2, <1>4, <2>2, <2>3, <2>4, <2>5, <2>6 DEF Inv, Room
<1>8. Steady'
  <2>1. d \notin steady
    BY DEF Inv, TypeOK
  <2>2. \A c : (OneEntry(c)' <=> OneEntry(c))
    BY <1>4 DEF OneEntry
  <2>3. ~Replied'
    BY <1>4 DEF Replied
  <2> QED
    BY <1>2, <1>4, <2>1, <2>2, <2>3 DEF Inv, Steady
<1>9. Ever' /\ Stamped' /\ Sorted'
  BY <1>1, <1>2, <1>3, <1>4, ChangeKeeps DEF Inv, Ever
<1> QED
  BY <1>5, <1>6, <1>7, <1>8, <1>9 DEF Inv

LEMMA RemoveKeeps ==
    ASSUME Inv, Remove
    PROVE  Inv'
<1>1. Change
  BY DEF Remove
<1>2. PICK d \in there :
        /\ mtime' = Restrict(mtime, there \ {d})
        /\ must' = must \ {d}
        /\ may' = IF d \in must THEN may \cup {d} ELSE may
        /\ steady' = steady \ {d}
        /\ UNCHANGED <<ever, made>>
  BY DEF Remove
<1>3. there' = there \ {d} /\ mtime' \in [there' -> Times]
  BY <1>2 DEF Inv, TypeOK, there, Restrict
<1>4. /\ Busy /\ Busy' /\ pc' = pc /\ ~Replied /\ reply' = reply /\ quiet' = FALSE
      /\ changes' \in 0 .. MaxChanges
      /\ UNCHANGED <<at_home, option, i_count, cap, list, failed>>
  BY <1>1, ChangeIs
<1>5. TypeOK'
  BY <1>2, <1>3, <1>4 DEF Inv, TypeOK
<1>6. Serving'
  BY <1>4 DEF Inv, Serving
<1>7. Room'
  <2>1. must \subseteq Names /\ may \subseteq Names /\ there \subseteq Names /\ may' \subseteq Names
    BY <1>5 DEF Inv, TypeOK
  <2>2. (there \ must)' \subseteq there \ must /\ there' \subseteq there
    BY <1>2, <1>3
  <2>3. /\ Cardinality((there \ must)') <= Cardinality(there \ must)
        /\ Cardinality(there') <= Cardinality(there)
    BY <2>1, <2>2, NoMore
  <2>4. Cardinality(must') + Cardinality(may') <= Cardinality(must) + Cardinality(may)
    <3>1. CASE d \in must
      <4>1. Cardinality(must') = Cardinality(must) - 1
        BY <1>2, <2>1, <3>1, OneLess
      <4>2. Cardinality(may') <= Cardinality(may) + 1
        BY <1>2, <2>1, OneMore
      <4>3. /\ Cardinality(must) \in Nat /\ Cardinality(may) \in Nat /\ Cardinality(may') \in Nat
            /\ Cardinality(must') \in Nat
        BY <1>2, <2>1, SetsOfNames
      <4> QED
        BY <4>1, <4>2, <4>3
    <3>2. CASE d \notin must
      <4>1. must' = must /\ may' = may
        BY <1>2, <3>2
      <4>2. Cardinality(must) \in Nat /\ Cardinality(may) \in Nat
        BY <2>1, SetsOfNames
      <4> QED
        BY <4>1, <4>2
    <3> QED
      BY <3>1, <3>2
  <2>5. /\ Cardinality(there \ must) \in Nat /\ Cardinality((there \ must)') \in Nat
        /\ Cardinality(there) \in Nat /\ Cardinality(there') \in Nat
        /\ Cardinality(may) \in Nat /\ Cardinality(may') \in Nat
        /\ Cardinality(must) \in Nat /\ Cardinality(must') \in Nat
    BY <1>2, <2>1, <2>2, SetsOfNames
  <2>6. i_count \in Nat /\ cap \in Nat /\ made \in Nat
    BY DEF Inv, TypeOK
  <2> QED
    BY <1>2, <1>4, <2>3, <2>4, <2>5, <2>6 DEF Inv, Room
<1>8. Steady'
  BY <1>2, <1>4 DEF Inv, Steady, OneEntry, OneLine, Replied
<1>9. Ever' /\ Stamped' /\ Sorted'
  <2>1. must \subseteq there
    BY DEF Inv, TypeOK
  <2> QED
    BY <1>1, <1>2, <1>3, <1>4, <2>1, ChangeKeeps DEF Inv, Ever
<1> QED
  BY <1>5, <1>6, <1>7, <1>8, <1>9 DEF Inv

LEMMA TouchKeeps ==
    ASSUME Inv, Touch
    PROVE  Inv'
<1>1. Change
  BY DEF Touch
<1>2. PICK d \in there, t \in Times :
        mtime' = [mtime EXCEPT ![d] = t] /\ UNCHANGED <<stream, steady, ever, made>>
  BY DEF Touch
<1>3. there' = there /\ mtime' \in [there' -> Times]
  BY <1>2 DEF Inv, TypeOK, there
<1>4. /\ Busy /\ Busy' /\ pc' = pc /\ ~Replied /\ reply' = reply /\ quiet' = FALSE
      /\ changes' \in 0 .. MaxChanges
      /\ UNCHANGED <<at_home, option, i_count, cap, list, failed>>
  BY <1>1, ChangeIs
<1>5. TypeOK'
  BY <1>2, <1>3, <1>4 DEF Inv, TypeOK, stream
<1>6. Serving'
  BY <1>4 DEF Inv, Serving
<1>7. Room'
  BY <1>2, <1>3, <1>4 DEF Inv, Room, stream
<1>8. Steady'
  BY <1>2, <1>4 DEF Inv, Steady, OneEntry, OneLine, Replied, stream
<1>9. Ever' /\ Stamped' /\ Sorted'
  BY <1>1, <1>2, <1>3, <1>4, ChangeKeeps DEF Inv, Ever, stream
<1> QED
  BY <1>5, <1>6, <1>7, <1>8, <1>9 DEF Inv

-----------------------------------------------------------------------------
(***************************************************************************)
(* The child.                                                              *)
(***************************************************************************)
\* Sort puts every entry at one place, in the order of the comparator.
LEMMA SortIs ==
    ASSUME list \in Seq(Entry), Sort
    PROVE  \E order \in [1 .. Len(list) -> 1 .. Len(list)] :
              /\ \A i, j \in 1 .. Len(list) : order[i] = order[j] => i = j
              /\ \A i \in 1 .. Len(list) : \E j \in 1 .. Len(list) : order[j] = i
              /\ \A i, j \in 1 .. Len(list) :
                     i < j => sort_compare(list[order[i]], list[order[j]]) <= 0
              /\ list' \in Seq(Entry) /\ Len(list') = Len(list)
              /\ \A i \in 1 .. Len(list) : list'[i] = list[order[i]]
<1>1. PICK order \in Bijection(1 .. Len(list), 1 .. Len(list)) :
        /\ \A i, j \in 1 .. Len(list) :
               i < j => sort_compare(list[order[i]], list[order[j]]) <= 0
        /\ list' = [i \in 1 .. Len(list) |-> list[order[i]]]
  BY DEF Sort
<1>2. /\ order \in [1 .. Len(list) -> 1 .. Len(list)]
      /\ \A i, j \in 1 .. Len(list) : order[i] = order[j] => i = j
      /\ \A i \in 1 .. Len(list) : \E j \in 1 .. Len(list) : order[j] = i
  BY <1>1 DEF Bijection, Injection, Surjection, IsInjective
<1>3. Len(list) \in Nat /\ \A i \in 1 .. Len(list) : list[order[i]] \in Entry
  BY <1>2, LenProperties, ElementOfSeq
<1>4. list' \in Seq(Entry) /\ Len(list') = Len(list)
  BY <1>1, <1>3
<1>5. \A i \in 1 .. Len(list) : list'[i] = list[order[i]]
  BY <1>1
<1> QED
  BY <1>1, <1>2, <1>4, <1>5

Reply == [tag : {"none", "TXT", "404"}, dirs : Seq(Names)]

LEMMA EmptyOnes ==
    /\ <<>> \in Seq(Entry) /\ Len(<<>>) = 0
    /\ NoReply \in Reply /\ NotFound \in Reply /\ [tag |-> "TXT", dirs |-> <<>>] \in Reply
<1>1. <<>> \in Seq(Names)
  OBVIOUS
<1> QED
  BY <1>1 DEF NoReply, NotFound, Reply

LEMMA InvInit ==
    ASSUME Init
    PROVE  Inv
<1>1. PICK dirs \in SUBSET Names : mtime \in [dirs -> Times]
  BY DEF Init
<1>2. there = dirs
  BY <1>1 DEF there
<1>3. TypeOK
  <2>1. changes \in 0 .. MaxChanges
    BY ListingAssumption DEF Init
  <2>2. list \in Seq(Entry) /\ reply \in Reply
    BY EmptyOnes DEF Init
  <2> QED
    BY <1>1, <1>2, <2>1, <2>2 DEF Init, TypeOK, Entry, Reply
<1>4. Serving /\ Room /\ Steady /\ Ever /\ Stamped /\ Sorted
  BY DEF Init, Serving, Busy, Room, Steady, Replied, Ever, Stamped, Sorted, NoReply
<1> QED
  BY <1>3, <1>4 DEF Inv

LEMMA RequestKeeps ==
    ASSUME Inv, NEW o \in {"-a", "-t"}, Request(o)
    PROVE  Inv'
<1>1. there' = there /\ mtime' = mtime /\ changes' = changes /\ at_home' = at_home
  BY DEF Request, home, there
<1>2. TypeOK'
  BY <1>1, EmptyOnes DEF Inv, TypeOK, Request, Entry, Reply
<1>3. Serving' /\ Steady' /\ Ever' /\ Stamped' /\ Sorted'
  BY <1>1 DEF Request, Serving, Steady, Replied, Ever, Stamped, Sorted, NoReply
<1>4. Room'
  <2>1. (there \ must)' = {} /\ pc' = "counting" /\ i_count' = 0 /\ made' = 0
    BY <1>1 DEF Request
  <2> QED
    BY <2>1, NoneLeft DEF Room
<1> QED
  BY <1>2, <1>3, <1>4 DEF Inv

LEMMA CountKeeps ==
    ASSUME Inv, Count
    PROVE  Inv'
<1>1. PICK d \in Names :
        /\ pc = "counting"
        /\ Returned(d)
        /\ i_count' = i_count + 1
        /\ UNCHANGED <<home, pc, option, cap, list, reply, history>>
  BY DEF Count
<1>2. there' = there /\ mtime' = mtime /\ changes' = changes /\ at_home' = at_home
      /\ must' = must \ {d} /\ may' = may \ {d}
  BY <1>1 DEF home, there, Returned
<1>3. TypeOK'
  BY <1>1, <1>2 DEF Inv, TypeOK, history
<1>4. Serving' /\ Stamped' /\ Sorted'
  BY <1>1, <1>2 DEF Inv, Serving, Busy, Stamped, Sorted, history
<1>5. Steady' /\ Ever'
  <2>1. i_count' # 0
    BY <1>1 DEF Inv, TypeOK
  <2> QED
    BY <1>1, <1>2, <2>1 DEF Inv, Serving, Busy, NoReply, Steady, Ever, Replied, history
<1>6. Room'
  <2>1. there \subseteq Names /\ i_count \in Nat /\ made \in Nat
    BY DEF Inv, TypeOK
  <2>2. Cardinality((there \ must)') <= Cardinality(there \ must) + 1
    BY <1>2, <2>1, OneMore
  <2>3. Cardinality((there \ must)') \in Nat /\ Cardinality(there \ must) \in Nat
    BY <1>2, <2>1, SetsOfNames
  <2>4. Cardinality(there \ must) <= i_count + made
    BY <1>1 DEF Inv, Room
  <2> QED
    BY <1>1, <2>1, <2>2, <2>3, <2>4 DEF Room, history
<1> QED
  BY <1>3, <1>4, <1>5, <1>6 DEF Inv

LEMMA CountedKeeps ==
    ASSUME Inv, Counted
    PROVE  Inv'
<1>1. there' = there /\ mtime' = mtime /\ changes' = changes /\ at_home' = at_home
      /\ UNCHANGED <<option, i_count, list, must, steady, ever, made, quiet, failed>>
  BY DEF Counted, home, there, history
<1>2. pc = "counting" /\ must = {} /\ may' = {} /\ list = <<>> /\ reply = NoReply
  BY DEF Inv, Counted, Serving, Busy
<1>3. \/ i_count = 0 /\ reply' = NotFound /\ pc' = "idle" /\ cap' = cap
      \/ i_count # 0 /\ reply' = reply /\ pc' = "reopen" /\ cap' = i_count
  BY DEF Counted
<1>4. TypeOK'
  BY <1>1, <1>2, <1>3, EmptyOnes DEF Inv, TypeOK, Reply
<1>5. Serving' /\ Ever' /\ Stamped' /\ Sorted'
  BY <1>1, <1>2, <1>3 DEF Inv, Serving, Busy, Ever, Stamped, Sorted, NotFound, NoReply
<1>6. Steady'
  BY <1>1, <1>2, <1>3 DEF Inv, Steady, Replied, NotFound, NoReply
<1>7. Room'
  <2>1. there \ must = there
    BY <1>2
  <2>2. Cardinality(there) <= i_count + made
    BY <1>2, <2>1 DEF Inv, Room
  <2> QED
    BY <1>1, <1>3, <2>2 DEF Room
<1> QED
  BY <1>4, <1>5, <1>6, <1>7 DEF Inv

LEMMA ReopenKeeps ==
    ASSUME Inv, Reopen
    PROVE  Inv'
<1>1. there' = there /\ mtime' = mtime /\ changes' = changes /\ at_home' = at_home
      /\ UNCHANGED <<option, cap, list, reply, steady, ever, made, quiet, failed>>
  BY DEF Reopen, home, there, history
<1>2. pc = "reopen" /\ pc' = "filling" /\ must' = there /\ may' = {} /\ i_count' = 0
      /\ list = <<>> /\ reply = NoReply
  BY DEF Inv, Reopen, Serving, Busy, Reset
<1>3. TypeOK'
  BY <1>1, <1>2 DEF Inv, TypeOK
<1>4. Serving' /\ Ever' /\ Stamped' /\ Sorted'
  BY <1>1, <1>2 DEF Inv, Serving, Busy, Ever, Stamped, Sorted, NoReply
<1>5. Steady'
  BY <1>1, <1>2 DEF Inv, TypeOK, Steady, Replied, NoReply
<1>6. Room'
  <2>1. Cardinality(there) <= cap + made /\ Cardinality(there) \in Nat
    BY <1>2, SetsOfNames DEF Inv, Room, TypeOK
  <2>2. Cardinality(must') = Cardinality(there) /\ Cardinality(may') = 0
    BY <1>2, NoneLeft
  <2> QED
    BY <1>1, <1>2, <2>1, <2>2 DEF Room
<1> QED
  BY <1>3, <1>4, <1>5, <1>6 DEF Inv

LEMMA OpenFailsKeeps ==
    ASSUME Inv, OpenFails
    PROVE  Inv'
<1>1. there' = there /\ mtime' = mtime /\ changes' = changes /\ at_home' = at_home
      /\ UNCHANGED <<option, cap, list, must, may, steady, ever, made, quiet>>
  BY DEF OpenFails, home, there, stream
<1>2. pc' \in {"idle", "dead"} /\ i_count' = 0 /\ failed' = TRUE /\ reply'.dirs = <<>>
  BY DEF Inv, OpenFails, Serving, Busy, NotFound, NoReply
<1>3. reply' \in [tag : {"none", "TXT", "404"}, dirs : Seq(Names)]
  BY EmptyOnes DEF Inv, OpenFails, TypeOK, Reply
<1>4. TypeOK'
  BY <1>1, <1>2, <1>3 DEF Inv, TypeOK
<1>5. Serving' /\ Room' /\ Steady' /\ Ever' /\ Stamped' /\ Sorted'
  BY <1>1, <1>2 DEF Serving, Busy, Room, Steady, Ever, Stamped, Sorted
<1> QED
  BY <1>4, <1>5 DEF Inv

\* An entry behind the others.
LEMMA FillKeeps ==
    ASSUME Inv, Fill
    PROVE  Inv'
<1>1. PICK d \in Names :
        /\ pc = "filling"
        /\ Returned(d)
        /\ \E n \in Stamps(d) : list' = Append(list, [f_name |-> d, nsec |-> n])
        /\ i_count' = i_count + 1
        /\ pc' \in IF i_count >= cap THEN {"filling", "dead"} ELSE {"filling"}
        /\ UNCHANGED <<home, option, cap, reply, history>>
  BY DEF Fill, Takes
<1>2. PICK n \in Stamps(d) : list' = Append(list, [f_name |-> d, nsec |-> n])
  BY <1>1
<1>3. /\ there' = there /\ mtime' = mtime /\ changes' = changes /\ at_home' = at_home
      /\ d \in must \cup may /\ must' = must \ {d} /\ may' = may \ {d}
      /\ UNCHANGED <<steady, ever, made, quiet, failed>>
      /\ pc' \in {"filling", "dead"}
  BY <1>1 DEF home, there, Returned, history
<1>4. n \in Nsecs
  BY DEF Stamps, Inv, TypeOK, Nsecs
<1>5. list \in Seq(Entry) /\ [f_name |-> d, nsec |-> n] \in Entry /\ Len(list) \in Nat
  BY <1>4, LenProperties DEF Inv, TypeOK, Entry
<1>6. /\ list' \in Seq(Entry) /\ Len(list') = Len(list) + 1
      /\ \A i \in 1 .. Len(list) : list'[i] = list[i]
      /\ list'[Len(list) + 1] = [f_name |-> d, nsec |-> n]
  BY <1>2, <1>5, AppendProperties
<1>7. TypeOK'
  <2>1. i_count' \in Nat /\ i_count' = Len(list')
    BY <1>1, <1>6 DEF Inv, TypeOK
  <2> QED
    BY <1>1, <1>3, <1>6, <2>1 DEF Inv, TypeOK, Entry
<1>8. reply = NoReply /\ reply' = reply
  BY <1>1 DEF Inv, Serving, Busy
<1>9. Serving' /\ Sorted'
  BY <1>1, <1>3, <1>8 DEF Inv, Serving, Busy, Sorted, NoReply
<1>10. Room'
  <2>1. must \subseteq Names /\ may \subseteq Names
    BY DEF Inv, TypeOK
  <2>2. Cardinality(must') <= Cardinality(must) /\ Cardinality(may') <= Cardinality(may)
    BY <1>3, <2>1, NoMore
  <2>3. \/ Cardinality(must') = Cardinality(must) - 1
        \/ Cardinality(may') = Cardinality(may) - 1
    BY <1>3, <2>1, OneLess
  <2>4. /\ Cardinality(must) \in Nat /\ Cardinality(may) \in Nat
        /\ Cardinality(must') \in Nat /\ Cardinality(may') \in Nat
    BY <1>3, <2>1, SetsOfNames
  <2>5. i_count \in Nat /\ cap \in Nat /\ made \in Nat
    BY DEF Inv, TypeOK
  <2>6. i_count + Cardinality(must) + Cardinality(may) <= cap + made
    BY <1>1 DEF Inv, Room
  <2>7. (i_count + 1) + Cardinality(must') + Cardinality(may') <= cap + made
    BY <2>2, <2>3, <2>4, <2>5, <2>6
  <2> QED
    BY <1>1, <1>3, <2>7 DEF Room
<1>11. Steady'
  <2>1. \A c \in steady :
          \/ c \in must' /\ c \notin may' /\ \A i \in 1 .. Len(list') : list'[i].f_name # c
          \/ c \notin must' /\ c \notin may' /\ OneEntry(c)'
    <3> SUFFICES ASSUME NEW c \in steady
                 PROVE  \/ /\ c \in must' /\ c \notin may'
                           /\ \A i \in 1 .. Len(list') : list'[i].f_name # c
                        \/ c \notin must' /\ c \notin may' /\ OneEntry(c)'
      OBVIOUS
    <3>1. \/ c \in must /\ c \notin may /\ \A i \in 1 .. Len(list) : list[i].f_name # c
          \/ c \notin must /\ c \notin may /\ OneEntry(c)
      BY <1>1 DEF Inv, Steady
    <3>2. \A i \in 1 .. Len(list') : i \in 1 .. Len(list) \/ i = Len(list) + 1
      BY <1>5, <1>6
    <3>3. CASE c = d
      <4>1. c \in must /\ c \notin may /\ \A i \in 1 .. Len(list) : list[i].f_name # c
        BY <1>3, <3>1, <3>3
      <4>2. list'[Len(list) + 1].f_name = c
        BY <1>6, <3>3
      <4>3. OneEntry(c)'
        BY <1>5, <1>6, <3>2, <4>1, <4>2 DEF OneEntry
      <4> QED
        BY <1>3, <3>3, <4>1, <4>3
    <3>4. CASE c # d
      <4>1. list'[Len(list) + 1].f_name # c
        BY <1>6, <3>4
      <4>2. OneEntry(c) => OneEntry(c)'
        <5> SUFFICES ASSUME OneEntry(c)
                     PROVE  OneEntry(c)'
          OBVIOUS
        <5>1. PICK i \in 1 .. Len(list) :
                list[i].f_name = c /\ \A j \in 1 .. Len(list) : list[j].f_name = c => j = i
          BY DEF OneEntry
        <5>2. i \in 1 .. Len(list') /\ list'[i].f_name = c
          BY <1>5, <1>6, <5>1
        <5>3. \A j \in 1 .. Len(list') : list'[j].f_name = c => j = i
          BY <1>6, <3>2, <4>1, <5>1
        <5> QED
          BY <5>2, <5>3 DEF OneEntry
      <4> QED
        BY <1>3, <1>6, <3>1, <3>2, <3>4, <4>1, <4>2
    <3> QED
      BY <3>3, <3>4
  <2> QED
    BY <1>3, <1>8, <2>1 DEF Steady, Replied, NoReply
<1>12. Ever'
  <2>1. d \in ever
    BY <1>1, <1>3 DEF Inv, Ever, Busy, TypeOK
  <2>2. \A i \in 1 .. Len(list') : list'[i].f_name \in ever
    BY <1>1, <1>5, <1>6, <2>1 DEF Inv, Ever
  <2> QED
    BY <1>1, <1>3, <1>8, <2>2 DEF Inv, Ever, Busy
<1>13. Stamped'
  <2> SUFFICES ASSUME quiet, at_home, NEW i \in 1 .. Len(list')
               PROVE  list'[i].f_name \in there /\ list'[i].nsec = mtime[list'[i].f_name].nsec
    BY <1>3 DEF Stamped
  <2>1. d \in there
    BY <1>1, <1>3 DEF Inv, Serving, Busy, TypeOK
  <2>2. n = mtime[d].nsec
    BY <2>1 DEF Stamps
  <2>3. CASE i \in 1 .. Len(list)
    BY <1>1, <1>6, <2>3 DEF Inv, Stamped
  <2>4. CASE i = Len(list) + 1
    BY <1>6, <2>1, <2>2, <2>4
  <2> QED
    BY <1>5, <1>6, <2>3, <2>4
<1> QED
  BY <1>7, <1>9, <1>10, <1>11, <1>12, <1>13 DEF Inv

LEMMA FilledKeeps ==
    ASSUME Inv, Filled
    PROVE  Inv'
<1>1. /\ there' = there /\ mtime' = mtime /\ changes' = changes /\ at_home' = at_home
      /\ UNCHANGED <<option, i_count, cap, must, reply, steady, ever, made, quiet, failed>>
      /\ pc = "filling" /\ must = {} /\ pc' = "answer" /\ may' = {}
  BY DEF Filled, home, there, history
<1>2. list \in Seq(Entry) /\ Len(list) \in Nat
  BY LenProperties DEF Inv, TypeOK, Entry
<1>3. PICK order \in [1 .. Len(list) -> 1 .. Len(list)] :
        /\ \A i, j \in 1 .. Len(list) : order[i] = order[j] => i = j
        /\ \A i \in 1 .. Len(list) : \E j \in 1 .. Len(list) : order[j] = i
        /\ \A i, j \in 1 .. Len(list) :
               i < j => sort_compare(list[order[i]], list[order[j]]) <= 0
        /\ list' \in Seq(Entry) /\ Len(list') = Len(list)
        /\ \A i \in 1 .. Len(list) : list'[i] = list[order[i]]
  BY <1>2, SortIs DEF Filled
<1>4. \A i \in 1 .. Len(list) : order[i] \in 1 .. Len(list)
  BY <1>3
<1>5. reply = NoReply
  BY <1>1 DEF Inv, Serving, Busy
<1>6. TypeOK'
  BY <1>1, <1>3 DEF Inv, TypeOK, Entry
<1>7. Serving' /\ Ever'
  <2>1. \A i \in 1 .. Len(list') : list'[i].f_name \in ever
    BY <1>1, <1>3, <1>4 DEF Inv, Ever
  <2> QED
    BY <1>1, <1>5, <2>1 DEF Inv, Serving, Busy, Ever, NoReply
<1>8. Room'
  <2>1. i_count + Cardinality(must) + Cardinality(may) <= cap + made
    BY <1>1 DEF Inv, Room
  <2>2. Cardinality(must) \in Nat /\ Cardinality(may) \in Nat /\ i_count \in Nat
    BY <1>1, SetsOfNames DEF Inv, TypeOK
  <2>3. cap \in Nat /\ made \in Nat
    BY DEF Inv, TypeOK
  <2>4. i_count <= cap + made
    BY <2>1, <2>2, <2>3
  <2> QED
    BY <1>1, <2>4 DEF Room
<1>9. Steady'
  <2>1. \A c \in steady : OneEntry(c)
    BY <1>1 DEF Inv, Steady
  <2>2. ASSUME NEW c \in steady
        PROVE  OneEntry(c)'
    <3>1. PICK i \in 1 .. Len(list) :
            list[i].f_name = c /\ \A j \in 1 .. Len(list) : list[j].f_name = c => j = i
      BY <2>1 DEF OneEntry
    <3>2. PICK k \in 1 .. Len(list) : order[k] = i
      BY <1>3
    <3>3. list'[k].f_name = c
      BY <1>3, <3>1, <3>2
    <3>4. ASSUME NEW j \in 1 .. Len(list), list'[j].f_name = c
          PROVE  j = k
      <4>1. order[j] \in 1 .. Len(list) /\ list[order[j]].f_name = c
        BY <1>3, <3>4
      <4>2. order[j] = order[k]
        BY <3>1, <3>2, <4>1
      <4> QED
        BY <1>3, <4>2
    <3> QED
      BY <1>3, <3>3, <3>4 DEF OneEntry
  <2> QED
    BY <1>1, <1>5, <2>2 DEF Steady, Replied, NoReply
<1>10. Stamped'
  <2> SUFFICES ASSUME quiet, at_home, NEW i \in 1 .. Len(list)
               PROVE  list'[i].f_name \in there /\ list'[i].nsec = mtime[list'[i].f_name].nsec
    BY <1>1, <1>3 DEF Stamped
  <2>1. order[i] \in 1 .. Len(list) /\ list'[i] = list[order[i]]
    BY <1>3, <1>4
  <2>2. \A k \in 1 .. Len(list) :
            list[k].f_name \in there /\ list[k].nsec = mtime[list[k].f_name].nsec
    BY <1>1 DEF Inv, Stamped
  <2> QED
    BY <2>1, <2>2
<1>11. Sorted'
  <2>1. ASSUME NEW i \in 1 .. Len(list), NEW j \in 1 .. Len(list), i < j
        PROVE  sort_compare(list'[i], list'[j]) <= 0
    <3>1. list'[i] = list[order[i]] /\ list'[j] = list[order[j]]
      BY <1>3
    <3>2. sort_compare(list[order[i]], list[order[j]]) <= 0
      BY <1>3, <2>1
    <3> QED
      BY <3>1, <3>2
  <2>2. \A i, j \in 1 .. Len(list') : i < j => (sort_compare(list[i], list[j]) <= 0)'
    BY <1>1, <1>3, <2>1 DEF sort_compare, d_compare_name, d_compare_modified
  <2> QED
    BY <1>1, <1>5, <2>2 DEF Sorted, NoReply
<1> QED
  BY <1>6, <1>7, <1>8, <1>9, <1>10, <1>11 DEF Inv

LEMMA AnswerKeeps ==
    ASSUME Inv, Answer
    PROVE  Inv'
<1>1. /\ there' = there /\ mtime' = mtime /\ changes' = changes /\ at_home' = at_home
      /\ UNCHANGED <<option, i_count, cap, must, may, steady, ever, made, quiet, failed>>
      /\ pc = "answer" /\ pc' \in {"idle", "dead"} /\ list' = <<>>
      /\ reply' = [tag |-> "TXT", dirs |-> [i \in 1 .. Len(list) |-> list[i].f_name]]
  BY DEF Answer, home, there, stream, history
<1>2. list \in Seq(Entry) /\ Len(list) \in Nat
  BY LenProperties DEF Inv, TypeOK, Entry
<1>3. \A i \in 1 .. Len(list) : list[i] \in Entry
  BY <1>2, ElementOfSeq
<1>4. /\ reply'.dirs \in Seq(Names) /\ Len(reply'.dirs) = Len(list)
      /\ \A i \in 1 .. Len(list) : reply'.dirs[i] = list[i].f_name
  <2>1. \A i \in 1 .. Len(list) : list[i].f_name \in Names
    BY <1>3 DEF Entry
  <2> QED
    BY <1>1, <1>2, <2>1
<1>5. TypeOK'
  <2>1. reply' \in Reply
    BY <1>1, <1>4 DEF Reply
  <2> QED
    BY <1>1, <2>1, EmptyOnes DEF Inv, TypeOK, Entry, Reply
<1>6. Serving' /\ Room' /\ Stamped'
  BY <1>1 DEF Serving, Busy, Room, Stamped
<1>7. Steady'
  <2>1. \A c \in steady : OneEntry(c)
    BY <1>1 DEF Inv, Steady
  <2>2. \A c \in steady : OneLine(c)'
    BY <1>4, <2>1 DEF OneEntry, OneLine
  <2> QED
    BY <1>1, <2>2 DEF Steady
<1>8. Ever'
  BY <1>1, <1>4 DEF Inv, Ever, Busy
<1>9. Sorted'
  <2>1. \A i, j \in 1 .. Len(list) : i < j => sort_compare(list[i], list[j]) <= 0
    BY <1>1 DEF Inv, Sorted
  <2>2. ASSUME option = "-a", NEW i \in 1 .. Len(list), NEW j \in 1 .. Len(list), i < j
        PROVE  reply'.dirs[i] <= reply'.dirs[j]
    <3>1. list[i].f_name \in Nat /\ list[j].f_name \in Nat
      BY <1>3, ListingAssumption DEF Entry
    <3>2. list[i].f_name - list[j].f_name <= 0
      BY <2>1, <2>2 DEF sort_compare, d_compare_name
    <3> QED
      BY <1>4, <3>1, <3>2
  <2>3. ASSUME option = "-t", quiet, at_home,
               NEW i \in 1 .. Len(list), NEW j \in 1 .. Len(list), i < j
        PROVE  /\ reply'.dirs[i] \in there /\ reply'.dirs[j] \in there
               /\ mtime[reply'.dirs[i]].nsec <= mtime[reply'.dirs[j]].nsec
    <3>1. list[i].nsec \in Nat /\ list[j].nsec \in Nat
      BY <1>3, NsecsAreNat DEF Entry
    <3>2. list[i].nsec - list[j].nsec <= 0
      BY <2>1, <2>3 DEF sort_compare, d_compare_modified
    <3>3. /\ list[i].f_name \in there /\ list[i].nsec = mtime[list[i].f_name].nsec
          /\ list[j].f_name \in there /\ list[j].nsec = mtime[list[j].f_name].nsec
      BY <1>1, <2>3 DEF Inv, Stamped
    <3>4. list[i].nsec <= list[j].nsec
      BY <3>1, <3>2
    <3> QED
      BY <1>4, <3>3, <3>4
  <2> QED
    BY <1>1, <1>4, <2>2, <2>3 DEF Sorted
<1> QED
  BY <1>5, <1>6, <1>7, <1>8, <1>9 DEF Inv

LEMMA AnswerDiesKeeps ==
    ASSUME Inv, AnswerDies
    PROVE  Inv'
<1>1. /\ there' = there /\ mtime' = mtime /\ changes' = changes /\ at_home' = at_home
      /\ UNCHANGED <<option, i_count, cap, list, must, may, reply>>
      /\ UNCHANGED <<steady, ever, made, quiet, failed>>
      /\ pc = "answer" /\ pc' = "dead" /\ reply = NoReply
  BY DEF AnswerDies, home, there, stream, history, Inv, Serving, Busy
<1>2. TypeOK'
  BY <1>1 DEF Inv, TypeOK
<1>3. Serving' /\ Room' /\ Steady' /\ Ever' /\ Stamped' /\ Sorted'
  BY <1>1
  DEF Inv, Serving, Busy, Room, Steady, Replied, NoReply, Ever, Stamped, Sorted
<1> QED
  BY <1>2, <1>3 DEF Inv

LEMMA StutterKeeps ==
    ASSUME Inv, UNCHANGED vars
    PROVE  Inv'
<1>1. /\ there' = there
      /\ UNCHANGED <<mtime, at_home, changes, pc, option, i_count, cap, list, must, may, reply>>
      /\ UNCHANGED <<steady, ever, made, quiet, failed>>
  BY DEF vars, home, stream, history, there
<1>2. TypeOK' /\ Serving' /\ Room' /\ Ever' /\ Stamped'
  BY <1>1 DEF Inv, TypeOK, Serving, Busy, Room, Ever, Stamped
<1>3. Steady'
  <2>1. \A d : (OneEntry(d)' <=> OneEntry(d)) /\ (OneLine(d)' <=> OneLine(d))
    BY <1>1 DEF OneEntry, OneLine
  <2>2. Replied' <=> Replied
    BY <1>1 DEF Replied
  <2> QED
    BY <1>1, <2>1, <2>2 DEF Inv, Steady
<1>4. Sorted'
  BY <1>1 DEF Inv, Sorted, sort_compare, d_compare_name, d_compare_modified
<1> QED
  BY <1>2, <1>3, <1>4 DEF Inv

LEMMA Invariant == Spec => []Inv
<1>1. Init => Inv
  BY InvInit
<1>2. Inv /\ [Next]_vars => Inv'
  <2> SUFFICES ASSUME Inv, [Next]_vars
               PROVE  Inv'
    OBVIOUS
  <2>1. CASE \E o \in {"-a", "-t"} : Request(o)
    BY <2>1, RequestKeeps
  <2>2. CASE Step
    BY <2>2, CountKeeps, CountedKeeps, ReopenKeeps, OpenFailsKeeps, FillKeeps, FilledKeeps,
       AnswerKeeps, AnswerDiesKeeps DEF Step
  <2>3. CASE Make
    BY <2>3, MakeKeeps
  <2>4. CASE Remove
    BY <2>4, RemoveKeeps
  <2>5. CASE Touch
    BY <2>5, TouchKeeps
  <2>6. CASE UNCHANGED vars
    BY <2>6, StutterKeeps
  <2> QED
    BY <2>1, <2>2, <2>3, <2>4, <2>5, <2>6 DEF Next
<1> QED
  BY <1>1, <1>2, PTL DEF Spec

-----------------------------------------------------------------------------
(***************************************************************************)
(* What the invariant says of a listing.                                   *)
(***************************************************************************)
\* For every set of names: the counters, the array and the stream of dirlist stay what their
\* types say, and while the array is filled i_count is the number of its entries.
THEOREM ListingTypes == Spec => []TypeOK
<1>1. Inv => TypeOK
  BY DEF Inv
<1> QED
  BY <1>1, Invariant, PTL

\* However many directories come and go between and during the two passes, list_dir_sort
\* writes behind the array dir_count has sized by no more entries than were made since.
THEOREM OverrunsByNewOnly == Spec => []OverrunByNew
<1>1. Inv => OverrunByNew
  <2> SUFFICES ASSUME Inv
               PROVE  OverrunByNew
    OBVIOUS
  <2>1. CASE pc = "filling"
    <3>1. i_count + Cardinality(must) + Cardinality(may) <= cap + made
      BY <2>1 DEF Inv, Room
    <3>2. i_count \in Nat /\ cap \in Nat /\ made \in Nat
      BY DEF Inv, TypeOK
    <3>3. must \subseteq Names /\ may \subseteq Names
      BY DEF Inv, TypeOK
    <3>4. Cardinality(must) \in Nat /\ Cardinality(may) \in Nat
      BY <3>3, SetsOfNames
    <3>5. i_count <= cap + made
      BY <3>1, <3>2, <3>4
    <3> QED
      BY <3>5 DEF OverrunByNew
  <2>2. CASE pc # "filling"
    BY <2>2 DEF Inv, Room, OverrunByNew
  <2> QED
    BY <2>1, <2>2
<1> QED
  BY <1>1, Invariant, PTL

\* However a directory changes while dirlist reads it twice: unless opendir fails, what was in
\* it all the time is on one line of the answer, and what never was on none.
THEOREM ListsTheSteady == Spec => []SteadyListed
<1>1. Inv => SteadyListed
  <2> SUFFICES ASSUME Inv, Replied, ~failed
               PROVE  /\ \A d \in steady : Cardinality(Sent(d)) = 1
                      /\ \A d \in Names \ ever : Sent(d) = {}
    BY DEF SteadyListed
  <2>1. DOMAIN reply.dirs = 1 .. Len(reply.dirs)
    BY LenProperties DEF Inv, TypeOK
  <2>2. ASSUME NEW d \in steady
        PROVE  Cardinality(Sent(d)) = 1
    <3>1. OneLine(d)
      BY DEF Inv, Steady
    <3>2. PICK i : Sent(d) = {i}
      BY <2>1, <3>1 DEF OneLine, Sent
    <3> QED
      BY <3>2, FS_Singleton
  <2>3. ASSUME NEW d \in Names \ ever
        PROVE  Sent(d) = {}
    BY <2>1 DEF Inv, Ever, Sent
  <2> QED
    BY <2>2, <2>3
<1> QED
  BY <1>1, Invariant, PTL

\* Whatever order qsort leaves equal entries in: a list by name is sorted, and one by time is
\* where nothing changes, stat finds the directories and all their times are in one second.
THEOREM ListsInOrder == Spec => []Ordered
<1>1. Inv => Ordered
  <2> SUFFICES ASSUME Inv, Replied
               PROVE  Ordered
    BY DEF Ordered
  <2>1. DOMAIN reply.dirs = 1 .. Len(reply.dirs)
    BY LenProperties DEF Inv, TypeOK
  <2>2. option = "-a" => \A i, j \in DOMAIN reply.dirs :
            i < j => reply.dirs[i] <= reply.dirs[j]
    BY <2>1 DEF Inv, Sorted
  <2>3. ASSUME option = "-t", quiet, at_home,
               \A c, d \in there : mtime[c].sec = mtime[d].sec
        PROVE  InTheirOrder
    <3> SUFFICES ASSUME NEW i \in 1 .. Len(reply.dirs), NEW j \in 1 .. Len(reply.dirs), i < j
                 PROVE  ~Before(mtime[reply.dirs[j]], mtime[reply.dirs[i]])
      BY <2>1 DEF InTheirOrder
    <3>1. /\ reply.dirs[i] \in there /\ reply.dirs[j] \in there
          /\ mtime[reply.dirs[i]].nsec <= mtime[reply.dirs[j]].nsec
      BY <2>3 DEF Inv, Sorted
    <3>2. mtime[reply.dirs[i]] \in Times /\ mtime[reply.dirs[j]] \in Times
      BY <3>1 DEF Inv, TypeOK
    <3>3. /\ mtime[reply.dirs[i]].sec \in Nat /\ mtime[reply.dirs[i]].nsec \in Nat
          /\ mtime[reply.dirs[j]].sec \in Nat /\ mtime[reply.dirs[j]].nsec \in Nat
      BY <3>2, ListingAssumption
    <3>4. mtime[reply.dirs[i]].sec = mtime[reply.dirs[j]].sec
      BY <2>3, <3>1
    <3> QED
      BY <3>1, <3>3, <3>4 DEF Before
  <2> QED
    BY <2>2, <2>3 DEF Ordered
<1> QED
  BY <1>1, Invariant, PTL

=============================================================================
