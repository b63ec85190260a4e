--------------------------- MODULE SearchProofs ----------------------------
(***************************************************************************)
(* Theorems about Search, for every tree of files, every set of commands   *)
(* and every number of descriptors: what one search leaves for the next.   *)
(***************************************************************************)
EXTENDS Search, TLAPS

\* The descriptors in use, by where the child is: w24ft's roots, the directory the walk has
\* open, the archive that is sent.
Descriptors ==
    /\ pc \in {"idle", "enter", "nftw", "tar"} => fds = entered
    /\ pc = "walk" => fds = entered + 1
    /\ pc = "send" => fds = IF reply.tag = "TAR" THEN entered + 1 ELSE entered
    /\ why = "descriptors" => entered + 3 > MaxFds

\* The pointers are good from before the walk on.
Pointers == pc \in {"nftw", "walk"} =>
    /\ tracker = "live"
    /\ request.cmd = "w24fn" => details = "live"

\* A search by name has met no file of the name while it walks.
NotMet ==
    /\ pc \in {"enter", "nftw"} => copied = {}
    /\ pc = "walk" /\ request.cmd = "w24fn" =>
          /\ copied = {}
          /\ \A f \in Files \ todo : File[f].name # request.name

\* The dead stay dead, and an archive is sent under a tag of its own.
Ends ==
    /\ why # "none" => pc = "dead"
    /\ pc \in {"tar", "send"} => request.cmd # "w24fn"
    /\ pc \in {"nftw", "walk"} => reply.tag = "none"
    /\ pc = "enter" => reply.tag = "none"

\* The type invariant, in parts that are proved apart.
Words ==
    /\ pc \in {"idle", "enter", "nftw", "walk", "tar", "send", "dead"}
    /\ tracker \in Pointer
    /\ details \in Pointer
    /\ why \in {"none", "second free", "overrun", "descriptors", "walk", "miss", "beyond"}

Sets ==
    /\ request \in Requests \cup {NoRequest}
    /\ todo \subseteq Files
    /\ copied \subseteq Files

Replies ==
    /\ reply.tag \in {"none", "refused", "silent", "404", "TXT", "TAR", "bare"}
    /\ reply.size \in Nat \cup {Unwritten}

Counts == fds \in 0 .. MaxFds /\ entered \in Nat

Types == Words /\ Sets /\ Replies /\ Counts

Inv == Types /\ Descriptors /\ Pointers /\ NotMet /\ Ends /\ NameFound

LEMMA InvInit == Init => Inv
<1> SUFFICES ASSUME Init PROVE Inv
  OBVIOUS
<1>1. MaxFds \in Nat
  BY SearchAssumption
<1> USE DEF Init, NoReply
<1>2. Types
  BY <1>1 DEF Types, Words, Sets, Replies, Counts, Pointer
<1>3. Descriptors /\ Pointers /\ NotMet /\ Ends
  BY DEF Descriptors, Pointers, NotMet, Ends
<1>4. NameFound
  BY DEF NameFound, Done
<1> QED BY <1>2, <1>3, <1>4 DEF Inv

\* The text of a size is a number, or not written.
LEMMA SizeTextType ==
    ASSUME NEW f \in Files
    PROVE  /\ SizeText(File[f].size) \in Nat \cup {Unwritten}
           /\ File[f].size > 0 => SizeText(File[f].size) = File[f].size
<1>1. File[f].size \in Nat
  BY SearchAssumption
<1> QED BY <1>1 DEF SizeText, Unwritten

LEMMA InvAsk == ASSUME Inv, NEW r \in Requests, Ask(r) PROVE Inv'
<1> USE DEF Ask, Answer, memory
<1>1. Types'
  <2>1. Words' /\ Sets'
    <3>1. r \in Requests \cup {NoRequest}
      OBVIOUS
    <3>2. Words'
      BY DEF Inv, Types, Words
    <3>3. Sets'
      BY <3>1 DEF Inv, Types, Sets
    <3> QED BY <3>2, <3>3
  <2>2. Replies'
    BY DEF Inv, Types, Replies, Unwritten
  <2>3. Counts'
    BY DEF Inv, Types, Counts, Descriptors
  <2> QED BY <2>1, <2>2, <2>3 DEF Types
<1>2. Descriptors' /\ Pointers' /\ NotMet' /\ Ends'
  BY DEF Inv, Descriptors, Pointers, NotMet, Ends, memory
<1>3. NameFound'
  BY DEF Inv, NameFound, Done, Ends
<1> QED BY <1>1, <1>2, <1>3 DEF Inv

LEMMA InvEnter ==
    ASSUME Inv, Silence \/ SecondFree \/ NameOverrun \/ EnterPlain \/ EnterExt
    PROVE  Inv'
<1> USE DEF Die, Answer, memory
<1>a. MaxFds \in Nat
  BY SearchAssumption
<1>1. CASE Silence
  <2>1. Types'
    <3>1. Words' /\ Sets'
      BY <1>1 DEF Inv, Types, Words, Sets, Pointer, Silence
    <3>2. Replies'
      BY <1>1 DEF Inv, Types, Replies, Unwritten, Silence
    <3>3. Counts'
      BY <1>1 DEF Inv, Types, Counts, Descriptors, Silence
    <3> QED BY <3>1, <3>2, <3>3 DEF Types
  <2>2. Descriptors' /\ Pointers' /\ NotMet' /\ Ends'
    BY <1>1 DEF Silence, Inv, Descriptors, Pointers, NotMet, Ends
  <2>3. NameFound'
    BY <1>1 DEF Silence, Inv, NameFound, Done, Ends
  <2> QED BY <2>1, <2>2, <2>3 DEF Inv
<1>2. CASE SecondFree \/ NameOverrun
  <2> USE <1>2 DEF SecondFree, NameOverrun
  <2>1. Types'
    <3>1. Words' /\ Sets'
      BY DEF Inv, Types, Words, Sets, Pointer
    <3>2. Replies'
      BY DEF Inv, Types, Replies, Unwritten
    <3>3. Counts'
      BY DEF Inv, Types, Counts, Descriptors
    <3> QED BY <3>1, <3>2, <3>3 DEF Types
  <2>2. Descriptors' /\ Pointers' /\ NotMet' /\ Ends'
    BY DEF Inv, Descriptors, Pointers, NotMet, Ends
  <2>3. NameFound'
    BY DEF Inv, NameFound, Done, Ends
  <2> QED BY <2>1, <2>2, <2>3 DEF Inv
<1>3. CASE EnterPlain
  <2> USE <1>3 DEF EnterPlain, Allocated
  <2>1. Types'
    <3>1. Words' /\ Sets'
      BY DEF Inv, Types, Words, Sets, Pointer
    <3>2. Replies'
      BY DEF Inv, Types, Replies, Unwritten
    <3>3. Counts'
      BY DEF Inv, Types, Counts, Descriptors
    <3> QED BY <3>1, <3>2, <3>3 DEF Types
  <2>2. Descriptors' /\ NotMet' /\ Ends'
    BY DEF Inv, Descriptors, NotMet, Ends
  <2>3. Pointers'
    BY DEF Pointers
  <2>4. NameFound'
    BY DEF Inv, NameFound, Done, Ends
  <2> QED BY <2>1, <2>2, <2>3, <2>4 DEF Inv
<1>4. CASE EnterExt
  <2> USE <1>4 DEF EnterExt, Allocated
  <2>1. Types'
    <3>1. Words' /\ Sets'
      BY <1>a DEF Inv, Types, Words, Sets, Pointer
    <3>2. Replies'
      BY <1>a DEF Inv, Types, Replies, Unwritten
    <3>3. Counts'
      BY <1>a DEF Inv, Types, Counts, Descriptors
    <3> QED BY <3>1, <3>2, <3>3 DEF Types
  <2>2. Descriptors'
    BY <1>a DEF Inv, Descriptors, Types, Counts
  <2>3. Pointers' /\ NotMet' /\ Ends'
    BY DEF Inv, Pointers, NotMet, Ends, Frees
  <2>4. NameFound'
    BY DEF Inv, NameFound, Done, Ends
  <2> QED BY <2>1, <2>2, <2>3, <2>4 DEF Inv
<1> QED BY <1>1, <1>2, <1>3, <1>4

LEMMA InvWalk ==
    ASSUME Inv, WalkFails \/ WalkBegins \/ ReadsBeyond \/ WalkEnds
    PROVE  Inv'
<1> USE DEF Die, Answer, memory
<1>a. MaxFds \in Nat
  BY SearchAssumption
<1>1. CASE WalkFails
  <2> USE <1>1 DEF WalkFails
  <2>1. Types'
    <3>1. Words' /\ Sets'
      BY DEF Inv, Types, Words, Sets, Pointer
    <3>2. Replies'
      BY DEF Inv, Types, Replies, Unwritten
    <3>3. Counts'
      BY DEF Inv, Types, Counts, Descriptors
    <3> QED BY <3>1, <3>2, <3>3 DEF Types
  <2>2. Descriptors'
    BY <1>a DEF Inv, Descriptors, Types, Counts
  <2>3. Pointers' /\ NotMet' /\ Ends'
    BY DEF Inv, Pointers, NotMet, Ends
  <2>4. NameFound'
    BY DEF Inv, NameFound, Done, Ends
  <2> QED BY <2>1, <2>2, <2>3, <2>4 DEF Inv
<1>2. CASE WalkBegins
  <2> USE <1>2 DEF WalkBegins
  <2>1. Types'
    <3>1. Words' /\ Sets'
      BY <1>a DEF Inv, Types, Words, Sets, Pointer
    <3>2. Replies'
      BY <1>a DEF Inv, Types, Replies, Unwritten
    <3>3. Counts'
      BY <1>a DEF Inv, Types, Counts, Descriptors
    <3> QED BY <3>1, <3>2, <3>3 DEF Types
  <2>2. Descriptors' /\ Pointers' /\ NotMet' /\ Ends'
    BY DEF Inv, Descriptors, Pointers, NotMet, Ends, Types, Counts
  <2>3. NameFound'
    BY DEF Inv, NameFound, Done, Ends
  <2> QED BY <2>1, <2>2, <2>3 DEF Inv
<1>3. CASE ReadsBeyond
  <2> USE <1>3 DEF ReadsBeyond
  <2>1. Types'
    <3>1. Words' /\ Sets'
      BY DEF Inv, Types, Words, Sets, Pointer
    <3>2. Replies'
      BY DEF Inv, Types, Replies, Unwritten
    <3>3. Counts'
      BY DEF Inv, Types, Counts, Descriptors
    <3> QED BY <3>1, <3>2, <3>3 DEF Types
  <2>2. Descriptors' /\ Pointers' /\ NotMet' /\ Ends'
    BY DEF Inv, Descriptors, Pointers, NotMet, Ends
  <2>3. NameFound'
    BY DEF Inv, NameFound, Done, Ends
  <2> QED BY <2>1, <2>2, <2>3 DEF Inv
<1>4. CASE WalkEnds
  <2> USE <1>4 DEF WalkEnds
  <2>1. Types'
    <3>1. Words' /\ Sets'
      BY <1>a DEF Inv, Types, Words, Sets, Pointer
    <3>2. Replies'
      BY <1>a DEF Inv, Types, Replies, Unwritten
    <3>3. Counts'
      BY <1>a DEF Inv, Types, Counts, Descriptors
    <3> QED BY <3>1, <3>2, <3>3 DEF Types
  <2>2. Descriptors' /\ Pointers' /\ NotMet' /\ Ends'
    BY DEF Inv, Descriptors, Pointers, NotMet, Ends, Types, Counts
  <2>3. NameFound'
    BY DEF Inv, NameFound, NotMet, Done, Ends
  <2> QED BY <2>1, <2>2, <2>3 DEF Inv
<1> QED BY <1>1, <1>2, <1>3, <1>4

LEMMA InvVisit == ASSUME Inv, Visit PROVE Inv'
<1> USE DEF memory
<1>a. MaxFds \in Nat
  BY SearchAssumption
<1>1. PICK f \in todo :
        /\ pc = "walk"
        /\ IF Matches(f)
           THEN /\ copied' = copied \cup {f}
                /\ IF request.cmd = "w24fn" THEN AnswerName(f)
                                            ELSE Copies /\ todo' = todo \ {f}
           ELSE todo' = todo \ {f} /\ UNCHANGED <<pc, memory, copied, fds, reply, why>>
        /\ UNCHANGED <<request, entered>>
  BY DEF Visit
<1>2. f \in Files /\ todo \subseteq Files
  BY <1>1 DEF Inv, Types, Sets
<1>3. CASE ~Matches(f)
  <2> USE <1>1, <1>3
  <2>1. Types' /\ Descriptors' /\ Pointers' /\ Ends'
    BY <1>2 DEF Inv, Types, Words, Sets, Replies, Counts, Descriptors, Pointers, Ends
  <2>2. NotMet'
    BY DEF Inv, NotMet, Matches
  <2>3. NameFound'
    BY DEF Inv, NameFound, Done, Ends
  <2> QED BY <2>1, <2>2, <2>3 DEF Inv
<1>4. CASE Matches(f) /\ request.cmd = "w24fn"
  <2> USE <1>1, <1>4 DEF AnswerName
  <2>1. Types'
    <3>1. Words' /\ Sets'
      BY <1>a, <1>2, SizeTextType DEF Inv, Types, Words, Sets, Pointer
    <3>2. Replies'
      BY <1>a, <1>2, SizeTextType DEF Inv, Types, Replies, Unwritten
    <3>3. Counts'
      BY <1>a, <1>2, SizeTextType DEF Inv, Types, Counts, Descriptors
    <3> QED BY <3>1, <3>2, <3>3 DEF Types
  <2>2. Descriptors' /\ Pointers' /\ NotMet' /\ Ends'
    BY DEF Inv, Descriptors, Pointers, NotMet, Ends, Types, Counts
  <2>3. File[f].name = request.name /\ copied' = {f}
    BY DEF Matches, Inv, NotMet
  <2>4. NameFound'
    BY <1>2, <2>3, SizeTextType DEF Inv, NameFound, Ends
  <2> QED BY <2>1, <2>2, <2>4 DEF Inv
<1>5. CASE Matches(f) /\ request.cmd # "w24fn"
  <2> USE <1>1, <1>5 DEF Copies, Die
  <2>1. Types'
    <3>1. Words' /\ Sets'
      BY <1>2 DEF Inv, Types, Words, Sets, Pointer
    <3>2. Replies'
      BY <1>2 DEF Inv, Types, Replies, Unwritten
    <3>3. Counts'
      BY <1>2 DEF Inv, Types, Counts, Descriptors
    <3> QED BY <3>1, <3>2, <3>3 DEF Types
  <2>2. Descriptors'
    BY <1>a DEF Inv, Descriptors, Types, Counts
  <2>3. Pointers' /\ NotMet' /\ Ends'
    BY DEF Inv, Pointers, NotMet, Ends
  <2>4. NameFound'
    BY DEF Inv, NameFound, Done, Ends
  <2> QED BY <2>1, <2>2, <2>3, <2>4 DEF Inv
<1> QED BY <1>3, <1>4, <1>5

LEMMA InvArchive == ASSUME Inv, TarFails \/ TarEnds \/ SendEnds PROVE Inv'
<1> USE DEF Answer, memory
<1>a. MaxFds \in Nat
  BY SearchAssumption
<1>1. CASE TarFails
  <2> USE <1>1 DEF TarFails, Failure
  <2>1. Types'
    <3>1. Words' /\ Sets'
      BY DEF Inv, Types, Words, Sets, Pointer
    <3>2. Replies'
      BY DEF Inv, Types, Replies, Unwritten
    <3>3. Counts'
      BY DEF Inv, Types, Counts, Descriptors
    <3> QED BY <3>1, <3>2, <3>3 DEF Types
  <2>2. Descriptors' /\ Pointers' /\ NotMet' /\ Ends' /\ NameFound'
    BY DEF Inv, Descriptors, Pointers, NotMet, Ends, NameFound, Done
  <2> QED BY <2>1, <2>2 DEF Inv
<1>2. CASE TarEnds
  <2> USE <1>2 DEF TarEnds
  <2>1. Types'
    <3>1. Words' /\ Sets'
      BY <1>a DEF Inv, Types, Words, Sets, Pointer
    <3>2. Replies'
      BY <1>a DEF Inv, Types, Replies, Unwritten
    <3>3. Counts'
      BY <1>a DEF Inv, Types, Counts, Descriptors
    <3> QED BY <3>1, <3>2, <3>3 DEF Types
  <2>2. Descriptors'
    BY DEF Inv, Descriptors, Types, Counts
  <2>3. Pointers' /\ NotMet' /\ Ends' /\ NameFound'
    BY DEF Inv, Pointers, NotMet, Ends, NameFound, Done
  <2> QED BY <2>1, <2>2, <2>3 DEF Inv
<1>3. CASE SendEnds
  <2> USE <1>3 DEF SendEnds, Closed
  <2>1. Types'
    <3>1. Words' /\ Sets'
      BY <1>a DEF Inv, Types, Words, Sets, Pointer
    <3>2. Replies'
      BY <1>a DEF Inv, Types, Replies, Unwritten
    <3>3. Counts'
      BY <1>a DEF Inv, Types, Counts, Descriptors
    <3> QED BY <3>1, <3>2, <3>3 DEF Types
  <2>2. Descriptors'
    BY DEF Inv, Descriptors, Types, Counts
  <2>3. Pointers' /\ NotMet' /\ Ends' /\ NameFound'
    BY DEF Inv, Pointers, NotMet, Ends, NameFound, Done
  <2> QED BY <2>1, <2>2, <2>3 DEF Inv
<1> QED BY <1>1, <1>2, <1>3

LEMMA InvNext == Inv /\ [Next]_vars => Inv'
<1> SUFFICES ASSUME Inv, [Next]_vars PROVE Inv'
  OBVIOUS
<1>1. CASE UNCHANGED vars
  <2> USE <1>1 DEF vars, memory, Inv
  <2>1. Types'
    BY DEF Types, Words, Sets, Replies, Counts
  <2>2. Descriptors' /\ Pointers' /\ NotMet' /\ Ends'
    BY DEF Descriptors, Pointers, NotMet, Ends
  <2>3. NameFound'
    BY DEF NameFound, Done
  <2> QED BY <2>1, <2>2, <2>3
<1>2. CASE \E r \in Requests : Ask(r)
  BY <1>2, InvAsk
<1>3. CASE Step
  BY <1>3, InvEnter, InvWalk, InvVisit, InvArchive DEF Step
<1> QED BY <1>1, <1>2, <1>3 DEF Next

LEMMA Invariant == Spec => []Inv
<1> QED BY InvInit, InvNext, PTL DEF Spec

-----------------------------------------------------------------------------
(***************************************************************************)
(* The calendar: the numbers of the days, and the dates there are.         *)
(***************************************************************************)
\* The days of the years up to y, and of the months from March up to m.
Days(y) == 365 * y + y \div 4 - y \div 100 + y \div 400

Months(m) ==
    CASE m = 1 -> 306 [] m = 2 -> 337 [] m = 3 -> 0 [] m = 4 -> 31 [] m = 5 -> 61
      [] m = 6 -> 92 [] m = 7 -> 122 [] m = 8 -> 153 [] m = 9 -> 184 [] m = 10 -> 214
      [] m = 11 -> 245 [] m = 12 -> 275

\* The years whose days are counted before the date: in January and February one less.
YearsBefore(month, year) == Days(IF month < 3 THEN year - 1 ELSE year)

Real(d) == d.month \in 1 .. 12 /\ d.year \in Nat /\ d.day \in 1 .. LastDay(d.month, d.year)

Earlier(d, e) ==
    \/ d.year < e.year
    \/ d.year = e.year /\ d.month < e.month
    \/ d.year = e.year /\ d.month = e.month /\ d.day < e.day

LEMMA YearGrows ==
    ASSUME NEW y \in Int
    PROVE  Days(y) \in Int /\ Days(y) = Days(y - 1) + (IF Leap(y) THEN 366 ELSE 365)
  BY DEF Days, Leap

LEMMA YearsGrow ==
    ASSUME NEW y \in Int, NEW z \in Int, y < z
    PROVE  Days(z) >= Days(y) + 365 * (z - y)
  BY DEF Days

LEMMA YearIs == \A y \in Nat :
    /\ Days(y) \in Int /\ Days(y - 1) \in Int
    /\ Days(y) = Days(y - 1) + (IF Leap(y) THEN 366 ELSE 365)
<1>1. \A y \in Nat : y \in Int /\ y - 1 \in Int
  OBVIOUS
<1> QED BY <1>1, YearGrows

\* The months by the formula with 153 are the calendar's.
LEMMA Numbered ==
    ASSUME NEW d, d.day \in Nat, d.month \in 1 .. 12, d.year \in Nat
    PROVE  DayNumber(d) = Months(d.month) + d.day + YearsBefore(d.month, d.year) - 719469
<1> DEFINE m == d.month
<1>1. (14 - m) \div 12 = IF m < 3 THEN 1 ELSE 0
  OBVIOUS
<1>2. (153 * (m + 12 * ((14 - m) \div 12) - 3) + 2) \div 5 = Months(m)
  BY <1>1 DEF Months
<1> QED BY <1>1, <1>2 DEF DayNumber, YearsBefore, Days

\* The days from the first of a month to the first of the next are those LastDay has.
LEMMA MonthIs ==
    ASSUME NEW d, d \in [style : {"digits", "month", "iso"}, day : Nat, month : Nat, year : Nat],
           d.month \in 1 .. 12
    PROVE  DaysIn(d) = LastDay(d.month, d.year)
<1> DEFINE first == [d EXCEPT !.day = 1]
           next == IF d.month = 12 THEN [d EXCEPT !.day = 1, !.month = 1, !.year = @ + 1]
                                   ELSE [d EXCEPT !.day = 1, !.month = @ + 1]
           m == d.month
           y == d.year
<1>1. /\ first.day = 1 /\ first.month = m /\ first.year = y
      /\ next.day = 1 /\ next.month = (IF m = 12 THEN 1 ELSE m + 1)
      /\ next.year = (IF m = 12 THEN y + 1 ELSE y)
      /\ m \in 1 .. 12 /\ y \in Nat
  OBVIOUS
<1> HIDE DEF first, next, m, y
<1>2. DayNumber(first) = Months(m) + 1 + YearsBefore(m, y) - 719469
  BY <1>1, Numbered
<1>3. CASE m = 12
  <2>1. DayNumber(next) = Months(1) + 1 + Days(y) - 719469
    BY <1>1, <1>3, Numbered DEF YearsBefore
  <2>2. DaysIn(d) = DayNumber(next) - DayNumber(first)
    BY DEF DaysIn, next, first
  <2> QED BY <1>1, <1>2, <1>3, <2>1, <2>2, YearIs DEF Months, LastDay, YearsBefore, m, y
<1>4. CASE m # 12
  <2>1. DayNumber(next) = Months(m + 1) + 1 + YearsBefore(m + 1, y) - 719469
    BY <1>1, <1>4, Numbered
  <2>2. DaysIn(d) = DayNumber(next) - DayNumber(first)
    BY DEF DaysIn, next, first
  <2>3. CASE m = 2
    BY <1>1, <1>2, <2>1, <2>2, <2>3, YearIs DEF Months, LastDay, YearsBefore, m, y
  <2>4. CASE m \in {1} \cup 3 .. 11
    BY <1>1, <1>2, <2>1, <2>2, <2>4, YearIs DEF Months, LastDay, YearsBefore, m, y
  <2> QED BY <1>1, <1>4, <2>3, <2>4
<1> QED BY <1>3, <1>4

\* The numbers of the days follow the calendar.
LEMMA NumbersGrow ==
    ASSUME NEW d, NEW e, Real(d), Real(e), Earlier(d, e)
    PROVE  DayNumber(d) < DayNumber(e)
<1> DEFINE Before(f) == YearsBefore(f.month, f.year)
<1>1. /\ DayNumber(d) = Months(d.month) + d.day + Before(d) - 719469
      /\ DayNumber(e) = Months(e.month) + e.day + Before(e) - 719469
  <2>1. d.day \in Nat /\ e.day \in Nat
    BY DEF Real, LastDay
  <2> QED BY <2>1, Numbered DEF Real
<1>2. d.year \in Nat /\ e.year \in Nat
  BY DEF Real
<1>3. CASE d.year < e.year
  <2>1. Days(e.year - 1) >= Days(d.year)
    <3>1. CASE d.year = e.year - 1
      BY <1>2, <3>1, YearIs
    <3>2. CASE d.year < e.year - 1
      <4>1. Days(e.year - 1) >= Days(d.year) + 365 * (e.year - 1 - d.year)
        <5>1. d.year \in Int /\ e.year - 1 \in Int
          BY <1>2
        <5> QED BY <3>2, <5>1, YearsGrow
      <4> QED BY <1>2, <3>2, <4>1, YearIs
    <3> QED BY <1>2, <1>3, <3>1, <3>2
  <2>2. Before(e) + Months(e.month) >= Days(e.year - 1) + 306
    BY <1>2, YearIs DEF Real, Months, YearsBefore
  <2>3. Before(d) + Months(d.month) + d.day <= Days(d.year) + 306
    BY <1>2, YearIs DEF Real, Months, YearsBefore, LastDay
  <2> QED BY <1>1, <1>2, <2>1, <2>2, <2>3, YearIs DEF Real, Months, YearsBefore
<1>4. CASE d.year = e.year /\ d.month < e.month
  BY <1>1, <1>2, <1>4, YearIs DEF Real, Months, YearsBefore, LastDay
<1>5. CASE d.year = e.year /\ d.month = e.month /\ d.day < e.day
  <2>1. Months(d.month) \in Nat /\ Before(d) \in Int
    BY <1>2, YearIs DEF Real, Months, YearsBefore
  <2> QED BY <1>1, <1>5, <2>1 DEF Real, LastDay
<1> QED BY <1>3, <1>4, <1>5 DEF Earlier

\* What validate_date (main.c) lets pass are the dates there are, up to today.
LEMMA ValidDates ==
    ASSUME NEW d \in DateTexts
    PROVE  validate_date(d) <=>
              /\ d.style = "digits"
              /\ d.month \in 1 .. 12 /\ d.day \in 1 .. DaysIn(d)
              /\ DayNumber(d) <= DayNumber(Today)
<1>1. d \in [style : {"digits", "month", "iso"}, day : Nat, month : Nat, year : Nat]
  BY SearchAssumption
<1>2. Real(Today)
  BY MatchingAssumption, TodayAssumption DEF Real, LastDay
<1>3. ASSUME d.month \in 1 .. 12 PROVE DaysIn(d) = LastDay(d.month, d.year)
  BY <1>1, <1>3, MonthIs
<1>4. ASSUME Real(d)
      PROVE  ~AfterToday(d) <=> DayNumber(d) <= DayNumber(Today)
  <2>1. DayNumber(d) \in Int /\ DayNumber(Today) \in Int
    BY <1>2, <1>4, Numbered, YearIs DEF Real, LastDay, Months, YearsBefore
  <2>2. CASE AfterToday(d)
    <3>1. DayNumber(Today) < DayNumber(d)
      BY <1>2, <1>4, <2>2, NumbersGrow DEF AfterToday, Earlier
    <3> QED BY <2>1, <2>2, <3>1
  <2>3. CASE Earlier(d, Today)
    <3>1. DayNumber(d) < DayNumber(Today)
      BY <1>2, <1>4, <2>3, NumbersGrow
    <3>2. ~AfterToday(d)
      BY <1>2, <1>4, <2>3 DEF AfterToday, Earlier, Real, LastDay
    <3> QED BY <2>1, <3>1, <3>2
  <2>4. CASE d.day = Today.day /\ d.month = Today.month /\ d.year = Today.year
    <3>1. DayNumber(d) = DayNumber(Today)
      BY <2>4 DEF DayNumber
    <3>2. ~AfterToday(d)
      BY <1>2, <2>4 DEF AfterToday, Real, LastDay
    <3> QED BY <2>1, <3>1, <3>2
  <2> QED BY <1>2, <1>4, <2>2, <2>3, <2>4 DEF AfterToday, Earlier, Real, LastDay
<1>5. validate_date(d) <=>
         /\ d.style = "digits"
         /\ d.month \in 1 .. 12 /\ d.day \in 1 .. LastDay(d.month, d.year)
         /\ ~AfterToday(d)
  BY <1>1 DEF validate_date, ParsesDigits, LastDay
<1> QED BY <1>1, <1>3, <1>4, <1>5 DEF Real

-----------------------------------------------------------------------------
(***************************************************************************)
(* What the walk has copied, and what the client has refused.              *)
(***************************************************************************)
\* What the handler of a search by size asks of the bounds.
InOrder == request.cmd = "w24fz" => 0 <= sz_min /\ sz_min <= sz_max

\* While the walk lasts all matches among the files it has visited are copied; when the
\* archive is made, and after it is sent, all there are.
Selected ==
    /\ pc = "walk" /\ request.cmd # "w24fn" => copied = {f \in Files \ todo : Matches(f)}
    /\ pc \in {"tar", "send"} \/ (pc = "idle" /\ reply.tag = "TAR") =>
           copied = {f \in Files : Matches(f)}
    /\ pc \in {"nftw", "walk", "tar", "send"} \/ (pc = "idle" /\ reply.tag = "TAR") =>
           ~Refused /\ InOrder

\* Only what verify_input has refused is refused.
Verified ==
    /\ pc # "idle" => reply.tag # "refused"
    /\ request.cmd \in {"w24fdb", "w24fda"} =>
           (reply.tag = "refused" <=> ~validate_date(request.date))

\* The arguments of a request.
LEMMA RequestIs ==
    ASSUME NEW r \in Requests \cup {NoRequest}
    PROVE  /\ r.cmd = "w24fz" =>
                 r.sizes \in SizeTexts \X SizeTexts \/ Len(r.sizes) < 2
           /\ r.cmd = "w24ft" => r.exts \subseteq ExtTexts
           /\ r.cmd \in {"w24fdb", "w24fda"} => r.date \in DateTexts
<1>1. CASE r \in SizeRequests
  <2>1. PICK s \in {<<a>> : a \in SizeTexts} \cup (SizeTexts \X SizeTexts) :
          r = [NoRequest EXCEPT !.cmd = "w24fz", !.sizes = s]
    BY <1>1 DEF SizeRequests
  <2>2. r.cmd = "w24fz" /\ r.sizes = s
    BY <2>1 DEF NoRequest
  <2> QED BY <2>2
<1>2. CASE r \in ExtRequests
  <2>1. PICK e \in SUBSET ExtTexts : r = [NoRequest EXCEPT !.cmd = "w24ft", !.exts = e]
    BY <1>2 DEF ExtRequests
  <2> QED BY <2>1 DEF NoRequest
<1>3. CASE r \in DateRequests
  <2>1. PICK c \in {"w24fdb", "w24fda"}, d \in DateTexts : r = DateRequest(c, d)
    BY <1>3 DEF DateRequests
  <2> QED BY <2>1 DEF DateRequest, NoRequest
<1>4. CASE r \in NameRequests
  <2>1. PICK n \in Asked : r = [NoRequest EXCEPT !.cmd = "w24fn", !.name = n]
    BY <1>4 DEF NameRequests
  <2> QED BY <2>1 DEF NoRequest
<1>5. CASE r = NoRequest
  BY <1>5 DEF NoRequest
<1> QED BY <1>1, <1>2, <1>3, <1>4, <1>5 DEF Requests

\* What is left of a number behind a multiple of another.
LEMMA Multiple == ASSUME NEW n \in Nat, NEW b \in Nat, b > 0
                  PROVE  n % b \in 0 .. b - 1 /\ (n - (n % b)) % b = 0
<1>1. n = b * (n \div b) + (n % b) /\ n % b \in 0 .. b - 1 /\ n \div b \in Nat
  OBVIOUS
<1>2. PICK q \in Nat : q = n \div b
  BY <1>1
<1>3. PICK x \in Nat : x = b * q
  <2>1. b * q \in Nat
    OBVIOUS
  <2> QED BY <2>1
<1>4. x % b = 0
  BY <1>3
<1>5. n - (n % b) = x
  BY <1>1, <1>2, <1>3
<1> QED BY <1>1, <1>4, <1>5

\* The conversion to int takes away a multiple of 2^32.
LEMMA IntIs == ASSUME NEW n \in Nat
               PROVE  int(n) \in -IntHalf .. IntHalf - 1 /\ StandsFor(int(n), n)
<1> DEFINE b == 2 * IntHalf
           m == n + IntHalf
<1>1. b \in Nat /\ b > 0 /\ m \in Nat /\ IntHalf \in Nat
  BY MatchingAssumption
<1>2. int(n) = (m % b) - IntHalf /\ b = IntHalf + IntHalf
  BY <1>1 DEF int
<1>3. n = m - IntHalf
  BY <1>1
<1> HIDE DEF b, m
<1>4. m % b \in 0 .. b - 1 /\ (m - (m % b)) % b = 0
  BY <1>1, Multiple
<1>5. n - int(n) = m - (m % b)
  <2>1. m % b \in Int
    BY <1>4
  <2> QED BY <1>1, <1>2, <1>3, <2>1
<1>6. int(n) \in -IntHalf .. IntHalf - 1
  <2>1. m % b \in Int /\ 0 <= m % b /\ m % b <= b - 1
    BY <1>1, <1>4
  <2> QED BY <1>1, <1>2, <2>1
<1> QED BY <1>4, <1>5, <1>6 DEF b, StandsFor

LEMMA SizesAreInts ==
    ASSUME request \in Requests \cup {NoRequest}, request.cmd = "w24fz", Len(request.sizes) >= 2
    PROVE  /\ sz_min \in -IntHalf .. IntHalf - 1 /\ StandsFor(sz_min, request.sizes[1].value)
           /\ sz_max \in -IntHalf .. IntHalf - 1 /\ StandsFor(sz_max, request.sizes[2].value)
           /\ sz_min \in Int /\ sz_max \in Int
<1>1. request.sizes \in SizeTexts \X SizeTexts
  BY RequestIs
<1>2. request.sizes[1].value \in Nat /\ request.sizes[2].value \in Nat
  BY <1>1, SearchAssumption
<1>3. IntHalf \in Nat
  BY MatchingAssumption
<1>4. ASSUME NEW n \in Nat PROVE int(n) \in -IntHalf .. IntHalf - 1 /\ StandsFor(int(n), n)
                                  /\ int(n) \in Int
  <2>1. int(n) \in -IntHalf .. IntHalf - 1 /\ StandsFor(int(n), n)
    BY IntIs
  <2> QED BY <1>3, <2>1
<1>5. sz_min = int(request.sizes[1].value) /\ sz_max = int(request.sizes[2].value)
  BY DEF sz_min, sz_max, atoll
<1> QED BY <1>2, <1>4, <1>5

LEMMA MatchesStay ==
    ASSUME UNCHANGED request
    PROVE  \A f \in Files : Matches(f)' = Matches(f)
  BY DEF Matches, sz_min, sz_max

LEMMA RefusedStays == UNCHANGED request => Refused' = Refused /\ (InOrder => InOrder')
  BY DEF Refused, Numbers, InOrder, sz_min, sz_max

LEMMA SelectedNext == Inv /\ Selected /\ [Next]_vars => Selected'
<1> SUFFICES ASSUME Inv, Selected, [Next]_vars PROVE Selected'
  OBVIOUS
<1> USE DEF Answer, Die
<1>1. CASE UNCHANGED vars
  <2>1. (\A f \in Files : Matches(f)' = Matches(f)) /\ Refused' = Refused /\ (InOrder => InOrder')
    BY <1>1, MatchesStay, RefusedStays DEF vars
  <2> QED BY <1>1, <2>1 DEF vars, Selected
<1>2. CASE \E r \in Requests : Ask(r)
  BY <1>2 DEF Ask, Selected
<1>3. CASE Silence
  BY <1>3 DEF Silence, Selected
<1>4. CASE SecondFree \/ NameOverrun \/ ReadsBeyond
  BY <1>4 DEF SecondFree, NameOverrun, ReadsBeyond, Selected
<1>5. CASE EnterPlain \/ EnterExt
  <2>1. pc' \in {"idle", "nftw", "dead"} /\ (pc' = "idle" => reply'.tag = "404")
    BY <1>5 DEF EnterPlain, EnterExt
  <2>2. UNCHANGED request
    BY <1>5 DEF EnterPlain, EnterExt
  <2>3. pc' = "nftw" => ~Refused /\ InOrder
    <3>1. CASE EnterPlain
      <4>1. pc' = "nftw" => ~Refused /\
              ~(request.cmd = "w24fz" /\ (sz_min < 0 \/ sz_max < sz_min \/ sz_max < 0))
        BY <3>1 DEF EnterPlain
      <4>2. ASSUME request.cmd = "w24fz", ~Refused PROVE sz_min \in Int /\ sz_max \in Int
        <5>1. request \in Requests \cup {NoRequest} /\ Len(request.sizes) >= 2
          BY <4>2 DEF Inv, Types, Sets, Refused, Numbers
        <5> QED BY <4>2, <5>1, SizesAreInts
      <4> QED BY <4>1, <4>2 DEF InOrder
    <3>2. CASE EnterExt
      BY <3>2 DEF EnterExt, Frees, InOrder
    <3> QED BY <1>5, <3>1, <3>2
  <2>4. Refused' = Refused /\ (InOrder => InOrder')
    BY <2>2, RefusedStays
  <2> QED BY <2>1, <2>3, <2>4 DEF Selected
<1>6. CASE WalkFails
  <2>1. pc' \in {"idle", "dead"} /\ (pc' = "idle" => reply'.tag = "404")
    BY <1>6 DEF WalkFails
  <2> QED BY <2>1 DEF Selected
<1>7. CASE WalkBegins
  <2>1. pc = "nftw" /\ pc' = "walk" /\ todo' = Files /\ copied' = {} /\ UNCHANGED request
    BY <1>7 DEF WalkBegins, Inv, NotMet
  <2>2. Refused' = Refused /\ (InOrder => InOrder')
    BY <2>1, RefusedStays
  <2> QED BY <2>1, <2>2 DEF Selected
<1>8. CASE Visit
  <2>1. PICK f \in todo :
          /\ pc = "walk"
          /\ IF Matches(f)
             THEN /\ copied' = copied \cup {f}
                  /\ IF request.cmd = "w24fn" THEN AnswerName(f)
                                              ELSE Copies /\ todo' = todo \ {f}
             ELSE todo' = todo \ {f} /\ UNCHANGED <<pc, memory, copied, fds, reply, why>>
          /\ UNCHANGED <<request, entered>>
    BY <1>8 DEF Visit
  <2>2. todo \subseteq Files /\ reply.tag = "none"
    BY <2>1 DEF Inv, Types, Sets, Ends
  <2>3. (\A g \in Files : Matches(g)' = Matches(g)) /\ Refused' = Refused /\ (InOrder => InOrder')
    BY <2>1, MatchesStay, RefusedStays
  <2>4. CASE request.cmd = "w24fn"
    BY <2>1, <2>2, <2>3, <2>4 DEF AnswerName, Selected
  <2>5. CASE request.cmd # "w24fn"
    <3>1. todo' = todo \ {f} /\ pc' \in {"walk", "dead"}
      BY <2>1, <2>5 DEF Copies
    <3>2. copied' = {g \in Files \ todo' : Matches(g)}
      <4>1. copied = {g \in Files \ todo : Matches(g)}
        BY <2>1, <2>5 DEF Selected
      <4>2. copied' = IF Matches(f) THEN copied \cup {f} ELSE copied
        BY <2>1
      <4> QED BY <2>1, <2>2, <3>1, <4>1, <4>2
    <3> QED BY <2>1, <2>3, <3>1, <3>2 DEF Selected
  <2> QED BY <2>4, <2>5
<1>9. CASE WalkEnds
  <2>1. pc = "walk" /\ todo = {} /\ UNCHANGED <<request, copied, reply>> /\ pc' \in {"tar", "dead"}
        /\ (pc' = "tar" => request.cmd # "w24fn")
    BY <1>9 DEF WalkEnds
  <2>2. (\A f \in Files : Matches(f)' = Matches(f)) /\ Refused' = Refused /\ (InOrder => InOrder')
    BY <2>1, MatchesStay, RefusedStays
  <2> QED BY <2>1, <2>2 DEF Selected
<1>10. CASE TarFails \/ TarEnds \/ SendEnds
  <2>1. /\ pc \in {"tar", "send"} /\ pc' \in {"send", "idle"}
        /\ UNCHANGED <<request, copied>>
    BY <1>10 DEF TarFails, TarEnds, SendEnds
  <2>2. (\A f \in Files : Matches(f)' = Matches(f)) /\ Refused' = Refused /\ (InOrder => InOrder')
    BY <2>1, MatchesStay, RefusedStays
  <2> QED BY <2>1, <2>2 DEF Selected
<1> QED BY <1>1, <1>2, <1>3, <1>4, <1>5, <1>6, <1>7, <1>8, <1>9, <1>10 DEF Next, Step

LEMMA VerifiedNext == Inv /\ Verified /\ [Next]_vars => Verified'
<1> SUFFICES ASSUME Inv, Verified, [Next]_vars PROVE Verified'
  OBVIOUS
<1> USE DEF Answer, Die
<1>1. CASE UNCHANGED vars
  BY <1>1 DEF vars, Verified
<1>2. ASSUME NEW r \in Requests, Ask(r) PROVE Verified'
  <2>1. CASE verify_input(r)
    BY <1>2, <2>1 DEF Ask, verify_input, Verified
  <2>2. CASE ~verify_input(r)
    <3>1. r.cmd \in {"w24fdb", "w24fda"} => r.cmd # "w24fz"
      OBVIOUS
    <3> QED BY <1>2, <2>2, <3>1 DEF Ask, verify_input, Verified
  <2> QED BY <2>1, <2>2
<1>3. CASE Step
  <2>1. ASSUME pc # "idle", UNCHANGED request, reply'.tag # "refused" PROVE Verified'
    BY <2>1 DEF Verified
  <2>2. CASE Silence
    BY <2>1, <2>2 DEF Silence, Verified
  <2>8. CASE SecondFree
    BY <2>1, <2>8 DEF SecondFree, Verified
  <2>9. CASE NameOverrun
    BY <2>1, <2>9 DEF NameOverrun, Verified
  <2>6. CASE EnterPlain
    <3>1. reply'.tag \in {reply.tag, "404"}
      BY <2>6 DEF EnterPlain
    <3> QED BY <2>1, <2>6, <3>1 DEF EnterPlain, Verified
  <2>7. CASE EnterExt
    BY <2>1, <2>7 DEF EnterExt, Verified
  <2>3. CASE WalkFails \/ WalkBegins \/ ReadsBeyond \/ WalkEnds
    BY <2>1, <2>3 DEF WalkFails, WalkBegins, ReadsBeyond, WalkEnds, Verified
  <2>4. CASE Visit
    BY <2>1, <2>4 DEF Visit, AnswerName, Copies, Verified
  <2>5. CASE TarFails \/ TarEnds \/ SendEnds
    BY <2>1, <2>5 DEF TarFails, TarEnds, SendEnds, Failure, Verified
  <2> QED BY <1>3, <2>2, <2>3, <2>4, <2>5, <2>6, <2>7, <2>8, <2>9 DEF Step
<1> QED BY <1>1, <1>2, <1>3 DEF Next

\* The types: above all a child never has more than MaxFds descriptors, and never closes one
\* it has not opened (srvrutil.h:119-122, fileutil.h:506).
THEOREM SearchTypes == Spec => []TypeOK
<1>1. Inv => TypeOK
  BY DEF Inv, Types, Words, Sets, Replies, Counts, TypeOK
<1> QED BY <1>1, Invariant, PTL

\* f_path_tracker dangles between searches (fileutil.h:138, 189, 254, 555), but no callback
\* ever writes to it, or to the details, before this search has allocated them anew.
THEOREM NoWriteToFreed == Spec => []WritesLive
<1>1. Inv => WritesLive
  BY DEF Inv, Pointers, WritesLive
<1> QED BY <1>1, Invariant, PTL

\* Only w24ft leaks a descriptor (fileutil.h:506), one each time, and the child cannot die
\* of it before fewer than three are left.
THEOREM OneEach == Spec => []DescriptorsKept
<1>1. Inv => DescriptorsKept
  BY DEF Inv, Descriptors, DescriptorsKept
<1> QED BY <1>1, Invariant, PTL

\* In whatever order the walk meets the files, w24fn is answered with a file of the name, and
\* the child dies at srvrutil.h:238 only if there is none.
THEOREM FindsTheName == Spec => []NameFound
<1>1. Inv => NameFound
  BY DEF Inv
<1> QED BY <1>1, Invariant, PTL

\* The two halves of ArchiveSelects.
BySize == \E min, max \in 0 .. IntHalf - 1 :
    /\ StandsFor(min, request.sizes[1].value)
    /\ StandsFor(max, request.sizes[2].value)
    /\ min <= max
    /\ copied = {f \in Files : min <= File[f].size /\ File[f].size <= max}
ByExtension ==
    copied = {f \in Files : /\ File[f].long
                            /\ \/ File[f].ext \in request.exts
                               \/ File[f].ext = "none" /\ File[f].above \in request.exts}

\* Of every search by size or by extension that is answered with an archive the copies are the
\* files the handler has taken the request for and no others, in whatever order the walk meets
\* them and whatever was searched before: with sizes reduced modulo 2^32 (srvrutil.h), and, where
\* a name has no period, with the rest of the path behind the period of a directory
\* (stringutils.h, extcmp).
THEOREM SelectsMatches == Spec => []ArchiveSelects
<1>1. Inv /\ Selected => ArchiveSelects
  <2> SUFFICES ASSUME Inv, Selected, pc = "idle", reply.tag = "TAR"
               PROVE  /\ request.cmd = "w24fz" => BySize
                      /\ request.cmd = "w24ft" => ByExtension
    BY DEF ArchiveSelects, Done, BySize, ByExtension
  <2>1. copied = {f \in Files : Matches(f)} /\ request \in Requests \cup {NoRequest}
    BY DEF Selected, Inv, Types, Sets
  <2>2. ASSUME request.cmd = "w24fz" PROVE BySize
    <3>1. Len(request.sizes) >= 2
      BY <2>2 DEF Selected, Refused, Numbers
    <3>2. 0 <= sz_min /\ sz_min <= sz_max
      BY <2>2 DEF Selected, InOrder
    <3>3. sz_min \in 0 .. IntHalf - 1 /\ sz_max \in 0 .. IntHalf - 1
      <4>1. IntHalf \in Nat
        BY MatchingAssumption
      <4> QED BY <2>1, <2>2, <3>1, <3>2, <4>1, SizesAreInts
    <3>4. copied = {f \in Files : sz_min <= File[f].size /\ File[f].size <= sz_max}
      <4>1. \A f \in Files : File[f].size \in Nat
        BY SearchAssumption
      <4> QED BY <2>1, <2>2, <3>3, <4>1 DEF Matches, InRange
    <3>5. /\ StandsFor(sz_min, request.sizes[1].value)
          /\ StandsFor(sz_max, request.sizes[2].value)
      BY <2>1, <2>2, <3>1, SizesAreInts
    <3> QED BY <3>2, <3>3, <3>4, <3>5 DEF BySize
  <2>3. ASSUME request.cmd = "w24ft" PROVE ByExtension
    <3>1. request.exts \subseteq ExtTexts /\ "none" \notin ExtTexts
      BY <2>1, <2>3, RequestIs, SearchAssumption
    <3>2. \A f \in Files : File[f].long \in BOOLEAN
      BY SearchAssumption
    <3>3. ASSUME NEW f \in Files
          PROVE  Matches(f) <=> /\ File[f].long
                                /\ \/ File[f].ext \in request.exts
                                   \/ File[f].ext = "none" /\ File[f].above \in request.exts
      BY <2>3, <3>1, <3>2 DEF Matches, extcmp
    <3> QED BY <2>1, <3>3 DEF ByExtension
  <2> QED BY <2>2, <2>3
<1>2. Init => Selected
  BY DEF Init, Selected, NoReply
<1> QED BY <1>1, <1>2, InvInit, InvNext, SelectedNext, PTL DEF Spec

\* For every day on which the client runs, its validate_date (main.c), with its table of months
\* and its rule of leap years, refuses, of what its strptime reads, exactly what is no date of
\* the calendar or lies ahead.
THEOREM DatesOfTheCalendar == Spec => []DatesAreReal
<1>1. Inv /\ Verified => DatesAreReal
  <2> SUFFICES ASSUME Inv, Verified, request.cmd \in {"w24fdb", "w24fda"},
                      request.date.style = "digits"
               PROVE  reply.tag # "refused" <=> LET d == request.date IN
                         /\ d.month \in 1 .. 12 /\ d.day \in 1 .. DaysIn(d)
                         /\ DayNumber(d) <= DayNumber(Today)
    BY DEF DatesAreReal
  <2>1. request.date \in DateTexts
    BY RequestIs DEF Inv, Types, Sets
  <2> QED BY <2>1, ValidDates DEF Verified
<1>2. Init => Verified
  BY DEF Init, Verified, NoReply, NoRequest
<1> QED BY <1>1, <1>2, InvInit, InvNext, VerifiedNext, PTL DEF Spec

=============================================================================
