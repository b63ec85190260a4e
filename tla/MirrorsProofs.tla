--------------------------- MODULE MirrorsProofs ---------------------------
(***************************************************************************)
(* Theorems about Mirrors, for any number of clients, any starting counts, *)
(* and with or without failing system calls.                               *)
(***************************************************************************)
EXTENDS Mirrors, FiniteSetTheorems, SequenceTheorems, TLAPS

(***************************************************************************)
(* The arithmetic of the balance.                                          *)
(***************************************************************************)

\* The rule of start_server and redirect_to_mirror names a server's own slot or one of
\* the two mirrors, for every count.
LEMMA IndexRange == ASSUME NEW n \in Nat PROVE srvr_idx(n) \in Servers
<1>1. n % 9 \in 0 .. 8
  OBVIOUS
<1>2. QED
  BY <1>1 DEF srvr_idx, Servers

\* no_of_clients is advanced by one and starts again at 0 when it would reach INT_MAX.
LEMMA CountedNext == ASSUME NEW n \in 0 .. IntMax - 1
                     PROVE  /\ (n + 1) % IntMax \in 0 .. IntMax - 1
                            /\ (n + 1) % IntMax = IF n + 1 = IntMax THEN 0 ELSE n + 1
<1>1. IntMax \in Nat /\ IntMax > 0
  BY MirrorsAssumption
<1>2. CASE n + 1 = IntMax
  BY <1>1, <1>2
<1>3. CASE n + 1 # IntMax
  <2>1. n + 1 \in 0 .. IntMax - 1
    BY <1>1, <1>3
  <2>2. QED
    BY <1>1, <1>3, <2>1
<1>4. QED
  BY <1>2, <1>3

Rows == [kept : Nat, sent : Nat]

\* The nine remainders, and what one connection more makes of each.
LEMMA Remainders == ASSUME NEW n \in Nat
                    PROVE  /\ n % 9 \in 0 .. 8
                           /\ (n + 1) % 9 = IF n % 9 = 8 THEN 0 ELSE (n % 9) + 1
                           /\ srvr_idx(n) = 0 <=> n % 9 \in 0 .. 2
                           /\ n <= 8 => n % 9 = n
BY DEF srvr_idx

LEMMA RowTypes == ASSUME NEW n \in Nat, NEW row \in Rows, NEW kept \in BOOLEAN
                  PROVE  Turn(n) \in Rows /\ OneMore(row, kept) \in Rows
<1>1. n % 9 \in 0 .. 8
  BY Remainders
<1>2. /\ (IF n % 9 <= 3 THEN n % 9 ELSE 0) \in Nat
      /\ (IF n % 9 > 3 THEN (n % 9) - 3 ELSE IF n % 9 = 0 /\ n # 0 THEN 6 ELSE 0) \in Nat
  BY <1>1
<1>3. Turn(n) \in Rows
  BY <1>2 DEF Turn, Rows
<1>4. row.kept + 1 \in Nat /\ row.sent + 1 \in Nat
  BY DEF Rows
<1>5. OneMore(row, kept) \in Rows
  BY <1>4 DEF OneMore, Rows
<1>6. QED
  BY <1>3, <1>5

\* The closed form follows the rule: one connection more is kept exactly when the rule keeps it.
LEMMA TurnNext == ASSUME NEW n \in Nat
                  PROVE  OneMore(Turn(n), srvr_idx(n) = 0) = Turn(n + 1)
<1> DEFINE r == n % 9
<1>1. /\ r \in 0 .. 8 /\ (n + 1) % 9 = IF r = 8 THEN 0 ELSE r + 1
      /\ srvr_idx(n) = 0 <=> r \in 0 .. 2
  BY Remainders
<1>2. n + 1 # 0
  OBVIOUS
<1>3. Turn(n).kept = (IF r <= 3 THEN r ELSE 0)
      /\ Turn(n).sent = (IF r > 3 THEN r - 3 ELSE IF r = 0 /\ n # 0 THEN 6 ELSE 0)
  BY DEF Turn
<1>4. CASE r \in 0 .. 2
  <2>1. (n + 1) % 9 = r + 1 /\ r + 1 \in 1 .. 3
    BY <1>1, <1>4
  <2>2. Turn(n + 1) = [kept |-> r + 1, sent |-> 0]
    BY <2>1 DEF Turn
  <2>3. OneMore(Turn(n), srvr_idx(n) = 0) = [kept |-> r + 1, sent |-> 0]
    BY <1>1, <1>3, <1>4 DEF OneMore
  <2>4. QED
    BY <2>2, <2>3
<1>5. CASE r \in 3 .. 7
  <2>1. (n + 1) % 9 = r + 1 /\ r + 1 \in 4 .. 8
    BY <1>1, <1>5
  <2>2. Turn(n + 1) = [kept |-> 0, sent |-> (r + 1) - 3]
    BY <2>1 DEF Turn
  <2>3. OneMore(Turn(n), srvr_idx(n) = 0) = [kept |-> 0, sent |-> Turn(n).sent + 1]
    BY <1>1, <1>5 DEF OneMore
  <2>4. Turn(n).sent + 1 = (r + 1) - 3
    BY <1>3, <1>5
  <2>5. QED
    BY <2>2, <2>3, <2>4
<1>6. CASE r = 8
  <2>1. Turn(n + 1) = [kept |-> 0, sent |-> 6]
    BY <1>1, <1>2, <1>6 DEF Turn
  <2>2. OneMore(Turn(n), srvr_idx(n) = 0) = [kept |-> 0, sent |-> 6]
    BY <1>1, <1>3, <1>6 DEF OneMore
  <2>3. QED
    BY <2>1, <2>2
<1>7. QED
  BY <1>1, <1>4, <1>5, <1>6

\* So does the form behind a wrap, as long as the count has kept no more than three.
LEMMA WrappedNext == ASSUME NEW n \in 0 .. 3
                     PROVE  OneMore(Wrapped(n), srvr_idx(n) = 0) =
                                IF n = 3 THEN Turn(4) ELSE Wrapped(n + 1)
<1>1. IntMax \in Nat /\ IntMax >= 9 /\ IntMax # 0
  BY MirrorsAssumption
<1> DEFINE q == IntMax % 9
<1>2. q \in 0 .. 8
  BY <1>1, Remainders
<1>3. /\ Turn(1) = [kept |-> 1, sent |-> 0] /\ Turn(2) = [kept |-> 2, sent |-> 0]
      /\ Turn(3) = [kept |-> 3, sent |-> 0] /\ Turn(4) = [kept |-> 0, sent |-> 1]
  BY DEF Turn
<1>4. /\ Wrapped(1) = [kept |-> 1 + Shift, sent |-> 0]
      /\ Wrapped(2) = [kept |-> 2 + Shift, sent |-> 0]
      /\ Wrapped(3) = [kept |-> 3 + Shift, sent |-> 0]
  BY <1>3 DEF Wrapped
<1>5. Shift = (IF q \in 1 .. 3 THEN q ELSE 0) /\ Shift \in Nat
  BY <1>2 DEF Shift
<1>6. Wrapped(0).kept = Shift
  BY <1>1, <1>2, <1>5 DEF Wrapped, Turn
<1>7. srvr_idx(0) = 0 /\ srvr_idx(1) = 0 /\ srvr_idx(2) = 0 /\ srvr_idx(3) # 0
  BY DEF srvr_idx
<1>8. CASE n = 0
  BY <1>8, <1>4, <1>5, <1>6, <1>7 DEF OneMore
<1>9. CASE n = 1
  BY <1>9, <1>4, <1>5, <1>7 DEF OneMore
<1>10. CASE n = 2
  BY <1>10, <1>4, <1>5, <1>7 DEF OneMore
<1>11. CASE n = 3
  <2>1. OneMore(Wrapped(3), FALSE) = [kept |-> 0, sent |-> 1]
    BY <1>4 DEF OneMore
  <2>2. QED
    BY <1>11, <1>3, <1>7, <2>1
<1>12. QED
  BY <1>8, <1>9, <1>10, <1>11

-----------------------------------------------------------------------------
\* The texts the two conversions exchange, and what they read as.
LEMMA Conversions == ASSUME NEW n \in Servers, NEW char \in ulong_to_string(n)
                     PROVE  /\ char \in Chars
                            /\ atoi(char) \in 0 .. 9
                            /\ n # 0 => char = n /\ atoi(char) = n
BY DEF Servers, ulong_to_string, atoi, Chars, NonDigit

-----------------------------------------------------------------------------
(***************************************************************************)
(* Types.  That counter stays an index of a server needs that a client told *)
(* "BSY" finds the index of a mirror behind it.                            *)
(***************************************************************************)
NamesMirror == \A c \in Clients : told[c] = "BSY" => redirect_to[c] \in Servers \ {0}

TypeInv == TypeOK /\ NamesMirror

LEMMA ServerZero == 0 \in Servers
BY DEF Servers

LEMMA NonDigitIsChar == NonDigit \in Chars
BY DEF NonDigit, Chars

LEMMA HopsCount == ASSUME NEW n \in 0 .. HopCap
                   PROVE  /\ 0 \in 0 .. HopCap
                          /\ (IF n < HopCap THEN n + 1 ELSE n) \in 0 .. HopCap
BY MirrorsAssumption

LEMMA TypeInit == Init => TypeInv
<1> SUFFICES ASSUME Init PROVE TypeInv
  OBVIOUS
<1>1. no_of_clients \in [Servers -> 0 .. IntMax - 1]
  BY MirrorsAssumption DEF Init
<1>2. rows \in [Servers -> Rows]
  <2>1. \A n \in Nat : Turn(n) \in Rows
    <3>1. [kept |-> 0, sent |-> 0] \in Rows
      BY DEF Rows
    <3>2. QED
      BY <3>1, RowTypes
  <2>2. \A s \in Servers : Turn(no_of_clients[s]) \in Rows
    BY <1>1, <2>1
  <2>3. QED
    BY <2>2 DEF Init
<1>3. queue \in [Servers -> Seq(Clients)]
  BY EmptySeq DEF Init
<1>4. hops \in [Clients -> 0 .. HopCap]
  <2>1. 0 \in 0 .. HopCap
    BY MirrorsAssumption
  <2>2. QED
    BY <2>1 DEF Init
<1>5. counter \in [Clients -> Servers] /\ ppid \in [Clients -> Servers]
  BY ServerZero DEF Init
<1>6. redirect_to \in [Clients -> Chars]
  BY NonDigitIsChar DEF Init
<1>7. TypeOK
  BY <1>1, <1>2, <1>3, <1>4, <1>5, <1>6 DEF Init, TypeOK, Rows
<1>8. NamesMirror
  BY DEF Init, NamesMirror
<1>9. QED
  BY <1>7, <1>8 DEF TypeInv

LEMMA TypeDequeue == ASSUME TypeInv, NEW s \in Servers, NEW c \in Clients, Accepts(s, c)
                     PROVE  (queue \in [Servers -> Seq(Clients)])'
<1>1. /\ queue \in [Servers -> Seq(Clients)] /\ queue[s] # <<>>
      /\ queue' = [queue EXCEPT ![s] = Tail(@)]
  BY DEF TypeInv, TypeOK, Accepts
<1>2. Tail(queue[s]) \in Seq(Clients)
  BY <1>1, HeadTailProperties
<1>3. QED
  BY <1>1, <1>2

LEMMA TypeAcceptLocal == ASSUME TypeInv, NEW s \in Servers, AcceptLocal(s) PROVE TypeInv'
<1> USE DEF TypeInv, TypeOK
<1>1. PICK c \in Clients : AcceptLocal(s)!(c)
  BY DEF AcceptLocal
<1>2. (queue \in [Servers -> Seq(Clients)])'
  BY <1>1, TypeDequeue
<1>3. (forking \in [Servers -> Clients \cup {NoClient}] /\ held \in [Servers -> SUBSET Clients])'
  BY <1>1
<1>4. (fds \in [Clients -> SUBSET Clients])'
  BY <1>1, <1>3
<1>5. (told \in [Clients -> {"nothing", "CTS", "BSY"}] /\ NamesMirror)'
  BY <1>1 DEF NamesMirror
<1>6. QED
  BY <1>1, <1>2, <1>3, <1>4, <1>5

LEMMA TypeCount == ASSUME TypeInv, NEW s \in Servers, NEW kept \in BOOLEAN,
                          CountConnection(s, kept)
                   PROVE  /\ (no_of_clients \in [Servers -> 0 .. IntMax - 1])'
                          /\ (rows \in [Servers -> [kept : Nat, sent : Nat]])'
<1>1. no_of_clients[s] \in 0 .. IntMax - 1 /\ rows[s] \in Rows
  BY DEF TypeInv, TypeOK, Rows
<1>2. Counted(s) \in 0 .. IntMax - 1
  BY <1>1, CountedNext DEF Counted
<1>3. OneMore(rows[s], kept) \in [kept : Nat, sent : Nat]
  <2>1. 0 \in Nat
    OBVIOUS
  <2>2. QED
    BY <1>1, <2>1, RowTypes DEF Rows
<1>4. QED
  BY <1>2, <1>3 DEF TypeInv, TypeOK, CountConnection

LEMMA TypeParentResume == ASSUME TypeInv, NEW s \in Servers, ParentResume(s) PROVE TypeInv'
<1>1. /\ (no_of_clients \in [Servers -> 0 .. IntMax - 1])'
      /\ (rows \in [Servers -> [kept : Nat, sent : Nat]])'
  BY TypeCount DEF ParentResume
<1>2. QED
  BY <1>1 DEF TypeInv, TypeOK, NamesMirror, ParentResume, AfterClose, AfterWait, childVars,
              clientVars

LEMMA TypeAcceptRedirect == ASSUME TypeInv, NEW s \in Servers, AcceptRedirect(s) PROVE TypeInv'
<1>1. PICK c \in Clients : AcceptRedirect(s)!(c)
  BY DEF AcceptRedirect
<1>2. PICK char \in ulong_to_string(srvr_idx(no_of_clients[s])) :
          redirect_to' = [redirect_to EXCEPT ![c] = char]
  BY <1>1
<1>3. no_of_clients[s] \in Nat
  <2>1. no_of_clients[s] \in 0 .. IntMax - 1
    BY DEF TypeInv, TypeOK
  <2>2. QED
    BY <2>1
<1>4. char \in Chars /\ char \in Servers \ {0}
  BY <1>1, <1>3, IndexRange, Conversions DEF Servers
<1>5. /\ (no_of_clients \in [Servers -> 0 .. IntMax - 1])'
      /\ (rows \in [Servers -> [kept : Nat, sent : Nat]])'
  BY <1>1, TypeCount
<1>6. (queue \in [Servers -> Seq(Clients)])'
  BY <1>1, TypeDequeue
<1>7. (redirect_to \in [Clients -> Chars] /\ NamesMirror)'
  BY <1>1, <1>2, <1>4 DEF TypeInv, TypeOK, NamesMirror
<1>8. (told \in [Clients -> {"nothing", "CTS", "BSY"}])'
  BY <1>1 DEF TypeInv, TypeOK
<1>9. QED
  BY <1>1, <1>5, <1>6, <1>7, <1>8 DEF TypeInv, TypeOK, childVars

LEMMA TypeFaults == ASSUME TypeInv, NEW s \in Servers, ServerFault(s) PROVE TypeInv'
<1> USE DEF TypeInv, TypeOK
<1>1. CASE AcceptFails(s)
  <2>1. (queue \in [Servers -> Seq(Clients)])'
    BY <1>1, EmptySeq DEF AcceptFails
  <2>2. QED
    BY <1>1, <2>1 DEF AcceptFails, ServerExit, childVars, NamesMirror
<1>2. CASE ForkFails(s)
  <2>1. PICK c \in Clients : ForkFails(s)!(c)
    BY <1>2 DEF ForkFails
  <2>2. (queue \in [Servers -> Seq(Clients)])'
    BY <2>1, EmptySeq
  <2>3. (told \in [Clients -> {"nothing", "CTS", "BSY"}])'
    BY <2>1
  <2>4. NamesMirror'
    BY <2>1 DEF NamesMirror, ServerExit
  <2>5. QED
    BY <2>1, <2>2, <2>3, <2>4 DEF ServerExit, childVars
<1>3. QED
  BY <1>1, <1>2 DEF ServerFault

LEMMA TypeChildEnds == ASSUME TypeInv, NEW c \in Clients, ChildEnds(c) PROVE TypeInv'
<1> USE DEF TypeInv, TypeOK, ChildEnds
<1>1. ppid[c] \in Servers /\ zombies[ppid[c]] \in Nat
  OBVIOUS
<1>2. (IF ppid[c] \in up THEN zombies[ppid[c]] + 1 ELSE zombies[ppid[c]]) \in Nat
  <2> HIDE DEF TypeInv, TypeOK, ChildEnds
  <2>1. QED
    BY <1>1
<1>3. (zombies \in [Servers -> Nat])'
  BY <1>2
<1>4. (child \in [Clients -> {"none", "running", "ended"}] /\ fds \in [Clients -> SUBSET Clients])'
  OBVIOUS
<1>5. NamesMirror'
  BY DEF NamesMirror, clientVars
<1>6. QED
  BY <1>3, <1>4, <1>5 DEF clientVars

LEMMA TypeConnecting == ASSUME TypeInv, NEW c \in Clients, Connecting(c) PROVE TypeInv'
<1> USE DEF TypeInv, TypeOK
<1>1. CASE Connect(c)
  <2>1. (queue \in [Servers -> Seq(Clients)])'
    <3>1. /\ queue \in [Servers -> Seq(Clients)] /\ counter[c] \in Servers
          /\ queue' = [queue EXCEPT ![counter[c]] = Append(@, c)]
      BY <1>1 DEF Connect
    <3> HIDE DEF TypeInv, TypeOK
    <3>2. Append(queue[counter[c]], c) \in Seq(Clients)
      BY <3>1, AppendProperties
    <3>3. QED
      BY <3>1, <3>2
  <2>2. (cpc \in [Clients -> {"start", "recv", "prompt", "ended"}])'
    BY <1>1 DEF Connect
  <2>3. QED
    BY <1>1, <2>1, <2>2 DEF Connect, childVars, NamesMirror
<1>2. CASE ConnectRefused(c)
  BY <1>2 DEF ConnectRefused, serverVars, childVars, NamesMirror
<1>3. CASE ReadTag(c)
  <2>1. (told \in [Clients -> {"nothing", "CTS", "BSY"}] /\ NamesMirror)'
    BY <1>3 DEF ReadTag, NamesMirror
  <2>2. QED
    BY <1>3, <2>1 DEF ReadTag, AfterTag, serverVars, childVars
<1>4. CASE ReadRedirect(c)
  <2>1. atoi(redirect_to[c]) \in Servers
    <3>1. redirect_to[c] \in Servers \ {0}
      BY <1>4 DEF ReadRedirect, NamesMirror
    <3> HIDE DEF TypeInv, TypeOK
    <3>2. QED
      BY <3>1 DEF atoi, Servers, NonDigit
  <2>2. hops[c] \in 0 .. HopCap
    OBVIOUS
  <2>3. (IF hops[c] < HopCap THEN hops[c] + 1 ELSE hops[c]) \in 0 .. HopCap
    BY <2>2, HopsCount
  <2>4. (hops \in [Clients -> 0 .. HopCap] /\ counter \in [Clients -> Servers])'
    BY <1>4, <2>1, <2>3 DEF ReadRedirect
  <2>5. (told \in [Clients -> {"nothing", "CTS", "BSY"}] /\ NamesMirror)'
    BY <1>4 DEF ReadRedirect, NamesMirror
  <2>6. (redirect_to \in [Clients -> Chars])'
    BY <1>4, NonDigitIsChar DEF ReadRedirect
  <2>7. QED
    BY <1>4, <2>4, <2>5, <2>6 DEF ReadRedirect, AfterTag, serverVars, childVars
<1>5. CASE ReadReset(c)
  <2>1. (counter \in [Clients -> Servers])'
    BY <1>5, ServerZero DEF ReadReset
  <2>2. (cpc \in [Clients -> {"start", "recv", "prompt", "ended"}])'
    BY <1>5 DEF ReadReset, AfterTag
  <2>3. QED
    BY <1>5, <2>1, <2>2 DEF ReadReset, serverVars, childVars, NamesMirror
<1>6. CASE ReadShort(c)
  <2>1. (told \in [Clients -> {"nothing", "CTS", "BSY"}] /\ NamesMirror)'
    BY <1>6 DEF ReadShort, NamesMirror
  <2>2. (response_t \in [Clients -> {"", "CTS", "BSY", "C", "B"}])'
    BY <1>6 DEF ReadShort
  <2>3. (cpc \in [Clients -> {"start", "recv", "prompt", "ended"}])'
    BY <1>6 DEF ReadShort, AfterTag
  <2>4. (redirect_to \in [Clients -> Chars])'
    BY <1>6, NonDigitIsChar DEF ReadShort
  <2>5. QED
    BY <1>6, <2>1, <2>2, <2>3, <2>4 DEF ReadShort, serverVars, childVars
<1>7. QED
  BY <1>1, <1>2, <1>3, <1>4, <1>5, <1>6 DEF Connecting

LEMMA TypeUser == ASSUME TypeInv, NEW c \in Clients, Leave(c) \/ Rerun(c) PROVE TypeInv'
<1> USE DEF TypeInv, TypeOK
<1>1. CASE Leave(c)
  BY <1>1 DEF Leave, serverVars, childVars, NamesMirror
<1>2. CASE Rerun(c)
  <2>1. (counter \in [Clients -> Servers])'
    BY <1>2, ServerZero DEF Rerun
  <2>2. (hops \in [Clients -> 0 .. HopCap])'
    BY <1>2, HopsCount DEF Rerun
  <2>3. (child \in [Clients -> {"none", "running", "ended"}])'
    BY <1>2 DEF Rerun
  <2>4. (cpc \in [Clients -> {"start", "recv", "prompt", "ended"}])'
    BY <1>2 DEF Rerun
  <2>5. QED
    BY <1>2, <2>1, <2>2, <2>3, <2>4 DEF Rerun, serverVars, NamesMirror
<1>3. QED
  BY <1>1, <1>2

LEMMA TypeStep == TypeInv /\ [Next]_vars => TypeInv'
<1> SUFFICES ASSUME TypeInv, [Next]_vars PROVE TypeInv'
  OBVIOUS
<1>1. ASSUME NEW s \in Servers, Server(s) \/ ServerFault(s) PROVE TypeInv'
  BY <1>1, TypeAcceptLocal, TypeParentResume, TypeAcceptRedirect, TypeFaults DEF Server
<1>2. ASSUME NEW c \in Clients, ChildQuits(c) \/ ChildCrashes(c) PROVE TypeInv'
  BY <1>2, TypeChildEnds DEF ChildQuits, ChildCrashes
<1>3. ASSUME NEW c \in Clients, Connecting(c) \/ Leave(c) \/ Rerun(c) PROVE TypeInv'
  BY <1>3, TypeConnecting, TypeUser
<1>4. CASE UNCHANGED vars
  BY <1>4 DEF TypeInv, TypeOK, NamesMirror, vars, serverVars, childVars, clientVars
<1>5. QED
  BY <1>1, <1>2, <1>3, <1>4 DEF Next

\* Type correctness of the accept loops and of the connecting client, with the index a
\* "BSY" carries always that of a mirror.
THEOREM TypeCorrect == Spec => []TypeOK
<1>1. Spec => []TypeInv
  BY TypeInit, TypeStep, PTL DEF Spec
<1>2. TypeInv => TypeOK
  BY DEF TypeInv
<1>3. QED
  BY <1>1, <1>2, PTL

-----------------------------------------------------------------------------
(***************************************************************************)
(* Connections stay private to the child they were forked for.             *)
(***************************************************************************)
LEMMA PrivateStep == TypeInv /\ ConnectionsArePrivate /\ [Next]_vars => ConnectionsArePrivate'
<1> SUFFICES ASSUME TypeInv, ConnectionsArePrivate, [Next]_vars PROVE ConnectionsArePrivate'
  OBVIOUS
<1> USE DEF TypeInv, TypeOK, ConnectionsArePrivate
<1>1. ASSUME NEW s \in Servers, AcceptLocal(s) PROVE ConnectionsArePrivate'
  <2>1. PICK c \in Clients : AcceptLocal(s)!(c)
    BY <1>1 DEF AcceptLocal
  <2>2. held[s] = {} /\ c # NoClient
    BY <2>1, MirrorsAssumption DEF Accepts, AtAccept
  <2>3. held'[s] = {c}
    BY <2>1, <2>2
  <2>4. QED
    BY <2>1, <2>2, <2>3
<1>2. ASSUME NEW s \in Servers, ParentResume(s) PROVE ConnectionsArePrivate'
  BY <1>2 DEF ParentResume, AfterClose, childVars
<1>3. ASSUME NEW s \in Servers, AcceptRedirect(s) PROVE ConnectionsArePrivate'
  BY <1>3 DEF AcceptRedirect, childVars
<1>4. ASSUME NEW s \in Servers, ServerFault(s) PROVE ConnectionsArePrivate'
  <2>1. ServerExit(s) /\ AtAccept(s)
    BY <1>4 DEF ServerFault, AcceptFails, ForkFails
  <2>2. QED
    BY <2>1 DEF ServerExit, AtAccept, childVars
<1>5. ASSUME NEW c \in Clients, ChildEnds(c) PROVE ConnectionsArePrivate'
  BY <1>5 DEF ChildEnds
<1>6. ASSUME NEW c \in Clients, Connecting(c) \/ Leave(c) PROVE ConnectionsArePrivate'
  <2>1. UNCHANGED <<held, forking, fds, child>>
    BY <1>6 DEF Connecting, Connect, ConnectRefused, ReadTag, ReadRedirect, ReadShort, ReadReset,
                Leave, serverVars, childVars
  <2>2. QED
    BY <2>1
<1>7. ASSUME NEW c \in Clients, Rerun(c) PROVE ConnectionsArePrivate'
  BY <1>7 DEF Rerun, serverVars
<1>8. CASE UNCHANGED vars
  BY <1>8 DEF vars, serverVars, childVars
<1>9. QED
  BY <1>1, <1>2, <1>3, <1>4, <1>5, <1>6, <1>7, <1>8 DEF Next, Server, ChildQuits, ChildCrashes

\* Between two accepts a server holds no client socket, and a child holds its own
\* client's only: fork never leaks a connection, however accepts, forks, ends of
\* children and failing system calls interleave.
THEOREM Private == Spec => []ConnectionsArePrivate
<1>1. Init => ConnectionsArePrivate
  <2> SUFFICES ASSUME Init PROVE ConnectionsArePrivate
    OBVIOUS
  <2>1. \A s \in Servers : held[s] = {} /\ forking[s] = NoClient
    BY DEF Init
  <2>2. \A c \in Clients : fds[c] = {} /\ child[c] = "none"
    BY DEF Init
  <2>3. QED
    BY <2>1, <2>2 DEF ConnectionsArePrivate
<1>2. Spec => []TypeInv
  BY TypeInit, TypeStep, PTL DEF Spec
<1>3. QED
  BY <1>1, <1>2, PrivateStep, PTL DEF Spec

-----------------------------------------------------------------------------
(***************************************************************************)
(* The balance, over every wrap of the count.                              *)
(***************************************************************************)

\* LoadShare is inductive only with the reason why a server forks: its count is one of
\* the three it keeps, and stays so until the parent counts the connection.
ForksForItsShare == \A s \in Servers : forking[s] # NoClient => srvr_idx(no_of_clients[s]) = 0

ShareInv == LoadShare /\ ForksForItsShare

\* LoadShare, of one count and one row.
InTurn(n, row) == row = Turn(n) \/ (n <= 3 /\ row = Wrapped(n))

LEMMA StaysInTurn == ASSUME NEW n \in 0 .. IntMax - 1, NEW row, InTurn(n, row)
                     PROVE  InTurn((n + 1) % IntMax, OneMore(row, srvr_idx(n) = 0))
<1> DEFINE next == OneMore(row, srvr_idx(n) = 0)
<1>1. n \in Nat /\ IntMax \in Nat /\ IntMax >= 9
  BY MirrorsAssumption
<1>2. (n + 1) % IntMax = IF n + 1 = IntMax THEN 0 ELSE n + 1
  BY CountedNext
<1>3. CASE n + 1 = IntMax
  <2>1. ~(n <= 3)
    BY <1>1, <1>3
  <2>2. next = Turn(IntMax)
    BY <1>1, <1>3, <2>1, TurnNext DEF InTurn
  <2>3. QED
    BY <1>2, <1>3, <2>2 DEF InTurn, Wrapped
<1>4. CASE n + 1 # IntMax /\ row = Turn(n)
  <2>1. next = Turn(n + 1)
    BY <1>1, <1>4, TurnNext
  <2>2. QED
    BY <1>2, <1>4, <2>1 DEF InTurn
<1>5. CASE n + 1 # IntMax /\ n <= 3 /\ row = Wrapped(n)
  <2>1. n \in 0 .. 3
    BY <1>1, <1>5
  <2>2. next = IF n = 3 THEN Turn(4) ELSE Wrapped(n + 1)
    BY <1>5, <2>1, WrappedNext
  <2>3. CASE n = 3
    BY <1>2, <1>5, <2>2, <2>3 DEF InTurn
  <2>4. CASE n # 3
    <3>1. n + 1 <= 3
      BY <2>1, <2>4
    <3>2. QED
      BY <1>2, <1>5, <2>2, <2>4, <3>1 DEF InTurn
  <2>5. QED
    BY <2>3, <2>4
<1>6. QED
  BY <1>3, <1>4, <1>5 DEF InTurn

LEMMA ShareCounted == ASSUME TypeInv, LoadShare, NEW s \in Servers,
                             CountConnection(s, srvr_idx(no_of_clients[s]) = 0)
                      PROVE  LoadShare'
<1>1. no_of_clients[s] \in 0 .. IntMax - 1 /\ InTurn(no_of_clients[s], rows[s])
  BY DEF TypeInv, TypeOK, LoadShare, InTurn
<1>2. /\ no_of_clients'[s] = (no_of_clients[s] + 1) % IntMax
      /\ rows'[s] = OneMore(rows[s], srvr_idx(no_of_clients[s]) = 0)
  BY DEF CountConnection, Counted, TypeInv, TypeOK
<1>3. InTurn(no_of_clients'[s], rows'[s])
  BY <1>1, <1>2, StaysInTurn
<1>4. \A t \in Servers \ {s} : rows'[t] = rows[t] /\ no_of_clients'[t] = no_of_clients[t]
  BY DEF CountConnection, TypeInv, TypeOK
<1>5. \A t \in Servers : InTurn(no_of_clients'[t], rows'[t])
  <2>1. \A t \in Servers : InTurn(no_of_clients[t], rows[t])
    BY DEF LoadShare, InTurn
  <2>2. QED
    BY <2>1, <1>3, <1>4
<1>6. QED
  BY <1>5 DEF LoadShare, InTurn, Turn, Wrapped, Shift

LEMMA ShareStep == TypeInv /\ ShareInv /\ [Next]_vars => ShareInv'
<1> SUFFICES ASSUME TypeInv, ShareInv, [Next]_vars PROVE ShareInv'
  OBVIOUS
<1> USE DEF ShareInv
<1>1. ASSUME NEW s \in Servers, AcceptLocal(s) PROVE ShareInv'
  <2>1. PICK c \in Clients : AcceptLocal(s)!(c)
    BY <1>1 DEF AcceptLocal
  <2>2. QED
    BY <2>1 DEF LoadShare, ForksForItsShare, TypeInv, TypeOK
<1>2. ASSUME NEW s \in Servers, ParentResume(s) PROVE ShareInv'
  <2>1. srvr_idx(no_of_clients[s]) = 0
    BY <1>2 DEF ParentResume, ForksForItsShare
  <2>2. LoadShare'
    <3>1. (srvr_idx(no_of_clients[s]) = 0) = TRUE
      BY <2>1
    <3>2. QED
      BY <1>2, <3>1, ShareCounted DEF ParentResume
  <2>3. ForksForItsShare'
    BY <1>2 DEF ParentResume, CountConnection, ForksForItsShare, TypeInv, TypeOK
  <2>4. QED
    BY <2>2, <2>3
<1>3. ASSUME NEW s \in Servers, AcceptRedirect(s) PROVE ShareInv'
  <2>1. /\ srvr_idx(no_of_clients[s]) # 0 /\ forking[s] = NoClient
        /\ CountConnection(s, FALSE) /\ UNCHANGED forking
    BY <1>3 DEF AcceptRedirect, Accepts, AtAccept
  <2>2. LoadShare'
    <3>1. (srvr_idx(no_of_clients[s]) = 0) = FALSE
      BY <2>1
    <3>2. QED
      BY <2>1, <3>1, ShareCounted
  <2>3. ForksForItsShare'
    BY <2>1 DEF CountConnection, ForksForItsShare, TypeInv, TypeOK
  <2>4. QED
    BY <2>2, <2>3
<1>4. ASSUME UNCHANGED <<no_of_clients, forking, rows>> PROVE ShareInv'
  BY <1>4 DEF LoadShare, ForksForItsShare
<1>5. ASSUME NEW s \in Servers, ServerFault(s) PROVE ShareInv'
  BY <1>4, <1>5 DEF ServerFault, AcceptFails, ForkFails, ServerExit
<1>6. ASSUME NEW c \in Clients,
             ChildEnds(c) \/ Connecting(c) \/ Leave(c) \/ Rerun(c) PROVE ShareInv'
  BY <1>4, <1>6 DEF ChildEnds, Connecting, Connect, ConnectRefused, ReadTag, ReadRedirect,
                    ReadShort, ReadReset, Leave, Rerun, serverVars
<1>7. CASE UNCHANGED vars
  BY <1>4, <1>7 DEF vars, serverVars
<1>8. QED
  BY <1>1, <1>2, <1>3, <1>5, <1>6, <1>7 DEF Next, Server, ChildQuits, ChildCrashes

LEMMA ShareInit == Init => ShareInv
<1> SUFFICES ASSUME Init PROVE ShareInv
  OBVIOUS
<1>1. \A s \in Servers : rows[s] = Turn(no_of_clients[s]) /\ forking[s] = NoClient
  BY DEF Init
<1>2. QED
  BY <1>1 DEF ShareInv, LoadShare, ForksForItsShare

\* Whatever the interleaving, a server keeps three connections in a row and then sends six on,
\* but for the wrap of the count at INT_MAX, behind which it keeps up to three more (one more
\* where INT_MAX leaves the remainder 1), and is in step again as soon as it sends one on.
THEOREM Balance == Spec => []LoadShare
<1>1. Spec => []TypeInv
  BY TypeInit, TypeStep, PTL DEF Spec
<1>2. ShareInv => LoadShare
  BY DEF ShareInv
<1>3. QED
  BY <1>1, <1>2, ShareInit, ShareStep, PTL DEF Spec

=============================================================================
