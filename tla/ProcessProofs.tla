--------------------------- MODULE ProcessProofs ---------------------------
(***************************************************************************)
(* Theorems about two bounds of Mirrors, on the processes of a server and  *)
(* on the redirections of a client.                                        *)
(*                                                                         *)
(* Reaping ended children in the fork branch only is enough to bound the   *)
(* processes of a server.  The bound is inductive once it is known that a  *)
(* connection that is kept is of a client without a child (ServiceProofs,  *)
(* Placed): a fork adds one process and the reaping behind it takes all    *)
(* zombies away, and between two forks a child that ends only becomes a    *)
(* zombie.                                                                 *)
(***************************************************************************)
EXTENDS ServiceProofs, FiniteSetTheorems

LEMMA ChildrenFinite == ASSUME NEW s \in Servers
                        PROVE  /\ IsFiniteSet(Children(s))
                               /\ Cardinality(Children(s)) \in Nat
                               /\ Cardinality(Children(s)) <= Cardinality(Clients)
                               /\ Cardinality(Clients) \in Nat
<1>1. IsFiniteSet(Clients) /\ Children(s) \subseteq Clients
  BY MirrorsAssumption DEF Children
<1>2. QED
  BY <1>1, FS_Subset, FS_CardinalityType

\* The processes of one server: the conjunct of ProcessesBounded for it.
Bounded(s) == Cardinality(Children(s)) + zombies[s]
                  <= Cardinality(Clients) + (IF forking[s] = NoClient THEN 0 ELSE 1)

\* A server none of whose processes the step touches.
LEMMA BoundedKept == ASSUME NEW s \in Servers, Bounded(s),
                            zombies'[s] = zombies[s], forking'[s] = forking[s],
                            Children(s)' = Children(s)
                     PROVE  Bounded(s)'
BY DEF Bounded

\* AcceptLocal: the server had forked for nobody, and has one child more.
LEMMA BoundedFork == ASSUME TypeInv, ServiceInv, \A t \in Servers : Bounded(t),
                            NEW s \in Servers, AcceptLocal(s), NEW t \in Servers
                     PROVE  Bounded(t)'
<1>1. PICK c \in Clients : AcceptLocal(s)!(c)
  BY DEF AcceptLocal
<1>2. child[c] = "none"
  BY <1>1, Dequeues DEF ServiceInv, Placed
<1>3. /\ child' = [child EXCEPT ![c] = "running"] /\ ppid' = [ppid EXCEPT ![c] = s]
      /\ zombies' = zombies /\ forking' = [forking EXCEPT ![s] = c] /\ forking[s] = NoClient
  BY <1>1 DEF Accepts, AtAccept
<1>4. /\ child \in [Clients -> {"none", "running", "ended"}] /\ ppid \in [Clients -> Servers]
      /\ zombies \in [Servers -> Nat] /\ forking \in [Servers -> Clients \cup {NoClient}]
  BY DEF TypeInv, TypeOK
<1>5. CASE t = s
  <2>1. Children(s)' = Children(s) \cup {c} /\ c \notin Children(s)
    BY <1>2, <1>3, <1>4 DEF Children
  <2>2. Cardinality(Children(s)') = Cardinality(Children(s)) + 1
    BY <2>1, ChildrenFinite, FS_AddElement
  <2>3. forking'[s] # NoClient /\ zombies'[s] = zombies[s] /\ zombies[s] \in Nat
    BY <1>3, <1>4, MirrorsAssumption
  <2>4. Cardinality(Children(s)) + zombies[s] <= Cardinality(Clients)
    BY <1>3, ChildrenFinite DEF Bounded
  <2>5. Cardinality(Children(s)') + zombies'[s] <= Cardinality(Clients) + 1
    BY <2>2, <2>3, <2>4, ChildrenFinite
  <2>6. QED
    BY <1>5, <2>3, <2>5 DEF Bounded
<1>6. CASE t # s
  BY <1>2, <1>3, <1>4, <1>6, BoundedKept DEF Children
<1>7. QED
  BY <1>5, <1>6

\* ParentResume: no zombie is left, and no client has two children.
LEMMA BoundedReap == ASSUME TypeInv, \A t \in Servers : Bounded(t),
                            NEW s \in Servers, ParentResume(s), NEW t \in Servers
                     PROVE  Bounded(t)'
<1>1. /\ zombies' = [zombies EXCEPT ![s] = 0] /\ forking' = [forking EXCEPT ![s] = NoClient]
      /\ UNCHANGED <<child, ppid>>
  BY DEF ParentResume, AfterWait, childVars
<1>2. zombies \in [Servers -> Nat] /\ forking \in [Servers -> Clients \cup {NoClient}]
  BY DEF TypeInv, TypeOK
<1>3. Children(t)' = Children(t)
  BY <1>1 DEF Children
<1>4. CASE t = s
  BY <1>1, <1>2, <1>3, <1>4, ChildrenFinite DEF Bounded
<1>5. CASE t # s
  BY <1>1, <1>2, <1>3, <1>5, BoundedKept
<1>6. QED
  BY <1>4, <1>5

\* ChildEnds: a child becomes a zombie of the server that forked it, if that still runs.
LEMMA BoundedEnd == ASSUME TypeInv, \A t \in Servers : Bounded(t),
                           NEW c \in Clients, ChildEnds(c), NEW t \in Servers
                    PROVE  Bounded(t)'
<1>1. /\ child[c] = "running" /\ child' = [child EXCEPT ![c] = "ended"]
      /\ UNCHANGED <<ppid, forking>>
      /\ zombies' = [zombies EXCEPT ![ppid[c]] = IF ppid[c] \in up THEN @ + 1 ELSE @]
  BY DEF ChildEnds
<1>2. /\ child \in [Clients -> {"none", "running", "ended"}] /\ ppid \in [Clients -> Servers]
      /\ zombies \in [Servers -> Nat]
  BY DEF TypeInv, TypeOK
<1>3. CASE t = ppid[c]
  <2>1. Children(t)' = Children(t) \ {c} /\ c \in Children(t)
    BY <1>1, <1>2, <1>3 DEF Children
  <2>2. Cardinality(Children(t)') = Cardinality(Children(t)) - 1
    BY <2>1, ChildrenFinite, FS_RemoveElement
  <2>3. /\ zombies[t] \in Nat /\ zombies'[t] \in {zombies[t], zombies[t] + 1}
        /\ forking'[t] = forking[t]
    BY <1>1, <1>2, <1>3
  <2>4. Cardinality(Children(t)') + zombies'[t] <= Cardinality(Children(t)) + zombies[t]
    BY <2>2, <2>3, ChildrenFinite
  <2>5. Cardinality(Children(t)') + zombies'[t] \in Nat
    BY <2>1, <2>2, <2>3, ChildrenFinite, FS_EmptySet
  <2>6. QED
    BY <2>3, <2>4, <2>5, ChildrenFinite DEF Bounded
<1>4. CASE t # ppid[c]
  BY <1>1, <1>2, <1>4, BoundedKept DEF Children
<1>5. QED
  BY <1>3, <1>4

\* An exit of the server: its zombies go to init.
LEMMA BoundedExit == ASSUME TypeInv, \A t \in Servers : Bounded(t),
                            NEW s \in Servers, ServerFault(s), NEW t \in Servers
                     PROVE  Bounded(t)'
<1>1. zombies' = [zombies EXCEPT ![s] = 0] /\ UNCHANGED <<child, ppid, forking>>
  BY DEF ServerFault, AcceptFails, ForkFails, ServerExit, childVars
<1>2. zombies \in [Servers -> Nat]
  BY DEF TypeInv, TypeOK
<1>3. Children(t)' = Children(t)
  BY <1>1 DEF Children
<1>4. CASE t = s
  BY <1>1, <1>2, <1>3, <1>4, ChildrenFinite DEF Bounded
<1>5. CASE t # s
  BY <1>1, <1>2, <1>3, <1>5, BoundedKept
<1>6. QED
  BY <1>4, <1>5

LEMMA BoundedStep == /\ TypeInv /\ ServiceInv /\ ProcessesBounded
                     /\ [Next]_vars
                     => ProcessesBounded'
<1> SUFFICES ASSUME TypeInv, ServiceInv, ProcessesBounded, [Next]_vars,
                    NEW t \in Servers
             PROVE  Bounded(t)'
  BY DEF ProcessesBounded, Bounded
<1>1. \A s \in Servers : Bounded(s)
  BY DEF ProcessesBounded, Bounded
<1>2. ASSUME UNCHANGED <<zombies, forking>>, Children(t)' = Children(t) PROVE Bounded(t)'
  BY <1>1, <1>2, BoundedKept
<1>3. ASSUME NEW s \in Servers, Server(s) \/ ServerFault(s) PROVE Bounded(t)'
  <2>1. CASE AcceptRedirect(s)
    BY <1>2, <2>1 DEF AcceptRedirect, childVars, Children
  <2>2. QED
    BY <1>1, <1>3, <2>1, BoundedFork, BoundedReap, BoundedExit DEF Server
<1>4. ASSUME NEW c \in Clients, ChildQuits(c) \/ ChildCrashes(c) PROVE Bounded(t)'
  BY <1>1, <1>4, BoundedEnd DEF ChildQuits, ChildCrashes
<1>5. ASSUME NEW c \in Clients, Connecting(c) \/ Leave(c) PROVE Bounded(t)'
  <2>1. UNCHANGED <<zombies, forking, child, ppid>>
    BY <1>5 DEF Connecting, Connect, ConnectRefused, ReadTag, ReadRedirect, ReadShort, ReadReset,
                Leave, serverVars, childVars
  <2>2. QED
    BY <1>2, <2>1 DEF Children
<1>6. ASSUME NEW c \in Clients, Rerun(c) PROVE Bounded(t)'
  <2>1. /\ UNCHANGED <<zombies, forking, ppid>>
        /\ child[c] # "running" /\ child' = [child EXCEPT ![c] = "none"]
    BY <1>6 DEF Rerun, serverVars
  <2>2. child \in [Clients -> {"none", "running", "ended"}]
    BY DEF TypeInv, TypeOK
  <2>3. Children(t)' = Children(t)
    BY <2>1, <2>2 DEF Children
  <2>4. QED
    BY <1>2, <2>1, <2>3
<1>7. CASE UNCHANGED vars
  BY <1>2, <1>7 DEF vars, serverVars, childVars, Children
<1>8. QED
  BY <1>3, <1>4, <1>5, <1>6, <1>7 DEF Next

\* However many connections a server accepts, keeps or sends on, its running and ended
\* children are never more than the clients there are, and one while it forks.
THEOREM FewProcesses == Spec => []ProcessesBounded
<1>1. Init => ProcessesBounded
  <2> SUFFICES ASSUME Init, NEW s \in Servers PROVE Bounded(s)
    BY DEF ProcessesBounded, Bounded
  <2>1. zombies[s] = 0 /\ forking[s] = NoClient
    BY DEF Init
  <2>2. QED
    BY <2>1, ChildrenFinite DEF Bounded
<1>2. QED
  BY <1>1, ServiceAlways, BoundedStep, PTL DEF Spec

-----------------------------------------------------------------------------
(***************************************************************************)
(* The redirections of a client that is not served yet.  A mirror sends on *)
(* six connections and keeps three, so behind its first six it sends on    *)
(* six more only for every three other clients it has kept; and who is     *)
(* kept is not sent on again.                                              *)
(***************************************************************************)
\* The clients start once, at servers that do not exit.
StartOnce == Recurring = {} /\ Fallible = {}

\* Where a server is in its nine.
Phase(s) == no_of_clients[s] % 9

\* The clients it has kept and counted.
Kept(s) == {c \in Clients : child[c] # "none" /\ ppid[c] = s /\ c # forking[s]}

\* The server s may have sent on n connections: all of those of m turns, and some of the
\* turn it is in.  It has kept three before each turn but the first.
Turns(s, n, m) ==
    IF Phase(s) < 3
    THEN n <= 6 * m /\ (m = 0 \/ 3 * (m - 1) + Phase(s) <= Cardinality(Kept(s)))
    ELSE n <= 6 * m + (Phase(s) - 3) /\ 3 * m <= Cardinality(Kept(s))

Passed(s, n) == \E m \in Nat : Turns(s, n, m)

\* The redirections of a client, the one it has been told of but has not read included.
Redirected(c) == hops[c] + (IF told[c] = "BSY" THEN 1 ELSE 0)

\* The mirrors have sent on a and b connections, and the first server each client once.
Reached(a, b) ==
    /\ Passed(1, a)
    /\ Passed(2, b)
    /\ \A c \in Clients : child[c] = "none" => Redirected(c) <= 1 + a + b

HopInv ==
    /\ up = Servers
    /\ \A s \in Servers : forking[s] # NoClient =>
           child[forking[s]] # "none" /\ ppid[forking[s]] = s
    /\ HopsBounded
    /\ \E a, b \in Nat : Reached(a, b)

HopStart == StartOnce /\ TypeInv /\ ServiceInv /\ ForksForItsShare /\ HopInv

LEMMA PhaseNext == ASSUME NEW n \in 0 .. IntMax - 1
                   PROVE  /\ n % 9 \in 0 .. 8
                          /\ srvr_idx(n) = 0 <=> n % 9 < 3
                          /\ \/ ((n + 1) % IntMax) % 9 = 0
                             \/ n % 9 < 8 /\ ((n + 1) % IntMax) % 9 = (n % 9) + 1
<1>1. n \in Nat
  OBVIOUS
<1>2. n % 9 \in 0 .. 8 /\ (srvr_idx(n) = 0 <=> n % 9 < 3)
  BY <1>1 DEF srvr_idx
<1>3. (n + 1) % 9 = 0 \/ (n % 9 < 8 /\ (n + 1) % 9 = (n % 9) + 1)
  BY <1>1
<1>4. (n + 1) % IntMax = 0 \/ (n + 1) % IntMax = n + 1
  BY CountedNext
<1>5. 0 % 9 = 0
  OBVIOUS
<1>6. QED
  BY <1>2, <1>3, <1>4, <1>5

LEMMA HopsAreNumbers == ASSUME TypeInv PROVE hops \in [Clients -> Nat]
<1>1. hops \in [Clients -> 0 .. HopCap] /\ HopCap \in Nat
  BY MirrorsAssumption DEF TypeInv, TypeOK
<1>2. QED
  BY <1>1

LEMMA KeptFinite == ASSUME NEW s PROVE IsFiniteSet(Kept(s)) /\ Cardinality(Kept(s)) \in Nat
<1>1. IsFiniteSet(Clients) /\ Kept(s) \subseteq Clients
  BY MirrorsAssumption DEF Kept
<1>2. QED
  BY <1>1, FS_Subset, FS_CardinalityType

\* A step that accepts nobody, and tells nobody to go elsewhere who has not been told so.
LEMMA HopsKept == ASSUME TypeInv, HopInv,
                         UNCHANGED <<up, no_of_clients, forking, ppid>>,
                         \A c \in Clients : child'[c] = "none" <=> child[c] = "none",
                         HopsBounded',
                         \A c \in Clients : child[c] = "none" =>
                            \A n \in Nat : Redirected(c) <= n => Redirected(c)' <= n
                  PROVE  HopInv'
<1>1. \A s \in Servers : Kept(s)' = Kept(s)
  BY DEF Kept
<1>2. 1 \in Servers /\ 2 \in Servers
  BY DEF Servers
<1>3. \A n : (Passed(1, n)' <=> Passed(1, n)) /\ (Passed(2, n)' <=> Passed(2, n))
  BY <1>1, <1>2 DEF Passed, Turns, Phase
<1>4. PICK a \in Nat, b \in Nat : Reached(a, b)
  BY DEF HopInv
<1>5. Reached(a, b)'
  BY <1>3, <1>4 DEF Reached
<1>6. \A s \in Servers : forking'[s] # NoClient =>
          child'[forking'[s]] # "none" /\ ppid'[forking'[s]] = s
  <2>1. \A s \in Servers : forking[s] # NoClient => forking[s] \in Clients
    BY DEF TypeInv, TypeOK
  <2>2. QED
    BY <2>1 DEF HopInv
<1>7. QED
  BY <1>4, <1>5, <1>6 DEF HopInv

\* AcceptLocal: who is kept is not counted yet.
LEMMA HopAcceptLocal == ASSUME HopStart, NEW s \in Servers, AcceptLocal(s)
                        PROVE  HopInv'
<1> USE DEF HopStart
<1>1. PICK c \in Clients : AcceptLocal(s)!(c)
  BY DEF AcceptLocal
<1>2. child[c] = "none"
  BY <1>1, Dequeues DEF ServiceInv, Placed
<1>3. /\ child' = [child EXCEPT ![c] = "running"] /\ ppid' = [ppid EXCEPT ![c] = s]
      /\ forking' = [forking EXCEPT ![s] = c] /\ forking[s] = NoClient
      /\ told' = [told EXCEPT ![c] = "CTS"]
      /\ UNCHANGED <<up, no_of_clients, hops>>
  BY <1>1 DEF Accepts, AtAccept
<1>4. /\ child \in [Clients -> {"none", "running", "ended"}] /\ ppid \in [Clients -> Servers]
      /\ forking \in [Servers -> Clients \cup {NoClient}]
      /\ told \in [Clients -> {"nothing", "CTS", "BSY"}]
  BY DEF TypeInv, TypeOK
<1>5. ASSUME NEW t \in Servers PROVE Kept(t)' = Kept(t)
  <2>1. CASE t = s
    BY <1>2, <1>3, <1>4, <2>1, MirrorsAssumption DEF Kept
  <2>2. CASE t # s
    BY <1>2, <1>3, <1>4, <2>2 DEF Kept
  <2>3. QED
    BY <2>1, <2>2
<1>6. \A t \in {1, 2} : \A n : Passed(t, n)' <=> Passed(t, n)
  BY <1>3, <1>5 DEF Passed, Turns, Phase, Servers
<1>7. (\E a, b \in Nat : Reached(a, b))'
  <2>1. PICK a \in Nat, b \in Nat : Reached(a, b)
    BY DEF HopInv
  <2>2. \A d \in Clients : child'[d] = "none" =>
            child[d] = "none" /\ Redirected(d)' = Redirected(d)
    BY <1>3, <1>4 DEF Redirected
  <2>3. Reached(a, b)'
    BY <1>6, <2>1, <2>2 DEF Reached
  <2>4. QED
    BY <2>1, <2>3
<1>8. \A t \in Servers : forking'[t] # NoClient =>
          child'[forking'[t]] # "none" /\ ppid'[forking'[t]] = t
  <2> SUFFICES ASSUME NEW t \in Servers, forking'[t] # NoClient
               PROVE  child'[forking'[t]] # "none" /\ ppid'[forking'[t]] = t
    OBVIOUS
  <2>1. CASE t = s
    BY <1>3, <1>4, <2>1
  <2>2. CASE t # s
    <3>1. forking'[t] = forking[t] /\ forking[t] \in Clients
      BY <1>3, <1>4, <2>2
    <3>2. child[forking[t]] # "none" /\ ppid[forking[t]] = t
      BY <3>1 DEF HopInv
    <3>3. QED
      BY <1>2, <1>3, <1>4, <3>1, <3>2
  <2>3. QED
    BY <2>1, <2>2
<1>9. QED
  BY <1>3, <1>7, <1>8 DEF HopInv, HopsBounded

\* ParentResume: one kept more.  After the third a new turn begins.
LEMMA HopParentResume == ASSUME HopStart, NEW s \in Servers, ParentResume(s)
                         PROVE  HopInv'
<1> USE DEF HopStart
<1> DEFINE f == forking[s]
<1>1. /\ f # NoClient /\ forking' = [forking EXCEPT ![s] = NoClient]
      /\ no_of_clients' = [no_of_clients EXCEPT ![s] = Counted(s)]
      /\ UNCHANGED <<up, child, ppid, told, hops>>
  BY DEF ParentResume, CountConnection, childVars, clientVars
<1>2. /\ forking \in [Servers -> Clients \cup {NoClient}]
      /\ no_of_clients \in [Servers -> 0 .. IntMax - 1]
  BY DEF TypeInv, TypeOK
<1>3. f \in Clients /\ child[f] # "none" /\ ppid[f] = s
  BY <1>1, <1>2 DEF HopInv
<1>4. Kept(s)' = Kept(s) \cup {f} /\ f \notin Kept(s)
  BY <1>1, <1>2, <1>3, MirrorsAssumption DEF Kept
<1>5. \A t \in Servers \ {s} : Kept(t)' = Kept(t) /\ Phase(t)' = Phase(t)
  BY <1>1, <1>2 DEF Kept, Phase
<1>6. Cardinality(Kept(s)') = Cardinality(Kept(s)) + 1
  BY <1>4, KeptFinite, FS_AddElement
<1>7. Phase(s) \in 0 .. 2 /\ (Phase(s)' = 0 \/ Phase(s)' = Phase(s) + 1)
  <2>1. srvr_idx(no_of_clients[s]) = 0
    BY <1>1 DEF ForksForItsShare
  <2>2. Phase(s)' = ((no_of_clients[s] + 1) % IntMax) % 9
    BY <1>1, <1>2 DEF Phase, Counted
  <2>3. Phase(s) \in 0 .. 8 /\ Phase(s) < 3
    BY <1>2, <2>1, PhaseNext DEF Phase
  <2>4. Phase(s)' = 0 \/ Phase(s)' = Phase(s) + 1
    BY <1>2, <2>2, PhaseNext DEF Phase
  <2>5. QED
    BY <2>3, <2>4
<1>8. ASSUME NEW n \in Nat, NEW m \in Nat, Turns(s, n, m) PROVE Turns(s, n, m)'
  <2>1. Cardinality(Kept(s)) \in Nat /\ Cardinality(Kept(s)') \in Nat
    BY <1>6, KeptFinite
  <2>2. n <= 6 * m /\ (m = 0 \/ 3 * (m - 1) + Phase(s) <= Cardinality(Kept(s)))
    BY <1>7, <1>8 DEF Turns
  <2>3. m = 0 \/ 3 * (m - 1) + Phase(s)' <= Cardinality(Kept(s)')
    BY <1>6, <1>7, <2>1, <2>2
  <2>4. CASE Phase(s)' < 3
    BY <2>2, <2>3, <2>4 DEF Turns
  <2>5. CASE ~(Phase(s)' < 3)
    <3>1. Phase(s)' = 3
      BY <1>7, <2>5
    <3>2. n <= 6 * m + (Phase(s)' - 3) /\ 3 * m <= Cardinality(Kept(s)')
      BY <2>1, <2>2, <2>3, <3>1
    <3>3. QED
      BY <2>5, <3>2 DEF Turns
  <2>6. QED
    BY <2>4, <2>5
<1>9. ASSUME NEW t \in {1, 2}, NEW n \in Nat, Passed(t, n) PROVE Passed(t, n)'
  <2>1. CASE t = s
    BY <1>8, <1>9, <2>1 DEF Passed
  <2>2. CASE t # s
    BY <1>5, <1>9, <2>2 DEF Passed, Turns, Servers
  <2>3. QED
    BY <2>1, <2>2
<1>10. PICK a \in Nat, b \in Nat : Reached(a, b)
  BY DEF HopInv
<1>11. Reached(a, b)'
  <2>1. \A d \in Clients : Redirected(d)' = Redirected(d)
    BY <1>1 DEF Redirected
  <2>2. QED
    BY <1>1, <1>9, <1>10, <2>1 DEF Reached
<1>12. \A t \in Servers : forking'[t] # NoClient =>
          child'[forking'[t]] # "none" /\ ppid'[forking'[t]] = t
  BY <1>1, <1>2 DEF HopInv
<1>13. QED
  BY <1>1, <1>10, <1>11, <1>12 DEF HopInv, HopsBounded

\* AcceptRedirect: the first server redirects who comes for the first time; a mirror has one
\* connection more that it has sent on.
LEMMA HopAcceptRedirect == ASSUME HopStart, NEW s \in Servers, AcceptRedirect(s)
                           PROVE  HopInv'
<1> USE DEF HopStart
<1>1. PICK c \in Clients : AcceptRedirect(s)!(c)
  BY DEF AcceptRedirect
<1>2. counter[c] = s /\ child[c] = "none" /\ told[c] = "nothing"
  BY <1>1, Dequeues DEF ServiceInv, Placed
<1>3. /\ told' = [told EXCEPT ![c] = "BSY"] /\ srvr_idx(no_of_clients[s]) # 0
      /\ no_of_clients' = [no_of_clients EXCEPT ![s] = Counted(s)]
      /\ UNCHANGED <<up, child, ppid, forking, hops>>
  BY <1>1 DEF CountConnection, childVars
<1>4. /\ no_of_clients \in [Servers -> 0 .. IntMax - 1] /\ hops \in [Clients -> Nat]
      /\ told \in [Clients -> {"nothing", "CTS", "BSY"}]
  BY HopsAreNumbers DEF TypeInv, TypeOK
<1>5. \A t \in Servers : Kept(t)' = Kept(t)
  BY <1>3 DEF Kept
<1>6. ASSUME NEW t \in Servers \ {s}, NEW n PROVE Passed(t, n)' <=> Passed(t, n)
  <2>1. Phase(t)' = Phase(t)
    BY <1>3, <1>4 DEF Phase
  <2>2. QED
    BY <1>5, <2>1 DEF Passed, Turns
<1>7. ASSUME NEW n \in Nat, Passed(s, n) PROVE Passed(s, n + 1)'
  <2>1. Phase(s) \in 3 .. 8 /\ (Phase(s)' = 0 \/ Phase(s)' = Phase(s) + 1)
    <3>1. Phase(s)' = ((no_of_clients[s] + 1) % IntMax) % 9
      BY <1>3, <1>4 DEF Phase, Counted
    <3>2. Phase(s) \in 0 .. 8 /\ ~(Phase(s) < 3)
      BY <1>3, <1>4, PhaseNext DEF Phase
    <3>3. Phase(s)' = 0 \/ Phase(s)' = Phase(s) + 1
      BY <1>4, <3>1, PhaseNext DEF Phase
    <3>4. QED
      BY <3>2, <3>3
  <2>2. PICK m \in Nat : Turns(s, n, m)
    BY <1>7 DEF Passed
  <2>3. n <= 6 * m + (Phase(s) - 3) /\ 3 * m <= Cardinality(Kept(s))
    BY <2>1, <2>2 DEF Turns
  <2>4. Kept(s)' = Kept(s) /\ Cardinality(Kept(s)) \in Nat
    BY <1>5, KeptFinite
  <2>5. CASE Phase(s)' = 0
    <3>1. n + 1 <= 6 * (m + 1) /\ 3 * ((m + 1) - 1) + 0 <= Cardinality(Kept(s)')
      BY <2>1, <2>3, <2>4
    <3>2. Turns(s, n + 1, m + 1)'
      BY <2>5, <3>1 DEF Turns
    <3>3. QED
      BY <3>2 DEF Passed
  <2>6. CASE Phase(s)' = Phase(s) + 1
    <3>1. /\ n + 1 <= 6 * m + (Phase(s)' - 3) /\ 3 * m <= Cardinality(Kept(s)')
          /\ ~(Phase(s)' < 3)
      BY <2>1, <2>3, <2>4, <2>6
    <3>2. Turns(s, n + 1, m)'
      BY <3>1 DEF Turns
    <3>3. QED
      BY <3>2 DEF Passed
  <2>7. QED
    BY <2>1, <2>5, <2>6
<1>8. /\ Redirected(c) = hops[c] /\ Redirected(c)' = hops[c] + 1 /\ hops[c] \in Nat
      /\ \A d \in Clients \ {c} : Redirected(d)' = Redirected(d)
  BY <1>2, <1>3, <1>4 DEF Redirected
<1>9. \A d \in Clients : Redirected(d) \in Nat
  BY <1>4 DEF Redirected
<1>10. PICK a \in Nat, b \in Nat : Reached(a, b)
  BY DEF HopInv
<1>11. \E x, y \in Nat : Reached(x, y)'
  <2>1. CASE s = 0
    <3>1. hops[c] = 0
      BY <1>2, <1>8, <2>1 DEF ServiceInv, Sound, HopInv
    <3>2. Passed(1, a)' /\ Passed(2, b)'
      BY <1>6, <1>10, <2>1 DEF Reached, Servers
    <3>3. \A d \in Clients : child'[d] = "none" => Redirected(d)' <= 1 + a + b
      BY <1>3, <1>8, <1>10, <3>1 DEF Reached
    <3>4. QED
      BY <3>2, <3>3 DEF Reached
  <2>2. CASE s = 1
    <3>1. a + 1 \in Nat /\ Passed(1, a + 1)' /\ Passed(2, b)'
      BY <1>6, <1>7, <1>10, <2>2 DEF Reached, Servers
    <3>2. \A d \in Clients : child'[d] = "none" => Redirected(d)' <= 1 + (a + 1) + b
      BY <1>2, <1>3, <1>8, <1>9, <1>10 DEF Reached
    <3>3. QED
      BY <3>1, <3>2 DEF Reached
  <2>3. CASE s = 2
    <3>1. b + 1 \in Nat /\ Passed(1, a)' /\ Passed(2, b + 1)'
      BY <1>6, <1>7, <1>10, <2>3 DEF Reached, Servers
    <3>2. \A d \in Clients : child'[d] = "none" => Redirected(d)' <= 1 + a + (b + 1)
      BY <1>2, <1>3, <1>8, <1>9, <1>10 DEF Reached
    <3>3. QED
      BY <3>1, <3>2 DEF Reached
  <2>4. QED
    BY <2>1, <2>2, <2>3 DEF Servers
<1>12. \A t \in Servers : forking'[t] # NoClient =>
          child'[forking'[t]] # "none" /\ ppid'[forking'[t]] = t
  BY <1>3 DEF HopInv
<1>13. HopsBounded'
  BY <1>3 DEF HopInv, HopsBounded
<1>14. QED
  BY <1>3, <1>11, <1>12, <1>13 DEF HopInv

\* Who seeks a child has been kept by none, so the mirrors share the others.
LEMMA KeptTogether == ASSUME NEW c \in Clients, child[c] = "none"
                      PROVE  /\ Cardinality(Kept(1)) + Cardinality(Kept(2))
                                    <= Cardinality(Clients) - 1
                             /\ Cardinality(Clients) \in Nat
<1>1. IsFiniteSet(Clients) /\ Cardinality(Clients) \in Nat
  BY MirrorsAssumption, FS_CardinalityType
<1>2. /\ IsFiniteSet(Clients \ {c})
      /\ Cardinality(Clients \ {c}) = Cardinality(Clients) - 1
  BY <1>1, FS_RemoveElement
<1>3. Kept(1) \cup Kept(2) \subseteq Clients \ {c} /\ Kept(1) \cap Kept(2) = {}
  BY DEF Kept
<1>4. Cardinality(Kept(1) \cup Kept(2)) <= Cardinality(Clients \ {c})
  BY <1>2, <1>3, FS_Subset
<1>5. Cardinality(Kept(1) \cup Kept(2))
          = Cardinality(Kept(1)) + Cardinality(Kept(2)) - Cardinality(Kept(1) \cap Kept(2))
  BY KeptFinite, FS_Union
<1>6. Cardinality(Kept(1) \cap Kept(2)) = 0
  BY <1>3, FS_EmptySet
<1>7. QED
  BY <1>1, <1>2, <1>4, <1>5, <1>6, KeptFinite

\* Six connections, and six more for every three kept.
LEMMA PassedBounded == ASSUME TypeInv, NEW s \in Servers, NEW n \in Nat, Passed(s, n)
                       PROVE  \E k \in Nat : n <= 6 * k + 6 /\ 3 * k <= Cardinality(Kept(s))
<1>1. PICK m \in Nat : Turns(s, n, m)
  BY DEF Passed
<1>2. Phase(s) \in 0 .. 8
  <2>1. no_of_clients[s] \in 0 .. IntMax - 1
    BY DEF TypeInv, TypeOK
  <2>2. QED
    BY <2>1, PhaseNext DEF Phase
<1>3. Cardinality(Kept(s)) \in Nat
  BY KeptFinite
<1>4. CASE Phase(s) < 3 /\ m = 0
  <2>1. n <= 6 * 0 + 6 /\ 3 * 0 <= Cardinality(Kept(s))
    BY <1>1, <1>3, <1>4 DEF Turns
  <2>2. QED
    BY <2>1
<1>5. CASE Phase(s) < 3 /\ m # 0
  <2>1. m - 1 \in Nat
    BY <1>5
  <2>2. n <= 6 * m /\ 3 * (m - 1) + Phase(s) <= Cardinality(Kept(s))
    BY <1>1, <1>5 DEF Turns
  <2>3. n <= 6 * (m - 1) + 6 /\ 3 * (m - 1) <= Cardinality(Kept(s))
    BY <1>2, <1>3, <2>2
  <2>4. QED
    BY <2>1, <2>3
<1>6. CASE ~(Phase(s) < 3)
  <2>1. n <= 6 * m + (Phase(s) - 3) /\ 3 * m <= Cardinality(Kept(s))
    BY <1>1, <1>6 DEF Turns
  <2>2. n <= 6 * m + 6
    BY <1>2, <2>1
  <2>3. QED
    BY <2>1, <2>2
<1>7. QED
  BY <1>4, <1>5, <1>6

LEMMA ReachedBounded == ASSUME TypeInv, NEW c \in Clients, child[c] = "none",
                               NEW a \in Nat, NEW b \in Nat, Passed(1, a), Passed(2, b)
                        PROVE  1 + a + b <= MaxHops /\ MaxHops \in Int
<1>1. 1 \in Servers /\ 2 \in Servers
  BY DEF Servers
<1>2. PICK j \in Nat : a <= 6 * j + 6 /\ 3 * j <= Cardinality(Kept(1))
  BY <1>1, PassedBounded
<1>3. PICK k \in Nat : b <= 6 * k + 6 /\ 3 * k <= Cardinality(Kept(2))
  BY <1>1, PassedBounded
<1>4. /\ Cardinality(Kept(1)) + Cardinality(Kept(2)) <= Cardinality(Clients) - 1
      /\ Cardinality(Clients) \in Nat
  BY KeptTogether
<1>5. 3 * (j + k) <= Cardinality(Clients) - 1
  BY <1>2, <1>3, <1>4, KeptFinite
<1>6. (Cardinality(Clients) - 1) \div 3 \in Int
      /\ j + k <= (Cardinality(Clients) - 1) \div 3
  BY <1>4, <1>5
<1>7. QED
  BY <1>2, <1>3, <1>6 DEF MaxHops

\* ReadRedirect: what the socket told is counted, and no more than the bound allows.
LEMMA HopReadRedirect == ASSUME HopStart, NEW c \in Clients, ReadRedirect(c)
                         PROVE  HopInv'
<1> USE DEF HopStart
<1>1. /\ cpc[c] = "recv" /\ told[c] = "BSY" /\ told' = [told EXCEPT ![c] = "nothing"]
      /\ hops' = [hops EXCEPT ![c] = IF @ < HopCap THEN @ + 1 ELSE @]
      /\ UNCHANGED <<up, no_of_clients, forking, ppid, child>>
  BY DEF ReadRedirect, serverVars, childVars
<1>2. /\ hops \in [Clients -> Nat] /\ told \in [Clients -> {"nothing", "CTS", "BSY"}]
  BY HopsAreNumbers DEF TypeInv, TypeOK
<1>3. child[c] = "none"
  BY <1>1 DEF ServiceInv, Sound
<1>4. Redirected(c) = hops[c] + 1 /\ hops'[c] \in {hops[c], hops[c] + 1} /\ hops[c] \in Nat
  BY <1>1, <1>2 DEF Redirected
<1>5. PICK a \in Nat, b \in Nat : Reached(a, b)
  BY DEF HopInv
<1>6. hops'[c] <= MaxHops
  <2>1. hops[c] + 1 <= 1 + a + b
    BY <1>3, <1>4, <1>5 DEF Reached
  <2>2. 1 + a + b <= MaxHops /\ MaxHops \in Int
    BY <1>3, <1>5, ReachedBounded DEF Reached
  <2>3. QED
    BY <1>4, <2>1, <2>2
<1>7. HopsBounded'
  BY <1>1, <1>2, <1>6 DEF HopInv, HopsBounded
<1>8. \A d \in Clients : \A n \in Nat : Redirected(d) <= n => Redirected(d)' <= n
  <2>1. \A d \in Clients \ {c} : Redirected(d)' = Redirected(d)
    BY <1>1, <1>2 DEF Redirected
  <2>2. Redirected(c)' = hops'[c] + 0
    BY <1>1, <1>2 DEF Redirected
  <2>3. QED
    BY <1>4, <2>1, <2>2
<1>9. QED
  BY <1>1, <1>7, <1>8, HopsKept

LEMMA HopStep == HopStart /\ [Next]_vars => HopInv'
<1> SUFFICES ASSUME HopStart, [Next]_vars PROVE HopInv'
  OBVIOUS
<1> USE DEF HopStart
<1>1. ASSUME UNCHANGED <<up, no_of_clients, forking, ppid, child, hops>>,
             \A c \in Clients : told'[c] = told[c] \/ told'[c] = "nothing"
      PROVE  HopInv'
  <2>1. hops \in [Clients -> Nat]
    BY HopsAreNumbers
  <2>2. \A c \in Clients : \A n \in Nat : Redirected(c) <= n => Redirected(c)' <= n
    BY <1>1, <2>1 DEF Redirected
  <2>3. HopsBounded'
    BY <1>1 DEF HopInv, HopsBounded
  <2>4. QED
    BY <1>1, <2>2, <2>3, HopsKept
<1>2. ASSUME NEW s \in Servers, Server(s) \/ ServerFault(s) PROVE HopInv'
  BY <1>2, HopAcceptLocal, HopParentResume, HopAcceptRedirect
     DEF Server, ServerFault, AcceptFails, ForkFails, StartOnce
<1>3. ASSUME NEW c \in Clients, ChildEnds(c) PROVE HopInv'
  <2>1. /\ child[c] = "running" /\ child' = [child EXCEPT ![c] = "ended"]
        /\ UNCHANGED <<up, no_of_clients, forking, ppid, hops, told>>
    BY <1>3 DEF ChildEnds, clientVars
  <2>2. \A d \in Clients : child'[d] = "none" <=> child[d] = "none"
    BY <2>1 DEF TypeInv, TypeOK
  <2>3. \A d \in Clients : Redirected(d)' = Redirected(d)
    BY <2>1 DEF Redirected
  <2>4. HopsBounded'
    BY <2>1 DEF HopInv, HopsBounded
  <2>5. QED
    BY <2>1, <2>2, <2>3, <2>4, HopsKept
<1>4. ASSUME NEW c \in Clients, Connecting(c) \/ Leave(c) PROVE HopInv'
  <2>1. CASE ReadRedirect(c)
    BY <2>1, HopReadRedirect
  <2>2. CASE \/ Connect(c) \/ ConnectRefused(c) \/ ReadTag(c) \/ ReadShort(c) \/ ReadReset(c)
             \/ Leave(c)
    <3>1. UNCHANGED <<up, no_of_clients, forking, ppid, child, hops>>
      BY <2>2 DEF Connect, ConnectRefused, ReadTag, ReadShort, ReadReset, Leave, serverVars,
                  childVars
    <3>2. told' = told \/ told' = [told EXCEPT ![c] = "nothing"]
      BY <2>2 DEF Connect, ConnectRefused, ReadTag, ReadShort, ReadReset, Leave
    <3>3. \A d \in Clients : told'[d] = told[d] \/ told'[d] = "nothing"
      BY <3>2 DEF TypeInv, TypeOK
    <3>4. QED
      BY <1>1, <3>1, <3>3
  <2>3. QED
    BY <1>4, <2>1, <2>2 DEF Connecting
<1>5. ASSUME NEW c \in Clients, Rerun(c) PROVE HopInv'
  BY <1>5 DEF Rerun, StartOnce
<1>6. CASE UNCHANGED vars
  BY <1>1, <1>6 DEF vars, serverVars, childVars, clientVars
<1>7. QED
  BY <1>2, <1>3, <1>4, <1>5, <1>6 DEF Next, ChildQuits, ChildCrashes

LEMMA ManyHops == ASSUME NEW c \in Clients PROVE 0 <= MaxHops
<1>1. IsFiniteSet(Clients) /\ Cardinality(Clients) \in Nat
  BY MirrorsAssumption, FS_CardinalityType
<1>2. Cardinality(Clients) - 1 \in Nat
  BY <1>1, FS_EmptySet
<1>3. (Cardinality(Clients) - 1) \div 3 \in Nat
  BY <1>2
<1>4. QED
  BY <1>3 DEF MaxHops

LEMMA HopInit == Init => HopInv
<1> SUFFICES ASSUME Init PROVE HopInv
  OBVIOUS
<1>1. no_of_clients \in [Servers -> 0 .. IntMax - 1]
  BY MirrorsAssumption DEF Init
<1>2. \A s \in Servers : Passed(s, 0)
  <2>1. \A s \in Servers : Phase(s) \in Nat
    BY <1>1 DEF Phase
  <2>2. QED
    BY <2>1, KeptFinite DEF Passed, Turns
<1>3. \A c \in Clients : hops[c] = 0 /\ told[c] = "nothing"
  BY DEF Init
<1>4. \A c \in Clients : Redirected(c) = 0
  BY <1>3 DEF Redirected
<1>5. Reached(0, 0)
  BY <1>2, <1>4 DEF Reached, Servers
<1>6. HopsBounded
  <2>1. ASSUME NEW c \in Clients PROVE 0 <= MaxHops
    BY ManyHops
  <2>2. QED
    BY <1>3, <2>1 DEF HopsBounded
<1>7. up = Servers /\ \A s \in Servers : forking[s] = NoClient
  BY DEF Init
<1>8. QED
  BY <1>5, <1>6, <1>7 DEF HopInv

\* Clients that start once, at servers that do not exit, are sent on at most 13 times, by the
\* server once and by each mirror six times, and six times more for every three others there
\* are: for any number of clients and whatever counts they find.
THEOREM FewHops == ASSUME StartOnce PROVE Spec => []HopsBounded
<1>1. Init => HopInv /\ ShareInv
  BY HopInit, ShareInit
<1>2. TypeInv /\ ServiceInv /\ ShareInv /\ HopInv /\ [Next]_vars => ShareInv' /\ HopInv'
  BY StartOnce, HopStep, ShareStep DEF HopStart, ShareInv
<1>3. HopInv => HopsBounded
  BY DEF HopInv
<1>4. QED
  BY <1>1, <1>2, <1>3, ServiceAlways, PTL DEF Spec

=============================================================================
