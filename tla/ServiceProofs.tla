--------------------------- MODULE ServiceProofs ---------------------------
(***************************************************************************)
(* Theorems about Mirrors, on what a client finds: it waits in one place   *)
(* only, is owed an answer there, stays among the mirrors, and prompts     *)
(* with a child of its own; and, from that, that the accept loops make no  *)
(* step that Placement does not allow.                                     *)
(*                                                                         *)
(* The four invariants are one: each needs the others to be inductive.     *)
(***************************************************************************)
EXTENDS MirrorsProofs

(***************************************************************************)
(* Waiting, as a relation between clients and servers.  In place of the    *)
(* positions in the queues the proofs speak of who is in which of them.    *)
(***************************************************************************)
At(q, i, c) == i \in 1 .. Len(q) /\ q[i] = c

\* What is left of a queue when its head has been taken.
LEMMA AfterTail == ASSUME NEW q \in Seq(Clients), q # <<>>
                   PROVE  /\ Tail(q) \in Seq(Clients)
                          /\ At(q, 1, Head(q))
                          /\ \A i \in Nat, c \in Clients :
                                i \in 1 .. Len(Tail(q)) =>
                                   (At(Tail(q), i, c) <=> At(q, i + 1, c))
                          /\ \A i \in Nat, c \in Clients :
                                At(q, i, c) => i = 1 \/ At(Tail(q), i - 1, c)
<1>1. /\ Tail(q) \in Seq(Clients) /\ Len(Tail(q)) = Len(q) - 1 /\ Len(q) \in Nat /\ Len(q) > 0
      /\ \A i \in 1 .. Len(Tail(q)) : Tail(q)[i] = q[i + 1]
  BY HeadTailProperties, LenProperties, EmptySeq
<1>2. Head(q) = q[1]
  OBVIOUS
<1>3. At(q, 1, Head(q))
  BY <1>1, <1>2 DEF At
<1>4. ASSUME NEW i \in Nat, NEW c \in Clients, i \in 1 .. Len(Tail(q))
      PROVE  At(Tail(q), i, c) <=> At(q, i + 1, c)
  BY <1>1, <1>4 DEF At
<1>5. ASSUME NEW i \in Nat, NEW c \in Clients, At(q, i, c), i # 1
      PROVE  At(Tail(q), i - 1, c)
  <2>1. i - 1 \in 1 .. Len(Tail(q)) /\ (i - 1) + 1 = i
    BY <1>1, <1>5 DEF At
  <2>2. QED
    BY <1>1, <1>5, <2>1 DEF At
<1>6. QED
  BY <1>1, <1>3, <1>4, <1>5

\* What is in a queue when a client has been appended.
LEMMA AfterAppend == ASSUME NEW q \in Seq(Clients), NEW d \in Clients
                     PROVE  /\ Append(q, d) \in Seq(Clients)
                            /\ \A i \in Nat, c \in Clients :
                                  At(Append(q, d), i, c) <=>
                                     At(q, i, c) \/ (i = Len(q) + 1 /\ c = d)
<1>1. /\ Append(q, d) \in Seq(Clients) /\ Len(Append(q, d)) = Len(q) + 1 /\ Len(q) \in Nat
      /\ \A i \in 1 .. Len(q) : Append(q, d)[i] = q[i]
      /\ Append(q, d)[Len(q) + 1] = d
  BY AppendProperties, LenProperties
<1>2. ASSUME NEW i \in Nat, NEW c \in Clients
      PROVE  At(Append(q, d), i, c) <=> At(q, i, c) \/ (i = Len(q) + 1 /\ c = d)
  BY <1>1 DEF At
<1>3. QED
  BY <1>1, <1>2

LEMMA AtEmpty == ASSUME NEW i, NEW c PROVE ~At(<<>>, i, c)
BY DEF At

-----------------------------------------------------------------------------
In(s, i, c) == At(queue[s], i, c)
Waiting(c) == \E s \in Servers, i \in Nat : In(s, i, c)

\* Who is in a queue connected to that server, waits for its answer, and has no child.
Placed == \A s \in Servers, i \in Nat, c \in Clients :
    In(s, i, c) => counter[c] = s /\ cpc[c] = "recv" /\ told[c] = "nothing" /\ child[c] = "none"

\* Nobody is twice in a queue.
Once == \A s \in Servers, i, j \in Nat, c \in Clients : In(s, i, c) /\ In(s, j, c) => i = j

\* The conjuncts of Handshake, PromptIsServed and StaysAmongMirrors for one client.
Sound(c) ==
    /\ cpc[c] = "start" => child[c] = "none"
    /\ cpc[c] = "recv" /\ told[c] # "CTS" => child[c] = "none"
    /\ cpc[c] = "recv" /\ told[c] = "nothing" => Waiting(c) \/ counter[c] \notin up
    /\ told[c] # "nothing" => cpc[c] = "recv"
    /\ told[c] = "CTS" => child[c] # "none" \/ counter[c] \notin up
    /\ cpc[c] = "prompt" => child[c] # "none" \/ counter[c] \notin up \/ response_t[c] = "B"
    /\ hops[c] > 0 /\ up = Servers => counter[c] # 0
    /\ told[c] = "BSY" => redirect_to[c] \in Servers \ {0}

ServiceInv == Placed /\ Once /\ \A c \in Clients : Sound(c)

ClientKept(c) ==
    /\ cpc'[c] = cpc[c] /\ told'[c] = told[c] /\ child'[c] = child[c] /\ counter'[c] = counter[c]
    /\ hops'[c] = hops[c] /\ redirect_to'[c] = redirect_to[c] /\ response_t'[c] = response_t[c]

\* What holds of a client still holds when a step leaves it alone and no server has
\* started, as long as it is still in its queue, or its server has gone.
LEMMA SoundKept == ASSUME TypeInv, NEW c \in Clients, Sound(c), ClientKept(c), up' \subseteq up,
                          Waiting(c) => Waiting(c)' \/ counter[c] \notin up'
                   PROVE  Sound(c)'
<1>1. up \subseteq Servers
  BY DEF TypeInv, TypeOK
<1>2. up' = Servers => up = Servers
  BY <1>1
<1> HIDE DEF TypeInv
<1>3. QED
  BY <1>2 DEF Sound, ClientKept

\* The queues are not touched, and neither is anybody who is in one.
LEMMA QueuesKept == ASSUME ServiceInv, UNCHANGED queue,
                           \A c \in Clients : Waiting(c) =>
                              /\ cpc'[c] = cpc[c] /\ told'[c] = told[c]
                              /\ child'[c] = child[c] /\ counter'[c] = counter[c]
                    PROVE  /\ (Placed /\ Once)'
                           /\ \A c \in Clients : Waiting(c) <=> Waiting(c)'
<1>1. \A s \in Servers, i \in Nat, c \in Clients : In(s, i, c)' <=> In(s, i, c)
  BY DEF In
<1>2. \A c \in Clients : Waiting(c) <=> Waiting(c)'
  BY <1>1 DEF Waiting
<1>3. Placed'
  BY <1>1 DEF Placed, ServiceInv, Waiting
<1>4. Once'
  BY <1>1 DEF Once, ServiceInv
<1>5. QED
  BY <1>2, <1>3, <1>4

\* accept() takes the client from the only place where it was.
LEMMA Dequeues == ASSUME TypeInv, ServiceInv, NEW s \in Servers, NEW c \in Clients, Accepts(s, c)
                  PROVE  /\ Once'
                         /\ In(s, 1, c)
                         /\ \A t \in Servers, i \in Nat, d \in Clients :
                               In(t, i, d)' => d # c /\ \E j \in Nat : In(t, j, d)
                         /\ \A d \in Clients : d # c /\ Waiting(d) => Waiting(d)'
<1>1. /\ queue \in [Servers -> Seq(Clients)] /\ queue[s] # <<>> /\ c = Head(queue[s])
      /\ queue' = [queue EXCEPT ![s] = Tail(@)]
  BY DEF TypeInv, TypeOK, Accepts
<1> DEFINE q == queue[s]
<1>2. queue[s] \in Seq(Clients) /\ queue'[s] = Tail(queue[s])
  BY <1>1
<1>3. \A t \in Servers \ {s} : queue'[t] = queue[t]
  BY <1>1
<1>4. In(s, 1, c)
  BY <1>1, <1>2, AfterTail DEF In
<1>5. \A i \in Nat, d \in Clients : In(s, i, d)' => i \in 1 .. Len(Tail(q)) /\ In(s, i + 1, d)
  BY <1>1, <1>2, AfterTail DEF In, At
<1>6. \A i \in Nat, d \in Clients : In(s, i, d) => i = 1 \/ (i - 1 \in Nat /\ In(s, i - 1, d)')
  <2>1. ASSUME NEW i \in Nat, NEW d \in Clients, In(s, i, d), i # 1
        PROVE  i - 1 \in Nat /\ In(s, i - 1, d)'
    <3>1. At(Tail(q), i - 1, d)
      BY <1>1, <1>2, <2>1, AfterTail DEF In
    <3>2. i - 1 \in Nat
      BY <3>1 DEF At
    <3>3. QED
      BY <1>2, <3>1, <3>2 DEF In
  <2>2. QED
    BY <2>1
<1>7. \A t \in Servers \ {s}, i \in Nat, d \in Clients : In(t, i, d)' <=> In(t, i, d)
  BY <1>3 DEF In
<1> HIDE DEF q
<1>8. Once'
  <2>1. ASSUME NEW t \in Servers, NEW i \in Nat, NEW j \in Nat, NEW d \in Clients,
               In(t, i, d)', In(t, j, d)'
        PROVE  i = j
    <3>1. CASE t = s
      <4>1. i + 1 \in Nat /\ j + 1 \in Nat /\ In(s, i + 1, d) /\ In(s, j + 1, d)
        BY <1>5, <2>1, <3>1
      <4>2. i + 1 = j + 1
        BY <4>1 DEF ServiceInv, Once
      <4>3. QED
        BY <4>2
    <3>2. CASE t # s
      BY <1>7, <2>1, <3>2 DEF ServiceInv, Once
    <3>3. QED
      BY <3>1, <3>2
  <2>2. QED
    BY <2>1 DEF Once
<1>9. ASSUME NEW t \in Servers, NEW i \in Nat, NEW d \in Clients, In(t, i, d)'
      PROVE  d # c /\ \E j \in Nat : In(t, j, d)
  <2>1. CASE t = s
    <3>1. i + 1 \in Nat /\ In(s, i + 1, d) /\ i + 1 # 1
      BY <1>5, <1>9, <2>1
    <3>2. d # c
      BY <1>4, <3>1 DEF ServiceInv, Once
    <3>3. QED
      BY <2>1, <3>1, <3>2
  <2>2. CASE t # s
    <3>1. In(t, i, d)
      BY <1>7, <1>9, <2>2
    <3>2. counter[d] = t /\ counter[c] = s
      BY <1>4, <3>1 DEF ServiceInv, Placed
    <3>3. QED
      BY <2>2, <3>1, <3>2
  <2>3. QED
    BY <2>1, <2>2
<1>10. ASSUME NEW d \in Clients, d # c, Waiting(d)
       PROVE  Waiting(d)'
  <2>1. PICK t \in Servers, i \in Nat : In(t, i, d)
    BY <1>10 DEF Waiting
  <2>2. CASE t = s
    <3>1. i # 1
      BY <1>4, <1>10, <2>1, <2>2 DEF In, At
    <3>2. i - 1 \in Nat /\ In(s, i - 1, d)'
      BY <1>6, <2>1, <2>2, <3>1
    <3>3. QED
      BY <3>2 DEF Waiting
  <2>3. CASE t # s
    BY <1>7, <2>1, <2>3 DEF Waiting
  <2>4. QED
    BY <2>2, <2>3
<1>11. QED
  BY <1>4, <1>8, <1>9, <1>10

-----------------------------------------------------------------------------
(***************************************************************************)
(* The steps.                                                              *)
(***************************************************************************)
LEMMA DequeuedPlaced == ASSUME TypeInv, ServiceInv, NEW s \in Servers, NEW c \in Clients,
                               Accepts(s, c), \A d \in Clients \ {c} : ClientKept(d)
                        PROVE  (Placed /\ Once)'
<1>1. ASSUME NEW t \in Servers, NEW i \in Nat, NEW d \in Clients, In(t, i, d)'
      PROVE  counter'[d] = t /\ cpc'[d] = "recv" /\ told'[d] = "nothing" /\ child'[d] = "none"
  <2>1. d # c /\ \E j \in Nat : In(t, j, d)
    BY <1>1, Dequeues
  <2>2. counter[d] = t /\ cpc[d] = "recv" /\ told[d] = "nothing" /\ child[d] = "none"
    BY <2>1 DEF ServiceInv, Placed
  <2>3. QED
    BY <2>1, <2>2 DEF ClientKept
<1>2. QED
  BY <1>1, Dequeues DEF Placed

LEMMA ServiceAcceptLocal == ASSUME TypeInv, ServiceInv, NEW s \in Servers, AcceptLocal(s)
                            PROVE  ServiceInv'
<1>1. PICK c \in Clients : AcceptLocal(s)!(c)
  BY DEF AcceptLocal
<1>2. /\ told'[c] = "CTS" /\ child'[c] = "running" /\ up' = up
      /\ cpc'[c] = cpc[c] /\ counter'[c] = counter[c] /\ hops'[c] = hops[c]
      /\ \A d \in Clients \ {c} : ClientKept(d)
  BY <1>1 DEF TypeInv, TypeOK, ClientKept
<1>3. cpc[c] = "recv"
  BY <1>1, Dequeues DEF ServiceInv, Placed
<1>4. Sound(c)'
  BY <1>2, <1>3 DEF ServiceInv, Sound
<1>5. ASSUME NEW d \in Clients, d # c PROVE Sound(d)'
  BY <1>1, <1>2, <1>5, Dequeues, SoundKept DEF ServiceInv
<1>6. QED
  BY <1>1, <1>2, <1>4, <1>5, DequeuedPlaced DEF ServiceInv

LEMMA ServiceAcceptRedirect == ASSUME TypeInv, ServiceInv, NEW s \in Servers, AcceptRedirect(s)
                               PROVE  ServiceInv'
<1>1. PICK c \in Clients : AcceptRedirect(s)!(c)
  BY DEF AcceptRedirect
<1>2. PICK char \in ulong_to_string(srvr_idx(no_of_clients[s])) :
          redirect_to' = [redirect_to EXCEPT ![c] = char]
  BY <1>1
<1>3. /\ told'[c] = "BSY" /\ up' = up /\ redirect_to'[c] = char
      /\ cpc'[c] = cpc[c] /\ counter'[c] = counter[c] /\ hops'[c] = hops[c] /\ child'[c] = child[c]
      /\ \A d \in Clients \ {c} : ClientKept(d)
  BY <1>1, <1>2 DEF TypeInv, TypeOK, ClientKept, childVars
<1>4. cpc[c] = "recv" /\ child[c] = "none"
  BY <1>1, Dequeues DEF ServiceInv, Placed
<1>5. char \in Servers \ {0}
  <2>1. no_of_clients[s] \in 0 .. IntMax - 1
    BY DEF TypeInv, TypeOK
  <2>2. no_of_clients[s] \in Nat
    BY <2>1
  <2>3. srvr_idx(no_of_clients[s]) \in Servers \ {0}
    BY <1>1, <2>2, IndexRange, ServerZero
  <2>4. QED
    BY <2>3, Conversions
<1>6. Sound(c)'
  BY <1>3, <1>4, <1>5 DEF ServiceInv, Sound
<1>7. ASSUME NEW d \in Clients, d # c PROVE Sound(d)'
  BY <1>1, <1>3, <1>7, Dequeues, SoundKept DEF ServiceInv
<1>8. QED
  BY <1>1, <1>3, <1>6, <1>7, DequeuedPlaced DEF ServiceInv

\* The queue of a server is lost with it.
LEMMA ServiceFaults == ASSUME TypeInv, ServiceInv, NEW s \in Servers, ServerFault(s)
                       PROVE  ServiceInv'
<1>1. /\ ServerExit(s) /\ queue' = [queue EXCEPT ![s] = <<>>]
      /\ \/ UNCHANGED told
         \/ \E c \in Clients : /\ c = Head(queue[s]) /\ queue[s] # <<>>
                               /\ told' = [told EXCEPT ![c] = "CTS"]
  BY DEF ServerFault, AcceptFails, ForkFails
<1>2. up' = up \ {s} /\ UNCHANGED <<child, cpc, counter, hops, redirect_to, response_t>>
  BY <1>1 DEF ServerExit, childVars
<1>3. \A t \in Servers, i \in Nat, d \in Clients : In(t, i, d)' <=> t # s /\ In(t, i, d)
  <2>1. queue'[s] = <<>> /\ \A t \in Servers \ {s} : queue'[t] = queue[t]
    BY <1>1 DEF TypeInv, TypeOK
  <2>2. QED
    BY <2>1, AtEmpty DEF In
<1>4. ASSUME NEW d \in Clients
      PROVE  \/ told'[d] = told[d]
             \/ told'[d] = "CTS" /\ In(s, 1, d)
  <2>1. CASE UNCHANGED told
    BY <2>1
  <2>2. ASSUME NEW c \in Clients, c = Head(queue[s]), queue[s] # <<>>,
               told' = [told EXCEPT ![c] = "CTS"]
        PROVE  told'[d] = told[d] \/ (told'[d] = "CTS" /\ In(s, 1, d))
    <3>1. queue[s] \in Seq(Clients) /\ told \in [Clients -> {"nothing", "CTS", "BSY"}]
      BY DEF TypeInv, TypeOK
    <3>2. In(s, 1, c)
      BY <2>2, <3>1, AfterTail DEF In
    <3>3. QED
      BY <2>2, <3>1, <3>2
  <2>3. QED
    BY <1>1, <2>1, <2>2
<1>5. Placed'
  <2>1. ASSUME NEW t \in Servers, NEW i \in Nat, NEW d \in Clients, In(t, i, d)'
        PROVE  counter'[d] = t /\ cpc'[d] = "recv" /\ told'[d] = "nothing" /\ child'[d] = "none"
    <3>1. t # s /\ counter[d] = t /\ cpc[d] = "recv" /\ told[d] = "nothing" /\ child[d] = "none"
      BY <1>3, <2>1 DEF ServiceInv, Placed
    <3>2. ~In(s, 1, d)
      BY <3>1 DEF ServiceInv, Placed
    <3>3. QED
      BY <1>2, <1>4, <3>1, <3>2
  <2>2. QED
    BY <2>1 DEF Placed
<1>6. Once'
  BY <1>3 DEF ServiceInv, Once
<1>7. ASSUME NEW d \in Clients PROVE Sound(d)'
  <2>1. CASE told'[d] = told[d]
    <3>1. Waiting(d) => Waiting(d)' \/ counter[d] \notin up'
      BY <1>2, <1>3 DEF ServiceInv, Placed, Waiting
    <3>2. ClientKept(d) /\ up' \subseteq up
      BY <1>2, <2>1 DEF ClientKept
    <3>3. QED
      BY <3>1, <3>2, SoundKept DEF ServiceInv
  <2>2. CASE told'[d] = "CTS" /\ In(s, 1, d)
    <3>1. cpc[d] = "recv" /\ counter[d] = s
      BY <2>2 DEF ServiceInv, Placed
    <3>2. counter[d] \notin up' /\ up' # Servers
      BY <1>2, <3>1
    <3>3. QED
      BY <1>2, <2>2, <3>1, <3>2 DEF Sound
  <2>3. QED
    BY <1>4, <2>1, <2>2
<1>8. QED
  BY <1>5, <1>6, <1>7 DEF ServiceInv

\* Steps that change one client, which is in no queue.
LEMMA OneClient == ASSUME TypeInv, ServiceInv, NEW c \in Clients, ~Waiting(c),
                          UNCHANGED <<queue, up>>, \A d \in Clients \ {c} : ClientKept(d),
                          ~Waiting(c)' => Sound(c)'
                   PROVE  ServiceInv'
<1>1. (Placed /\ Once)' /\ \A d \in Clients : Waiting(d) <=> Waiting(d)'
  BY QueuesKept DEF ClientKept
<1>2. ASSUME NEW d \in Clients, d # c PROVE Sound(d)'
  BY <1>1, <1>2, SoundKept DEF ServiceInv
<1>3. QED
  BY <1>1, <1>2 DEF ServiceInv

LEMMA ServiceChildEnds == ASSUME TypeInv, ServiceInv, NEW c \in Clients, ChildEnds(c)
                          PROVE  ServiceInv'
<1>1. /\ child[c] = "running" /\ child'[c] = "ended"
      /\ UNCHANGED <<queue, up, cpc, told, counter, redirect_to, hops>>
      /\ \A d \in Clients \ {c} : ClientKept(d)
  BY DEF ChildEnds, clientVars, ClientKept, TypeInv, TypeOK
<1>2. ~Waiting(c)
  BY <1>1 DEF ServiceInv, Placed, Waiting
<1>3. ~Waiting(c)' => Sound(c)'
  BY <1>1 DEF ServiceInv, Sound
<1>4. QED
  BY <1>1, <1>2, <1>3, OneClient

LEMMA ServiceConnect == ASSUME TypeInv, ServiceInv, NEW c \in Clients, Connect(c)
                        PROVE  ServiceInv'
<1>0. PICK s \in Servers : s = counter[c]
  BY DEF TypeInv, TypeOK
<1>1. /\ queue[s] \in Seq(Clients) /\ cpc[c] = "start"
      /\ queue'[s] = Append(queue[s], c) /\ \A t \in Servers \ {s} : queue'[t] = queue[t]
      /\ cpc'[c] = "recv" /\ UNCHANGED <<up, told, child, counter, redirect_to, hops>>
      /\ \A d \in Clients \ {c} : ClientKept(d)
  BY <1>0 DEF Connect, childVars, ClientKept, TypeInv, TypeOK
<1>2. child[c] = "none" /\ told[c] = "nothing" /\ ~Waiting(c)
  BY <1>1 DEF ServiceInv, Sound, Placed, Waiting
<1>n. PICK n \in Nat : n = Len(queue[s]) + 1
  BY <1>1, LenProperties
<1>3. \A t \in Servers, i \in Nat, d \in Clients :
         In(t, i, d)' <=> In(t, i, d) \/ (t = s /\ i = n /\ d = c)
  <2>1. \A i \in Nat, d \in Clients : In(s, i, d)' <=> In(s, i, d) \/ (i = n /\ d = c)
    BY <1>1, <1>n, AfterAppend DEF In
  <2>2. \A t \in Servers \ {s}, i \in Nat, d \in Clients : In(t, i, d)' <=> In(t, i, d)
    BY <1>1 DEF In
  <2>3. QED
    BY <2>1, <2>2
<1>4. Placed'
  <2>1. ASSUME NEW t \in Servers, NEW i \in Nat, NEW d \in Clients, In(t, i, d)'
        PROVE  counter'[d] = t /\ cpc'[d] = "recv" /\ told'[d] = "nothing" /\ child'[d] = "none"
    <3>1. CASE d = c
      <4>1. t = s
        BY <1>2, <1>3, <2>1, <3>1 DEF Waiting
      <4>2. QED
        BY <1>0, <1>1, <1>2, <3>1, <4>1
    <3>2. CASE d # c
      <4>1. counter[d] = t /\ cpc[d] = "recv" /\ told[d] = "nothing" /\ child[d] = "none"
        BY <1>3, <2>1, <3>2 DEF ServiceInv, Placed
      <4>2. ClientKept(d)
        BY <1>1, <3>2
      <4>3. QED
        BY <4>1, <4>2 DEF ClientKept
    <3>3. QED
      BY <3>1, <3>2
  <2>2. QED
    BY <2>1 DEF Placed
<1>5. Once'
  <2>1. ASSUME NEW t \in Servers, NEW i \in Nat, NEW j \in Nat, NEW d \in Clients,
               In(t, i, d)', In(t, j, d)'
        PROVE  i = j
    <3>1. CASE d = c
      BY <1>2, <1>3, <2>1, <3>1 DEF Waiting
    <3>2. CASE d # c
      BY <1>3, <2>1, <3>2 DEF ServiceInv, Once
    <3>3. QED
      BY <3>1, <3>2
  <2>2. QED
    BY <2>1 DEF Once
<1>6. Sound(c)'
  <2>1. Waiting(c)'
    BY <1>1, <1>3 DEF Waiting
  <2>2. QED
    BY <1>1, <1>2, <2>1 DEF ServiceInv, Sound
<1>7. ASSUME NEW d \in Clients, d # c PROVE Sound(d)'
  <2>1. Waiting(d) => Waiting(d)'
    BY <1>3 DEF Waiting
  <2>2. QED
    BY <1>1, <1>7, <2>1, SoundKept DEF ServiceInv
<1>8. QED
  BY <1>4, <1>5, <1>6, <1>7 DEF ServiceInv

\* The client after an answer, after a reset, and between two runs, is in no queue.
LEMMA ServiceClient == ASSUME TypeInv, ServiceInv, NEW c \in Clients,
                              \/ ConnectRefused(c) \/ ReadTag(c) \/ ReadRedirect(c)
                              \/ ReadShort(c) \/ ReadReset(c) \/ Leave(c) \/ Rerun(c)
                       PROVE  ServiceInv'
<1>1. UNCHANGED <<queue, up>> /\ \A d \in Clients \ {c} : ClientKept(d)
  <2>1. CASE ConnectRefused(c) \/ Leave(c)
    BY <2>1 DEF ConnectRefused, Leave, serverVars, childVars, ClientKept, TypeInv, TypeOK
  <2>2. CASE ReadRedirect(c)
    BY <2>2 DEF ReadRedirect, serverVars, childVars, ClientKept, TypeInv, TypeOK
  <2>3. CASE ReadReset(c)
    BY <2>3 DEF ReadReset, serverVars, childVars, ClientKept, TypeInv, TypeOK
  <2>4. CASE Rerun(c)
    BY <2>4 DEF Rerun, serverVars, ClientKept, TypeInv, TypeOK
  <2>5. CASE ReadTag(c)
    BY <2>5 DEF ReadTag, serverVars, childVars, ClientKept, TypeInv, TypeOK
  <2>6. CASE ReadShort(c)
    BY <2>6 DEF ReadShort, serverVars, childVars, ClientKept, TypeInv, TypeOK
  <2>7. QED
    BY <2>1, <2>2, <2>3, <2>4, <2>5, <2>6
<1>2. Queued(c) <=> Waiting(c)
  <2>1. \A s \in Servers : Len(queue[s]) \in Nat
    BY LenProperties DEF TypeInv, TypeOK
  <2>2. QED
    BY <2>1 DEF Queued, Waiting, In, At
<1>3. ~Waiting(c)
  <2>1. cpc[c] # "recv" \/ told[c] # "nothing" \/ ~Queued(c)
    BY DEF ConnectRefused, ReadTag, ReadRedirect, ReadShort, ReadReset, Leave, Rerun
  <2>2. Waiting(c) => cpc[c] = "recv" /\ told[c] = "nothing"
    BY DEF ServiceInv, Placed, Waiting
  <2>3. QED
    BY <1>2, <2>1, <2>2
<1>4. Sound(c)
  BY DEF ServiceInv
<1>5. Sound(c)'
  <2>1. CASE ConnectRefused(c)
    BY <1>4, <2>1 DEF ConnectRefused, serverVars, childVars, Sound, TypeInv, TypeOK
  <2>2. CASE ReadTag(c)
    BY <1>4, <2>2 DEF ReadTag, AfterTag, serverVars, childVars, Sound, TypeInv, TypeOK
  <2>3. CASE ReadRedirect(c)
    <3>1. /\ cpc[c] = "recv" /\ told[c] = "BSY" /\ told'[c] = "nothing" /\ cpc'[c] = "start"
          /\ child'[c] = child[c] /\ counter'[c] = atoi(redirect_to[c])
      BY <2>3 DEF ReadRedirect, AfterTag, childVars, TypeInv, TypeOK
    <3>2. atoi(redirect_to[c]) # 0
      <4>1. redirect_to[c] \in Servers \ {0}
        BY <1>4, <3>1 DEF Sound
      <4>2. QED
        BY <4>1 DEF atoi, Servers, NonDigit
    <3>3. QED
      BY <1>4, <3>1, <3>2 DEF Sound
  <2>4. CASE ReadReset(c)
    <3>1. /\ cpc[c] = "recv" /\ told[c] = "nothing"
          /\ UNCHANGED <<up, told, child, hops, redirect_to>>
          /\ cpc'[c] = "start" \/ (cpc'[c] = "prompt" /\ counter'[c] = counter[c])
      BY <2>4 DEF ReadReset, AfterTag, serverVars, childVars, TypeInv, TypeOK
    <3>2. counter[c] \notin up /\ counter[c] \in Servers
      BY <1>3, <1>4, <3>1 DEF Sound, TypeInv, TypeOK
    <3>3. QED
      BY <1>4, <3>1, <3>2 DEF Sound
  <2>5. CASE Leave(c)
    BY <1>4, <2>5 DEF Leave, serverVars, childVars, Sound, TypeInv, TypeOK
  <2>6. CASE Rerun(c)
    <3>1. /\ cpc[c] = "ended" /\ cpc'[c] = "start" /\ child'[c] = "none" /\ hops'[c] = 0
          /\ UNCHANGED <<up, told>>
      BY <2>6 DEF Rerun, serverVars, TypeInv, TypeOK
    <3>2. told[c] = "nothing" /\ told'[c] = "nothing"
      BY <1>4, <3>1 DEF Sound, TypeInv, TypeOK
    <3>3. QED
      BY <3>1, <3>2 DEF Sound
  <2>7. CASE ReadShort(c)
    <3>1. /\ cpc[c] = "recv" /\ told[c] \in {"CTS", "BSY"} /\ told'[c] = "nothing"
          /\ response_t'[c] = IF told[c] = "CTS" THEN "C" ELSE "B"
          /\ UNCHANGED <<up, child, counter, hops>>
      BY <2>7 DEF ReadShort, serverVars, childVars, TypeInv, TypeOK
    <3>2. cpc'[c] = "prompt"
      BY <2>7, <3>1 DEF ReadShort, AfterTag, TypeInv, TypeOK
    <3>3. QED
      BY <1>4, <3>1, <3>2 DEF Sound
  <2>8. QED
    BY <2>1, <2>2, <2>3, <2>4, <2>5, <2>6, <2>7
<1>6. QED
  BY <1>1, <1>3, <1>5, OneClient

LEMMA ServiceStep == TypeInv /\ ServiceInv /\ [Next]_vars => ServiceInv'
<1> SUFFICES ASSUME TypeInv, ServiceInv, [Next]_vars PROVE ServiceInv'
  OBVIOUS
<1>1. ASSUME UNCHANGED <<queue, up, cpc, told, child, counter, redirect_to, hops, response_t>>
      PROVE  ServiceInv'
  <2>1. (Placed /\ Once)' /\ \A d \in Clients : Waiting(d) <=> Waiting(d)'
    BY <1>1, QueuesKept
  <2>2. \A d \in Clients : Sound(d)'
    BY <1>1, <2>1, SoundKept DEF ClientKept, ServiceInv
  <2>3. QED
    BY <2>1, <2>2 DEF ServiceInv
<1>2. ASSUME NEW s \in Servers, ParentResume(s) PROVE ServiceInv'
  BY <1>1, <1>2 DEF ParentResume, childVars, clientVars
<1>3. ASSUME NEW s \in Servers, Server(s) \/ ServerFault(s) PROVE ServiceInv'
  BY <1>2, <1>3, ServiceAcceptLocal, ServiceAcceptRedirect, ServiceFaults DEF Server
<1>4. ASSUME NEW c \in Clients, ChildQuits(c) \/ ChildCrashes(c) PROVE ServiceInv'
  BY <1>4, ServiceChildEnds DEF ChildQuits, ChildCrashes
<1>5. ASSUME NEW c \in Clients, Connecting(c) \/ Leave(c) \/ Rerun(c) PROVE ServiceInv'
  BY <1>5, ServiceConnect, ServiceClient DEF Connecting
<1>6. CASE UNCHANGED vars
  BY <1>1, <1>6 DEF vars, serverVars, childVars, clientVars
<1>7. QED
  BY <1>3, <1>4, <1>5, <1>6 DEF Next

-----------------------------------------------------------------------------
(***************************************************************************)
(* The invariants of Mirrors.                                              *)
(***************************************************************************)
LEMMA ServiceInit == Init => ServiceInv
<1> SUFFICES ASSUME Init PROVE ServiceInv
  OBVIOUS
<1>1. \A s \in Servers, i \in Nat, c \in Clients : ~In(s, i, c)
  BY AtEmpty DEF Init, In
<1>2. \A c \in Clients : /\ cpc[c] = "start" /\ child[c] = "none" /\ told[c] = "nothing"
                         /\ hops[c] = 0
  BY DEF Init
<1>3. QED
  BY <1>1, <1>2 DEF ServiceInv, Placed, Once, Sound

LEMMA ServiceAlways == Spec => [](TypeInv /\ ServiceInv)
BY TypeInit, TypeStep, ServiceInit, ServiceStep, PTL DEF Spec

\* Whatever the interleaving, a client is in no queue but that of the server it connected
\* to, and there once, unanswered and without a child.
THEOREM WaitsInOnePlace == Spec => []OnePlace
<1>1. ASSUME TypeInv, ServiceInv PROVE OnePlace
  <2>1. ASSUME NEW s \in Servers, NEW i \in 1 .. Len(queue[s])
        PROVE  /\ queue[s][i] \in Clients
               /\ i \in Nat
               /\ In(s, i, queue[s][i])
    <3>1. queue[s] \in Seq(Clients)
      BY <1>1 DEF TypeInv, TypeOK
    <3>2. Len(queue[s]) \in Nat /\ queue[s][i] \in Clients
      BY <3>1, LenProperties, ElementOfSeq
    <3>3. QED
      BY <3>2 DEF In, At
  <2>2. ASSUME NEW s \in Servers, NEW i \in 1 .. Len(queue[s]),
               NEW t \in Servers, NEW j \in 1 .. Len(queue[t]), queue[s][i] = queue[t][j]
        PROVE  s = t /\ i = j
    <3>1. s = t
      BY <1>1, <2>1, <2>2 DEF ServiceInv, Placed
    <3>2. QED
      BY <1>1, <2>1, <2>2, <3>1 DEF ServiceInv, Once
  <2>3. \A s \in Servers : \A i \in 1 .. Len(queue[s]) :
           /\ counter[queue[s][i]] = s /\ cpc[queue[s][i]] = "recv"
           /\ told[queue[s][i]] = "nothing" /\ child[queue[s][i]] = "none"
    BY <1>1, <2>1 DEF ServiceInv, Placed
  <2>4. QED
    BY <2>2, <2>3 DEF OnePlace
<1>2. QED
  BY <1>1, ServiceAlways, PTL

\* A client in recv() is owed an answer, by the queue it is in or by a message on its way,
\* unless the server it connected to has exited.
THEOREM OwedAnAnswer == Spec => []Handshake
<1>1. ASSUME TypeInv, ServiceInv PROVE Handshake
  <2>1. \A c \in Clients : Waiting(c) => Queued(c)
    BY DEF Waiting, In, At, Queued
  <2>2. QED
    BY <1>1, <2>1 DEF ServiceInv, Sound, Handshake
<1>2. QED
  BY <1>1, ServiceAlways, PTL

\* A client reaches its prompt only with a child forked for it, after an exit of the server it
\* was connected to, or with a part of "BSY" read.
THEOREM PromptsWithAChild == Spec => []PromptIsServed
<1>1. ServiceInv => PromptIsServed
  BY DEF ServiceInv, Sound, PromptIsServed
<1>2. QED
  BY <1>1, ServiceAlways, PTL

\* A client that was sent on never returns to the first server while all servers run,
\* although it takes that server's index for the one it reads from a reset connection.
THEOREM SentToMirrors == Spec => []StaysAmongMirrors
<1>1. ServiceInv => StaysAmongMirrors
  BY DEF ServiceInv, Sound, StaysAmongMirrors
<1>2. QED
  BY <1>1, ServiceAlways, PTL

-----------------------------------------------------------------------------
(***************************************************************************)
(* The steps of Placement.                                                 *)
(***************************************************************************)
Stage(c) == CASE child[c] = "none" -> "seeking"
              [] child[c] = "running" -> "served"
              [] child[c] = "ended" -> "left"

\* A step that changes at most one client's child, as Placement's actions do.
LEMMA PlacementSteps == TypeInv /\ ServiceInv /\ [Next]_vars => [Promise!Next]_(Promise!vars)
<1> SUFFICES ASSUME TypeInv, ServiceInv, [Next]_vars PROVE [Promise!Next]_(Promise!vars)
  OBVIOUS
<1> DEFINE stage == [c \in Clients |-> Stage(c)]
<1>1. /\ child \in [Clients -> {"none", "running", "ended"}]
      /\ ppid \in [Clients -> Servers]
  BY DEF TypeInv, TypeOK
<1>2. ASSUME UNCHANGED <<child, ppid>> PROVE UNCHANGED Promise!vars
  BY <1>2 DEF Promise!vars
<1>3. ASSUME NEW s \in Servers, AcceptLocal(s) PROVE Promise!Next
  <2>1. PICK c \in Clients : AcceptLocal(s)!(c)
    BY <1>3 DEF AcceptLocal
  <2>2. child[c] = "none"
    BY <2>1, Dequeues DEF ServiceInv, Placed
  <2>3. child' = [child EXCEPT ![c] = "running"] /\ ppid' = [ppid EXCEPT ![c] = s]
    BY <2>1
  <2>4. /\ stage[c] = "seeking"
        /\ stage' = [stage EXCEPT ![c] = "served"]
    BY <1>1, <2>2, <2>3 DEF Stage
  <2>5. Promise!Serve(c)
    BY <2>3, <2>4 DEF Promise!Serve, Stage
  <2>6. QED
    BY <2>5 DEF Promise!Next
<1>4. ASSUME NEW c \in Clients, ChildEnds(c) PROVE Promise!Next
  <2>1. child[c] = "running" /\ child' = [child EXCEPT ![c] = "ended"] /\ UNCHANGED ppid
    BY <1>4 DEF ChildEnds
  <2>2. /\ stage[c] = "served"
        /\ stage' = [stage EXCEPT ![c] = "left"]
    BY <1>1, <2>1 DEF Stage
  <2>3. Promise!Leave(c)
    BY <2>1, <2>2 DEF Promise!Leave, Stage
  <2>4. QED
    BY <2>3 DEF Promise!Next
<1>5. ASSUME NEW c \in Clients, Rerun(c) PROVE [Promise!Next]_(Promise!vars)
  <2>1. /\ c \in Recurring /\ child[c] # "running"
        /\ child' = [child EXCEPT ![c] = "none"] /\ UNCHANGED ppid
    BY <1>5 DEF Rerun
  <2>2. CASE child[c] = "none"
    BY <1>1, <1>2, <2>1, <2>2
  <2>3. CASE child[c] = "ended"
    <3>1. /\ stage[c] = "left"
          /\ stage' = [stage EXCEPT ![c] = "seeking"]
      BY <1>1, <2>1, <2>3 DEF Stage
    <3>2. Promise!Return(c)
      BY <2>1, <3>1 DEF Promise!Return, Stage
    <3>3. QED
      BY <3>2 DEF Promise!Next
  <2>4. QED
    BY <1>1, <2>1, <2>2, <2>3
<1>6. ASSUME NEW s \in Servers, ParentResume(s) \/ AcceptRedirect(s) \/ ServerFault(s)
      PROVE  UNCHANGED Promise!vars
  BY <1>2, <1>6 DEF ParentResume, AcceptRedirect, ServerFault, AcceptFails, ForkFails, ServerExit,
                    childVars
<1>7. ASSUME NEW c \in Clients, Connecting(c) \/ Leave(c) PROVE UNCHANGED Promise!vars
  BY <1>2, <1>7 DEF Connecting, Connect, ConnectRefused, ReadTag, ReadRedirect, ReadShort,
                    ReadReset, Leave, childVars
<1>8. CASE UNCHANGED vars
  BY <1>2, <1>8 DEF vars, childVars
<1>9. QED
  BY <1>3, <1>4, <1>5, <1>6, <1>7, <1>8 DEF Next, Server, ChildQuits, ChildCrashes

\* The accept loops do to their clients only what Placement allows: nobody is served twice
\* in one run, or by a second server, however often it is sent on.
THEOREM ServesAsPromised == Spec => Promise!Init /\ [][Promise!Next]_(Promise!vars)
<1>1. Init => Promise!Init
  <2> SUFFICES ASSUME Init PROVE Promise!Init
    OBVIOUS
  <2>1. \A c \in Clients : child[c] = "none" /\ ppid[c] = 0
    BY DEF Init
  <2>2. ppid \in [Clients -> Servers]
    BY ServerZero DEF Init
  <2>3. QED
    BY <2>1, <2>2 DEF Promise!Init
<1>2. QED
  BY <1>1, PlacementSteps, ServiceAlways, PTL DEF Spec

=============================================================================
