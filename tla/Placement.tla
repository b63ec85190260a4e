----------------------------- MODULE Placement -----------------------------
(***************************************************************************)
(* What a client of the server and its mirrors is promised, without the    *)
(* counts, the queues and the messages: it looks for a server, is served   *)
(* by one of them, leaves, and may come again.                             *)
(***************************************************************************)
CONSTANTS Clients, Recurring, Servers

VARIABLES
    stage,  \* [client -> where it is in its run]
    by      \* [client -> the server of its last, or current, session]

vars == <<stage, by>>

Init == /\ stage = [c \in Clients |-> "seeking"]
        /\ by \in [Clients -> Servers]

Serve(c) == \E s \in Servers :
    /\ stage[c] = "seeking"
    /\ stage' = [stage EXCEPT ![c] = "served"]
    /\ by' = [by EXCEPT ![c] = s]

Leave(c) ==
    /\ stage[c] = "served"
    /\ stage' = [stage EXCEPT ![c] = "left"]
    /\ UNCHANGED by

Return(c) ==
    /\ c \in Recurring
    /\ stage[c] = "left"
    /\ stage' = [stage EXCEPT ![c] = "seeking"]
    /\ UNCHANGED by

Next == \E c \in Clients : Serve(c) \/ Leave(c) \/ Return(c)

\* No client looks for a server for ever.
Spec == Init /\ [][Next]_vars /\ \A c \in Clients : WF_vars(Serve(c))

=============================================================================
