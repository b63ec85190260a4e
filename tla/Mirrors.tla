------------------------------ MODULE Mirrors ------------------------------
(***************************************************************************)
(* The accept loops of the server program and of its mirrors (server.c,    *)
(* start_server), together with the connecting part of the client program  *)
(* (client/app/main.c, from the label start to the prompt).                *)
(*                                                                         *)
(* Every instance of the server program runs the same loop: it counts the  *)
(* connections it has accepted, keeps the ones whose count falls in the    *)
(* first third of every nine (it tells the client "CTS" and forks a child  *)
(* for it) and answers the others with "BSY" and the index of a mirror.  A *)
(* client that is told "BSY" closes, and connects to that index of its     *)
(* srvr_list; the mirror applies the same rule to its own count, so it may *)
(* send the client on again, even to itself.                               *)
(***************************************************************************)
EXTENDS Naturals, Sequences, FiniteSets

CONSTANTS
    Clients,      \* the sessions there can be at one time: a client process and its child
    Recurring,    \* those that a user takes again once both have ended
    NoClient,     \* a value that is not a client
    IntMax,       \* INT_MAX, the modulus of no_of_clients
    Backlog,      \* MAX_QUEUE_SIZE, the length of a listen queue
    StartCounts,  \* counts the servers may have reached when the clients arrive
    Fallible,     \* the servers at which accept() or fork() may fail
    Short,        \* the clients whose recv() of a tag may return only a part of it
    HopCap        \* bound of the history variable hops, which stops counting there

ASSUME MirrorsAssumption ==
    /\ IsFiniteSet(Clients)
    /\ Recurring \subseteq Clients
    /\ NoClient \notin Clients
    /\ IntMax \in Nat /\ IntMax >= 9
    /\ Backlog \in Nat \ {0}
    /\ StartCounts \subseteq 0 .. IntMax - 1
    /\ Fallible \subseteq 0 .. 2
    /\ Short \subseteq Clients
    /\ HopCap \in Nat \ {0}

VARIABLES
    up,             \* the servers whose process is in its accept loop
    no_of_clients,  \* [server -> count] connections accepted so far, modulo IntMax
    queue,          \* [server -> sequence of clients] the kernel's listen queue
    forking,        \* [server -> client] whose fork branch the parent is in, or NoClient
    held,           \* [server -> set of clients] client sockets the parent has open
    zombies,        \* [server -> number] of its ended children not yet waited for
    child,          \* [client -> state] of the process forked for this run of it
    ppid,           \* [client -> server] that forked that process
    fds,            \* [client -> set of clients] client sockets that process has open
    told,           \* [client -> message] waiting in the client's socket
    redirect_to,    \* [client -> characters] after a "BSY"
    response_t,     \* [client -> message] main()'s buffer of the tag, "" at first, or "C" or
                    \* "B": the first bytes of a tag of which no more was received
    cpc,            \* [client -> place] in main()
    counter,        \* [client -> index] into srvr_list
    hops,           \* history: [client -> number] of redirections of this run
    rows            \* history: [server -> numbers] the connections it has just kept in a row,
                    \* or has just sent on in a row

serverVars == <<up, no_of_clients, queue, forking, held, zombies>>
childVars  == <<child, ppid, fds>>
clientVars == <<told, redirect_to, response_t, cpc, counter>>
vars == <<serverVars, childVars, clientVars, hops, rows>>

\* The positions of client/app/main.c's srvr_list at which a server runs:
\* 0 is the server, 1 and 2 are its mirrors.
Servers == 0 .. 2

-----------------------------------------------------------------------------
(***************************************************************************)
(* The text of a number.  A character is its digit, or NonDigit.           *)
(***************************************************************************)
NonDigit == 10
Chars == 0 .. NonDigit

\* ulong_to_string writes one character for each digit of the value; for 0 it
\* allocates the character and leaves it uninitialised, so it may be any.
\* (Only values below 10 are converted here, so the text is one character.)
ulong_to_string(value) == IF value = 0 THEN Chars ELSE {value}

\* atoi of a text of one character; a text without a digit reads as 0.
atoi(char) == IF char = NonDigit THEN 0 ELSE char

\* Mutants: four of every nine are kept; a group of ten.
srvr_idxByFour(n) == (n % 9) \div 4
srvr_idxOfTen(n) == (n % 10) \div 3

\* Which entry of srvr_list takes the connection that finds the count at n.
srvr_idx(n) == (n % 9) \div 3

\* The rows of a server that has accepted n connections, in closed form: it keeps three,
\* then sends six on.
Turn(n) ==
    [kept |-> IF n % 9 <= 3 THEN n % 9 ELSE 0,
     sent |-> IF n % 9 > 3 THEN (n % 9) - 3 ELSE IF n % 9 = 0 /\ n # 0 THEN 6 ELSE 0]

-----------------------------------------------------------------------------
Init ==
    /\ up = Servers
    /\ no_of_clients \in [Servers -> StartCounts]
    /\ queue = [s \in Servers |-> <<>>]
    /\ forking = [s \in Servers |-> NoClient]
    /\ held = [s \in Servers |-> {}]
    /\ zombies = [s \in Servers |-> 0]
    /\ child = [c \in Clients |-> "none"]
    /\ ppid = [c \in Clients |-> 0]
    /\ fds = [c \in Clients |-> {}]
    /\ told = [c \in Clients |-> "nothing"]
    /\ redirect_to = [c \in Clients |-> NonDigit]
    /\ response_t = [c \in Clients |-> ""]
    /\ cpc = [c \in Clients |-> "start"]
    /\ counter = [c \in Clients |-> 0]
    /\ hops = [c \in Clients |-> 0]
    /\ rows = [s \in Servers |-> Turn(no_of_clients[s])]

(***************************************************************************)
(* The server's loop.  The count is advanced at the end of every iteration *)
(* that does not end the process.                                          *)
(***************************************************************************)
\* Mutant: the count is advanced without the modulus.
CountedOn(s) == no_of_clients[s] + 1

Counted(s) == (no_of_clients[s] + 1) % IntMax

\* One more is kept, or sent on.
OneMore(row, kept) ==
    IF kept THEN [kept |-> row.kept + 1, sent |-> 0] ELSE [kept |-> 0, sent |-> row.sent + 1]

\* Mutant: only the connections that are kept are counted.
CountKept(s, kept) ==
    /\ no_of_clients' = [no_of_clients EXCEPT ![s] = IF kept THEN Counted(s) ELSE @]
    /\ rows' = [rows EXCEPT ![s] = IF kept THEN OneMore(@, kept) ELSE @]

CountConnection(s, kept) ==
    /\ no_of_clients' = [no_of_clients EXCEPT ![s] = Counted(s)]
    /\ rows' = [rows EXCEPT ![s] = OneMore(@, kept)]

\* accept() returns, or would return, the next connection.
AtAccept(s) == s \in up /\ forking[s] = NoClient

Accepts(s, c) ==
    /\ AtAccept(s)
    /\ queue[s] # <<>>
    /\ c = Head(queue[s])
    /\ queue' = [queue EXCEPT ![s] = Tail(@)]

\* The connection is kept: "CTS" is sent and a child is forked, which inherits
\* every client socket the parent has open.
AcceptLocal(s) == \E c \in Clients :
    /\ Accepts(s, c)
    /\ srvr_idx(no_of_clients[s]) = 0
    /\ told' = [told EXCEPT ![c] = "CTS"]
    /\ forking' = [forking EXCEPT ![s] = c]
    /\ held' = [held EXCEPT ![s] = @ \cup {c}]
    /\ child' = [child EXCEPT ![c] = "running"]
    /\ ppid' = [ppid EXCEPT ![c] = s]
    /\ fds' = [fds EXCEPT ![c] = held'[s]]
    /\ UNCHANGED <<up, no_of_clients, zombies, redirect_to, response_t, cpc, counter, hops, rows>>

\* Mutants: the parent keeps its copy of the socket; it does not reap.
StillOpen(s) == held[s]
StillUnreaped(s) == zombies[s]

\* What close(fd_clnt_sckt) leaves open, and what the loop on waitpid leaves unreaped.
AfterClose(s) == held[s] \ {forking[s]}
AfterWait(s) == 0

\* The parent after fork(): it closes its copy of the socket, reaps every child
\* that has ended by now, and counts the connection.
ParentResume(s) ==
    /\ s \in up
    /\ forking[s] # NoClient
    /\ held' = [held EXCEPT ![s] = AfterClose(s)]
    /\ forking' = [forking EXCEPT ![s] = NoClient]
    /\ zombies' = [zombies EXCEPT ![s] = AfterWait(s)]
    /\ CountConnection(s, TRUE)
    /\ UNCHANGED <<up, queue, childVars, clientVars, hops>>

\* The connection is sent on: "BSY", the index of a mirror, close.
AcceptRedirect(s) == \E c \in Clients :
    /\ Accepts(s, c)
    /\ srvr_idx(no_of_clients[s]) # 0
    /\ told' = [told EXCEPT ![c] = "BSY"]
    /\ \E char \in ulong_to_string(srvr_idx(no_of_clients[s])) :
          redirect_to' = [redirect_to EXCEPT ![c] = char]
    /\ CountConnection(s, FALSE)
    /\ UNCHANGED <<up, forking, held, zombies, childVars, response_t, cpc, counter, hops>>

\* The process ends: its sockets are closed, the connections still in its listen
\* queue are reset, its ended children are reaped by init.
ServerExit(s) ==
    /\ up' = up \ {s}
    /\ held' = [held EXCEPT ![s] = {}]
    /\ zombies' = [zombies EXCEPT ![s] = 0]
    /\ UNCHANGED <<no_of_clients, forking, childVars, redirect_to, response_t, cpc, counter,
                   hops, rows>>

\* accept() fails: exit(EXIT_FAILURE).
AcceptFails(s) ==
    /\ s \in Fallible
    /\ AtAccept(s)
    /\ queue' = [queue EXCEPT ![s] = <<>>]
    /\ ServerExit(s)
    /\ UNCHANGED told

\* fork() fails, after "CTS" was sent: exit(EXIT_SUCCESS_CODE).
ForkFails(s) == \E c \in Clients :
    /\ s \in Fallible
    /\ AtAccept(s)
    /\ queue[s] # <<>>
    /\ c = Head(queue[s])
    /\ srvr_idx(no_of_clients[s]) = 0
    /\ told' = [told EXCEPT ![c] = "CTS"]
    /\ queue' = [queue EXCEPT ![s] = <<>>]
    /\ ServerExit(s)

Server(s) == AcceptLocal(s) \/ ParentResume(s) \/ AcceptRedirect(s)
ServerFault(s) == AcceptFails(s) \/ ForkFails(s)

-----------------------------------------------------------------------------
(***************************************************************************)
(* The child forked for a client.  What it does with requests is not this  *)
(* module's subject: it ends when the client has ended, and it may end     *)
(* before (a failed search calls exit, a fault of its heap kills it).      *)
(***************************************************************************)
ChildEnds(c) ==
    /\ child[c] = "running"
    /\ child' = [child EXCEPT ![c] = "ended"]
    /\ fds' = [fds EXCEPT ![c] = {}]
    /\ zombies' = [zombies EXCEPT ![ppid[c]] = IF ppid[c] \in up THEN @ + 1 ELSE @]
    /\ UNCHANGED <<up, no_of_clients, queue, forking, held, ppid, clientVars, hops, rows>>

ChildQuits(c)   == cpc[c] = "ended" /\ ChildEnds(c)
ChildCrashes(c) == cpc[c] # "ended" /\ ChildEnds(c)

-----------------------------------------------------------------------------
(***************************************************************************)
(* The client, up to its prompt.                                           *)
(***************************************************************************)
\* connect() succeeds when the listen queue has room, and waits until it has.
Connect(c) ==
    /\ cpc[c] = "start"
    /\ counter[c] \in up
    /\ Len(queue[counter[c]]) < Backlog
    /\ queue' = [queue EXCEPT ![counter[c]] = Append(@, c)]
    /\ cpc' = [cpc EXCEPT ![c] = "recv"]
    /\ UNCHANGED <<up, no_of_clients, forking, held, zombies, childVars, told, redirect_to,
                   response_t, counter, hops, rows>>

\* connect() is refused: "Connection failed", return 1.
ConnectRefused(c) ==
    /\ cpc[c] = "start"
    /\ counter[c] \notin up
    /\ cpc' = [cpc EXCEPT ![c] = "ended"]
    /\ UNCHANGED <<serverVars, childVars, told, redirect_to, response_t, counter, hops, rows>>

\* Mutants: the client always starts over; it never does.
AfterTagStart(tag) == "start"
AfterTagPrompt(tag) == "prompt"

\* "BSY" leads to start, anything else to the prompt.
AfterTag(tag) == IF tag = "BSY" THEN "start" ELSE "prompt"

\* The tag is received in full: at once, of a text of three bytes.
ReadTag(c) ==
    /\ cpc[c] = "recv"
    /\ told[c] = "CTS"
    /\ told' = [told EXCEPT ![c] = "nothing"]
    /\ response_t' = [response_t EXCEPT ![c] = "CTS"]
    /\ cpc' = [cpc EXCEPT ![c] = AfterTag("CTS")]
    /\ UNCHANGED <<serverVars, childVars, redirect_to, counter, hops, rows>>

\* "BSY": the index follows; the client closes and goes to start.
ReadRedirect(c) ==
    /\ cpc[c] = "recv"
    /\ told[c] = "BSY"
    /\ told' = [told EXCEPT ![c] = "nothing"]
    /\ response_t' = [response_t EXCEPT ![c] = "BSY"]
    /\ counter' = [counter EXCEPT ![c] = atoi(redirect_to[c])]
    /\ redirect_to' = [redirect_to EXCEPT ![c] = NonDigit]
    /\ cpc' = [cpc EXCEPT ![c] = AfterTag("BSY")]
    /\ hops' = [hops EXCEPT ![c] = IF @ < HopCap THEN @ + 1 ELSE @]
    /\ UNCHANGED <<serverVars, childVars, rows>>

\* recv() returns one or two bytes of a tag: it is neither "BSY" nor anything else the client
\* knows, and it goes to its prompt.  What is left in the socket is the module Session's.
ReadShort(c) ==
    /\ c \in Short
    /\ cpc[c] = "recv"
    /\ told[c] # "nothing"
    /\ told' = [told EXCEPT ![c] = "nothing"]
    /\ redirect_to' = [redirect_to EXCEPT ![c] = NonDigit]
    /\ response_t' = [response_t EXCEPT ![c] = IF told[c] = "CTS" THEN "C" ELSE "B"]
    /\ cpc' = [cpc EXCEPT ![c] = AfterTag(response_t'[c])]
    /\ UNCHANGED <<serverVars, childVars, counter, hops, rows>>

\* The connection was reset while it was queued, so recv() fails and response_t keeps
\* what it held.  After a redirection that is "BSY": the next recv() returns no byte,
\* atoi reads the empty text as 0, and the client starts over at the first server.
\* On its first connection the client goes on to its prompt.
Queued(c) == \E s \in Servers : \E i \in 1 .. Len(queue[s]) : queue[s][i] = c

ReadReset(c) ==
    /\ cpc[c] = "recv"
    /\ told[c] = "nothing"
    /\ ~Queued(c)
    /\ cpc' = [cpc EXCEPT ![c] = AfterTag(response_t[c])]
    /\ counter' = IF response_t[c] = "BSY" THEN [counter EXCEPT ![c] = 0] ELSE counter
    /\ UNCHANGED <<serverVars, childVars, told, redirect_to, response_t, hops, rows>>

\* The user quits.
Leave(c) ==
    /\ cpc[c] = "prompt"
    /\ cpc' = [cpc EXCEPT ![c] = "ended"]
    /\ UNCHANGED <<serverVars, childVars, told, redirect_to, response_t, counter, hops, rows>>

\* A user starts the program, where the client of the last run and its child have ended: one
\* who starts it while that child still runs is another of Clients.
Rerun(c) ==
    /\ c \in Recurring
    /\ cpc[c] = "ended"
    /\ child[c] # "running"
    /\ \A s \in Servers : forking[s] # c
    /\ child' = [child EXCEPT ![c] = "none"]
    /\ cpc' = [cpc EXCEPT ![c] = "start"]
    /\ counter' = [counter EXCEPT ![c] = 0]
    /\ response_t' = [response_t EXCEPT ![c] = ""]
    /\ hops' = [hops EXCEPT ![c] = 0]
    /\ UNCHANGED <<serverVars, ppid, fds, told, redirect_to, rows>>

Connecting(c) ==
    \/ Connect(c) \/ ConnectRefused(c)
    \/ ReadTag(c) \/ ReadRedirect(c) \/ ReadShort(c) \/ ReadReset(c)

-----------------------------------------------------------------------------
Next ==
    \/ \E s \in Servers : Server(s) \/ ServerFault(s)
    \/ \E c \in Clients : ChildQuits(c) \/ ChildCrashes(c)
    \/ \E c \in Clients : Connecting(c) \/ Leave(c) \/ Rerun(c)

\* The processes are scheduled; the user may stay at the prompt for ever, and no
\* system call has to fail.
Fairness ==
    /\ \A s \in Servers : WF_vars(Server(s))
    /\ \A c \in Clients : WF_vars(Connecting(c)) /\ WF_vars(ChildQuits(c))

Spec == Init /\ [][Next]_vars /\ Fairness

-----------------------------------------------------------------------------
(***************************************************************************)
(* Properties.                                                             *)
(***************************************************************************)

\* The variables have their types.
TypeOK ==
    /\ up \subseteq Servers
    /\ no_of_clients \in [Servers -> 0 .. IntMax - 1]
    /\ queue \in [Servers -> Seq(Clients)]
    /\ forking \in [Servers -> Clients \cup {NoClient}]
    /\ held \in [Servers -> SUBSET Clients]
    /\ zombies \in [Servers -> Nat]
    /\ child \in [Clients -> {"none", "running", "ended"}]
    /\ ppid \in [Clients -> Servers]
    /\ fds \in [Clients -> SUBSET Clients]
    /\ told \in [Clients -> {"nothing", "CTS", "BSY"}]
    /\ redirect_to \in [Clients -> Chars]
    /\ response_t \in [Clients -> {"", "CTS", "BSY", "C", "B"}]
    /\ cpc \in [Clients -> {"start", "recv", "prompt", "ended"}]
    /\ counter \in [Clients -> Servers]
    /\ hops \in [Clients -> 0 .. HopCap]
    /\ rows \in [Servers -> [kept : Nat, sent : Nat]]

\* A connection is private to its child: between two accepts the server's process
\* has no client socket open (it closes its copy after fork and after "BSY"), and
\* a child has inherited no socket but its own client's.
ConnectionsArePrivate ==
    /\ \A s \in Servers : held[s] = IF forking[s] = NoClient THEN {} ELSE {forking[s]}
    /\ \A c \in Clients : fds[c] = IF child[c] = "running" THEN {c} ELSE {}

\* However often a client is sent on, it never waits at two servers or twice at one,
\* it waits where it connected to, and no server has answered or serves it meanwhile.
OnePlace == \A s \in Servers : \A i \in 1 .. Len(queue[s]) :
    /\ counter[queue[s][i]] = s
    /\ cpc[queue[s][i]] = "recv"
    /\ told[queue[s][i]] = "nothing"
    /\ child[queue[s][i]] = "none"
    /\ \A t \in Servers : \A j \in 1 .. Len(queue[t]) :
           queue[s][i] = queue[t][j] => s = t /\ i = j

\* A client blocked in recv() has an answer waiting, or is still in the queue of the
\* server it connected to, or that server has exited: it never waits for nothing.
\* Only a client told "CTS" has a child, and an answer is never left behind unread.
Handshake == \A c \in Clients :
    /\ cpc[c] = "start" => child[c] = "none"
    /\ cpc[c] = "recv" /\ told[c] # "CTS" => child[c] = "none"
    /\ cpc[c] = "recv" /\ told[c] = "nothing" => Queued(c) \/ counter[c] \notin up
    /\ told[c] # "nothing" => cpc[c] = "recv"

\* A client that was sent on is looking for a mirror: the index it has read is one of
\* a mirror and, unless a server has exited, never the first server's again.
StaysAmongMirrors == \A c \in Clients :
    /\ hops[c] > 0 /\ up = Servers => counter[c] # 0
    /\ told[c] = "BSY" => redirect_to[c] \in Servers \ {0}

\* A client that is told "CTS", or has reached its prompt, has had a child forked for it,
\* unless the server it was connected to has exited, or, at the prompt, the client has read a
\* part of "BSY", and prompts on a connection the server has closed.
PromptIsServed == \A c \in Clients :
    /\ told[c] = "CTS" => child[c] # "none" \/ counter[c] \notin up
    /\ cpc[c] = "prompt" => child[c] # "none" \/ counter[c] \notin up \/ response_t[c] = "B"

\* Behind a wrap of the count the three that are kept come on top of what was kept before.
Shift == IF IntMax % 9 \in 1 .. 3 THEN IntMax % 9 ELSE 0
Wrapped(n) == IF n = 0 THEN Turn(IntMax) ELSE [Turn(n) EXCEPT !.kept = @ + Shift]

\* However its clients come and go, a server keeps three connections in a row, then sends six
\* on.  Where the count wraps at INT_MAX, which leaves the remainder 1 when divided by 9, it
\* keeps four, and then sends six on again.
LoadShare == \A s \in Servers :
    \/ rows[s] = Turn(no_of_clients[s])
    \/ no_of_clients[s] <= 3 /\ rows[s] = Wrapped(no_of_clients[s])

Children(s) == {c \in Clients : child[c] = "running" /\ ppid[c] = s}

\* Reaping only in the fork branch is enough: the entries a server takes in the
\* process table never exceed the clients there are, but for the one just forked,
\* however many connections it has accepted or sent on.
ProcessesBounded == \A s \in Servers :
    Cardinality(Children(s)) + zombies[s]
        <= Cardinality(Clients) + (IF forking[s] = NoClient THEN 0 ELSE 1)

\* Where no client starts twice and no server exits, no client is sent on more often than
\* 13 times, by the server once and by each mirror for the six counts of a turn, and six
\* times more for every three of the others, which a mirror keeps before another turn.
MaxHops == 13 + 6 * ((Cardinality(Clients) - 1) \div 3)
HopsBounded == \A c \in Clients : hops[c] <= MaxHops

\* What the accept loops promise their clients (module Placement): every client is
\* in the end served, by one server, and that server stays the same.
Promise == INSTANCE Placement WITH
    stage <- [c \in Clients |-> CASE child[c] = "none" -> "seeking"
                                   [] child[c] = "running" -> "served"
                                   [] child[c] = "ended" -> "left"],
    by <- ppid
PlacementSpec == Promise!Spec

=============================================================================
