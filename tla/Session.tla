------------------------------ MODULE Session ------------------------------
(***************************************************************************)
(* One connection after "CTS": the loop of the client program at its       *)
(* prompt (client/app/main.c) and the loop of the child the server forked  *)
(* for it (srvrutil.h, process_request and the handle_ functions).         *)
(*                                                                         *)
(* Neither side frames what it sends.  The socket is two streams: requests *)
(* flow in c2s and bytes in s2c.  The client tells a reply by its first    *)
(* three bytes: an archive ("TAR") ends with the first read() that does    *)
(* not fill the buffer, a text ("TXT") with a recv() whose last four bytes *)
(* are the trailer "7@5!", and after anything else the client prompts.     *)
(*                                                                         *)
(* What can go wrong is recorded, never excluded: the history variable     *)
(* cause names the first event of the session that the protocol does not   *)
(* provide for.  The constant Hazards switches those on that depend on     *)
(* the network, on memory nobody initialised, or on a failing file system, *)
(* the child's ("failure") or the client's ("disk").                       *)
(***************************************************************************)
EXTENDS Naturals, Sequences, SequencesExt

CONSTANTS
    Block,        \* 1024, the file blocks of both sides
    TextBuf,      \* sizeof(buffer)-1, what the client's recv() of a text may return
    ErrorLen,     \* the length of a reply that has no tag
    Lines,        \* the lengths a send() of a text may have
    MaxLines,     \* the number of such sends in one reply
    ArchiveSizes, \* the sizes the archive may have
    MaxCommands,  \* the commands one user enters, bounding the run
    Hazards       \* a subset of {"short", "garbled", "cts", "failure", "heap", "disk"}

ASSUME SessionAssumption ==
    /\ Block \in Nat \ {0}
    /\ TextBuf \in Nat /\ TextBuf > 5
    /\ ErrorLen \in Nat /\ ErrorLen > 3
    /\ Lines \subseteq Nat \ {0}
    /\ MaxLines \in Nat
    /\ ArchiveSizes \subseteq Nat
    /\ MaxCommands \in Nat
    /\ Hazards \subseteq {"short", "garbled", "cts", "failure", "heap", "disk"}

VARIABLES
    client,    \* where main() is: at its prompt, or in one of its reads
    args,      \* main.c's global args: "NULL", or "stale" once a command had one
    server,    \* where the child is: in read(), sending its reply, or gone
    out,       \* the sends of its reply the child has still to do
    c2s,       \* the requests not yet read
    s2c,       \* the bytes not yet read
    refused,   \* the client has sent to a child that was gone
    commands,  \* commands the user has entered
    shown,     \* bytes of text printed for the last command
    saved,     \* bytes written to temp.tar.gz for the last command
    due,       \* history: what the child answered to its last request, and the size of its
               \* archive, or of what it has sent of its text
    cause      \* history: the first event the protocol does not provide for

vars == <<client, args, server, out, c2s, s2c, refused, commands, shown, saved, due, cause>>

-----------------------------------------------------------------------------
(***************************************************************************)
(* Requests.  A command the user types has its arguments as the README     *)
(* asks ("good"), none, or some that only one of the two sides refuses     *)
(* ("bad": one size, or a size like 12x; four extensions).                 *)
(***************************************************************************)
Request == [cmd : {"dirlist", "w24fn", "w24fz", "w24ft", "date"}, args : {"good", "none"}]
              \cup [cmd : {"w24fz", "w24ft"}, args : {"bad"}]

Quit == [cmd |-> "quit", args |-> "good"]

\* What verify_input can return, the arguments kept from earlier commands included;
\* "crash" is a NULL passed to strcmp or strptime.
verify_input(r) ==
    CASE r.cmd \in {"dirlist", "date"} ->
            IF r.args = "good" THEN {"0"} ELSE IF args = "NULL" THEN {"crash"} ELSE {"-1"}
      [] r.cmd = "w24fz" ->
            IF r.args = "good" \/ args = "NULL" THEN {"0"} ELSE {"0", "-1"}
      [] r.cmd \in {"w24fn", "w24ft"} -> {"0"}

\* A search whose walk or copy fails may call exit, and one that frees the path of the
\* last search again may be aborted.
Failure == IF "failure" \in Hazards THEN {"exit"} ELSE {}

\* What process_request answers to a request it reads as it was sent ...
Answers(r) ==
    CASE r.args = "none" -> {"ERR"}
      [] r.args = "bad" -> {"silent"}
      [] r.cmd = "dirlist" /\ r.args = "good" -> {"text", "404"}
      [] r.cmd = "w24fn" /\ r.args = "good" -> {"text", "miss"} \cup Failure
      [] r.cmd \in {"w24fz", "date"} /\ r.args = "good" -> {"tar", "404"} \cup Failure
      [] r.cmd = "w24ft" /\ r.args = "good" -> {"tar"} \cup Failure
      [] r.cmd = "quit" -> {"quit"}

\* ... and to one followed by other bytes, which lengthen its last word and may add others:
\* the arguments it has not got, a digit or a letter of a size, or an extension too many.
AlteredAnswers(r) ==
    LET searched == Answers([r EXCEPT !.args = "good"])
                       \cup (IF r.cmd \in {"w24fz", "w24ft"} THEN {"silent"} ELSE {})
    IN  CASE r.cmd = "quit" -> {"ERR", "invalid", "quit"}
          [] r.cmd = "dirlist" /\ r.args = "good" -> {"invalid"}
          [] r.cmd = "w24ft" /\ r.args = "bad" -> {"silent"}
          [] r.args = "none" -> {"ERR", "invalid"} \cup searched
          [] OTHER -> searched

(***************************************************************************)
(* Replies, as the sequence of the sends.                                  *)
(***************************************************************************)
TXT == <<"T", "X", "T">>
TAR == <<"T", "A", "R">>
LAST_MSG_END == <<"7", "@", "5", "!">>
Bytes(b, n) == [i \in 1 .. n |-> b]

\* Mutants: no tag; no trailer; the trailer sent from an array with no zero behind it.
TextReplyUntagged(t) == [i \in 1 .. Len(t) |-> Bytes("t", t[i])] \o <<LAST_MSG_END>>
TextReplyUnended(t) == <<TXT>> \o [i \in 1 .. Len(t) |-> Bytes("t", t[i])]
TextReplyOverread(t) == TextReplyUnended(t) \o <<LAST_MSG_END \o <<"g">>>>

\* The lines of a text; a listing of a home without directories has none.
Texts == UNION {[1 .. k -> Lines] : k \in 0 .. MaxLines}
TextReply(t) == <<TXT>> \o [i \in 1 .. Len(t) |-> Bytes("t", t[i])] \o <<LAST_MSG_END>>

\* Mutant: only whole blocks are sent.
TarReplyWhole(size) == <<TAR>> \o Bytes(Bytes("d", Block), size \div Block)

\* send_tar_to_client: whole blocks, then what is left, nothing if that is nothing.
TarReply(size) ==
    <<TAR>> \o Bytes(Bytes("d", Block), size \div Block)
            \o (IF size % Block = 0 THEN <<>> ELSE <<Bytes("d", size % Block)>>)

\* The bytes of text in one send of a text.
TextIn(part) == IF part \in {TXT, LAST_MSG_END} THEN 0 ELSE Len(part)

-----------------------------------------------------------------------------
Init ==
    /\ client = "prompt"
    /\ args = "NULL"
    /\ server = "read"
    /\ out = <<>>
    /\ c2s = <<>>
    \* "CTS" is sent from a char[3], up to the first zero byte behind it, and the client's
    \* recv() of it may leave a part in the socket: one byte stands for what is there.
    /\ s2c \in {<<>>} \cup (IF "cts" \in Hazards THEN {<<"g">>} ELSE {})
    /\ refused = FALSE
    /\ commands = 0
    /\ shown = 0
    /\ saved = 0
    /\ due = [answer |-> "none", size |-> 0]
    /\ cause = IF s2c = <<>> THEN "none" ELSE "cts"

Blame(event) == cause' = IF cause = "none" THEN event ELSE cause

-----------------------------------------------------------------------------
(***************************************************************************)
(* The client at its prompt.                                               *)
(***************************************************************************)
\* A command that verify_input accepts is sent, and its answer awaited.  The first
\* send to a child that has gone is answered with a reset, the next kills the client.
Command(r) ==
    /\ client = "prompt"
    /\ commands < MaxCommands
    /\ commands' = commands + 1
    /\ args' = IF r.args = "none" THEN args ELSE "stale"
    /\ \/ /\ "crash" \in verify_input(r)
          /\ client' = "ended"
          /\ s2c' = <<>>
          /\ UNCHANGED <<c2s, refused, shown, saved>>
       \/ /\ "-1" \in verify_input(r)
          /\ UNCHANGED <<client, c2s, s2c, refused, shown, saved>>
       \/ /\ "0" \in verify_input(r)
          /\ shown' = 0
          /\ saved' = 0
          /\ \/ /\ server # "gone"
                /\ c2s' = Append(c2s, r)
                /\ client' = "reply"
                /\ UNCHANGED <<s2c, refused>>
             \/ /\ server = "gone" /\ ~refused
                /\ refused' = TRUE
                /\ client' = "reply"
                /\ UNCHANGED <<c2s, s2c>>
             \/ /\ server = "gone" /\ refused
                /\ client' = "ended"
                /\ s2c' = <<>>
                /\ UNCHANGED <<c2s, refused>>
    /\ UNCHANGED <<server, out, due, cause>>

\* "quit" is sent and the socket closed; an empty line ends the loop without a word.
Leave ==
    /\ client = "prompt"
    /\ client' = "ended"
    /\ s2c' = <<>>
    /\ c2s' \in {c2s, Append(c2s, Quit)}
    /\ UNCHANGED <<args, server, out, refused, commands, shown, saved, due, cause>>

(***************************************************************************)
(* The client's reads.  A read returns what there is, up to its buffer; if *)
(* the network delivers in pieces ("short") it may return less.            *)
(***************************************************************************)
Min2(m, n) == IF m < n THEN m ELSE n

Reads(cap) ==
    IF "short" \in Hazards THEN 1 .. Min2(cap, Len(s2c)) ELSE {Min2(cap, Len(s2c))}

Received(n) == SubSeq(s2c, 1, n)
Take(n) == s2c' = SubSeq(s2c, n + 1, Len(s2c))
IsShort(n, cap) == n < Min2(cap, Len(s2c))

Expects(response_t) ==
    CASE response_t = TAR -> "file"
      [] response_t = TXT -> "text"
      [] OTHER -> "prompt"

\* The three bytes of response_t.  When temp.tar.gz cannot be opened receive_file returns
\* without a read, and the archive stays in the socket.
ReadReply ==
    /\ client = "reply"
    /\ s2c # <<>>
    /\ \E n \in Reads(3) :
          /\ Take(n)
          /\ \/ /\ client' = Expects(Received(n))
                /\ IF IsShort(n, 3) THEN Blame("short") ELSE UNCHANGED cause
             \/ /\ "disk" \in Hazards
                /\ Expects(Received(n)) = "file"
                /\ client' = "prompt"
                /\ Blame("unsaved")
    /\ UNCHANGED <<args, server, out, c2s, refused, commands, shown, saved, due>>

\* Mutants: the text ends with a short read, as a file does; a byte too few is printed.
EndsTextShort(chunk) == Len(chunk) < TextBuf
PrintedLess(n) == IF n > 4 + 1 THEN n - 5 ELSE 0

\* The chunk has the trailer at its end; a chunk of fewer bytes is compared together with
\* what memory holds in front of the buffer, which may be the start of the trailer; how
\* many of n bytes with the trailer are printed; the chunk ends inside the trailer.
EndsText(chunk) == IsSuffix(LAST_MSG_END, chunk)
MayEndText(chunk) == Len(chunk) < 4 /\ IsSuffix(chunk, LAST_MSG_END)
Printed(n) == IF n > 4 + 1 THEN n - 4 ELSE 0
EndsInside(chunk) == \E i \in 1 .. 3 : IsSuffix(SubSeq(LAST_MSG_END, 1, i), chunk)

\* A chunk of a text.  One that ends inside the trailer is printed, and the rest is
\* not recognised; of five bytes with the trailer the one before it is not printed.
ReadText ==
    /\ client = "text"
    /\ s2c # <<>>
    /\ \E n \in Reads(TextBuf) :
          /\ Take(n)
          /\ \/ /\ EndsText(Received(n)) \/ MayEndText(Received(n))
                /\ shown' = shown + Printed(n)
                /\ client' = "prompt"
                /\ IF n = 4 + 1 THEN Blame("five") ELSE UNCHANGED cause
             \/ /\ ~EndsText(Received(n))
                /\ shown' = shown + n
                /\ UNCHANGED client
                /\ IF EndsInside(Received(n)) THEN Blame("split") ELSE UNCHANGED cause
    /\ UNCHANGED <<args, server, out, c2s, refused, commands, saved, due>>

\* receive_file: a read that does not fill the block is taken for the last; nobody looks at
\* what write() returns, which may have stored less.
ReadFile ==
    /\ client = "file"
    /\ s2c # <<>>
    /\ \E n \in Reads(Block) :
          /\ Take(n)
          /\ client' = IF n < Block THEN "prompt" ELSE "file"
          /\ \/ /\ saved' = saved + n
                /\ IF IsShort(n, Block) THEN Blame("short") ELSE UNCHANGED cause
             \/ /\ "disk" \in Hazards
                /\ \E m \in 0 .. n - 1 : saved' = saved + m
                /\ Blame("unsaved")
    /\ UNCHANGED <<args, server, out, c2s, refused, commands, shown, due>>

\* The child has gone and nothing is left to read: every loop of reads ends.
ReadEnd ==
    /\ client \in {"reply", "text", "file"}
    /\ s2c = <<>>
    /\ server = "gone"
    /\ client' = "prompt"
    /\ UNCHANGED <<args, server, out, c2s, s2c, refused, commands, shown, saved, due, cause>>

ClientReads == ReadReply \/ ReadText \/ ReadFile \/ ReadEnd

-----------------------------------------------------------------------------
(***************************************************************************)
(* The child.                                                              *)
(***************************************************************************)
Reply(answer, size, sends) ==
    /\ due' = [answer |-> answer, size |-> size]
    /\ out' = sends
    /\ server' = IF sends = <<>> THEN "read" ELSE "send"

AnswerText == \E t \in Texts :
    /\ Reply("text", 0, TextReply(t))
    /\ UNCHANGED cause

\* An archive whose last block is full has no read() that shows its end.
AnswerTar == \E size \in ArchiveSizes :
    /\ Reply("tar", size, TarReply(size))
    /\ IF size % Block = 0 THEN Blame("even") ELSE UNCHANGED cause

\* "File not found.", "Invalid command", " Server encountered an error.": no tag.
AnswerError ==
    /\ Reply("error", ErrorLen, <<Bytes("e", ErrorLen)>>)
    /\ Blame("untagged")

\* The handler returns without a word.
AnswerSilence == Reply("silent", 0, <<>>) /\ Blame("silent")

\* The process dies: handle_fs_name prints the details of a file it has not found, or
\* a search that cannot open a directory or create a file calls exit.
Dies(answer) ==
    /\ due' = [answer |-> answer, size |-> 0]
    /\ server' = "gone"
    /\ UNCHANGED out
    /\ Blame("gone")

Handle(a) ==
    \/ a = "text" /\ AnswerText
    \/ a = "tar" /\ AnswerTar
    \/ a \in {"404", "ERR", "invalid"} /\ AnswerError
    \/ a = "silent" /\ AnswerSilence
    \/ a \in {"miss", "exit"} /\ Dies(a)
    \/ a = "quit" /\ server' = "gone" /\ UNCHANGED <<out, due, cause>>

\* One read() takes every request that has arrived; behind them the buffer may hold
\* bytes of what it was used for before.
Altered ==
    IF Len(c2s) > 1 THEN {TRUE} ELSE IF "garbled" \in Hazards THEN BOOLEAN ELSE {FALSE}

ReadRequest ==
    /\ server = "read"
    /\ c2s # <<>>
    /\ c2s' = <<>>
    /\ \E altered \in Altered :
          \E a \in IF altered THEN AlteredAnswers(Head(c2s)) ELSE Answers(Head(c2s)) : Handle(a)
    /\ UNCHANGED <<client, args, s2c, refused, commands, shown, saved>>

\* One send() of the reply.  To a client that has ended it is lost, or kills the child.
Send ==
    /\ server = "send"
    /\ out' = Tail(out)
    /\ due' = [due EXCEPT !.size = IF due.answer = "text" THEN @ + TextIn(Head(out)) ELSE @]
    /\ \/ /\ client # "ended"
          /\ s2c' = s2c \o Head(out)
          /\ server' = IF Tail(out) = <<>> THEN "read" ELSE "send"
       \/ /\ client = "ended"
          /\ server' \in {IF Tail(out) = <<>> THEN "read" ELSE "send", "gone"}
          /\ UNCHANGED s2c
    /\ UNCHANGED <<client, args, c2s, refused, commands, shown, saved, cause>>

\* Mutant: SIGPIPE is ignored, and the loop goes on for ever.
ReadNothingForEver == server = "read" /\ c2s = <<>> /\ client = "ended" /\ UNCHANGED vars

\* read() returns nothing: the loop goes on with an empty request, answers it with an
\* error, and is killed by a send to the closed socket.
ReadNothing ==
    /\ server = "read"
    /\ c2s = <<>>
    /\ client = "ended"
    /\ server' = "gone"
    /\ UNCHANGED <<client, args, out, c2s, s2c, refused, commands, shown, saved, due, cause>>

\* When the reply is out free_array frees the tokens, and the lines of a listing, up to a
\* NULL that nobody put behind them: what it reads there may end the process.
HeapFault ==
    /\ "heap" \in Hazards
    /\ server = "read"
    /\ due.answer # "none"
    /\ server' = "gone"
    /\ Blame("gone")
    /\ UNCHANGED <<client, args, out, c2s, s2c, refused, commands, shown, saved, due>>

Child == ReadRequest \/ Send \/ ReadNothing

-----------------------------------------------------------------------------
Next == (\E r \in Request : Command(r)) \/ Leave \/ ClientReads \/ Child \/ HeapFault

\* Both processes are scheduled; the user need not type anything.
Spec == Init /\ [][Next]_vars /\ WF_vars(ClientReads) /\ WF_vars(Child)

-----------------------------------------------------------------------------
(***************************************************************************)
(* Properties.                                                             *)
(***************************************************************************)
Reading == client \in {"reply", "text", "file"}

\* The bytes of replies, and what a reply and a cause can be.
Byte == {"T", "X", "A", "R", "7", "@", "5", "!", "t", "d", "e"}
Answer == {"none", "text", "tar", "error", "silent", "miss", "exit"}
Cause == {"none", "cts", "short", "split", "five", "even", "untagged", "silent", "gone",
          "unsaved"}

\* The variables have their types.
TypeOK ==
    /\ client \in {"prompt", "reply", "text", "file", "ended"}
    /\ args \in {"NULL", "stale"}
    /\ server \in {"read", "send", "gone"}
    /\ out \in Seq(Seq(Byte))
    /\ c2s \in Seq(Request \cup {Quit})
    /\ s2c \in Seq(Byte \cup {"g"})
    /\ refused \in BOOLEAN
    /\ commands \in 0 .. MaxCommands
    /\ shown \in Nat /\ saved \in Nat
    /\ due \in [answer : Answer, size : Nat]
    /\ cause \in Cause

\* The list of causes is complete: as long as none of them has happened the client
\* never prompts with anything of an earlier exchange on its way in either direction,
\* so that every command starts on a clean connection.
InSync ==
    cause = "none" /\ client = "prompt" =>
        s2c = <<>> /\ c2s = <<>> /\ out = <<>> /\ server = "read"

\* The child never reads two requests as one before a cause has happened, however the
\* sends of both sides interleave.
OneRequest == cause = "none" /\ client # "ended" => Len(c2s) <= 1

\* Both sides block in their reads, with nothing on its way to either, only after one
\* of the causes; with "gone" the client never blocks at all.
HangHasCause ==
    Reading /\ s2c = <<>> /\ c2s = <<>> /\ server = "read" =>
        cause \notin {"none", "gone"}

\* Without a cause what the client has printed, or stored in its temp.tar.gz, when it
\* prompts again is as long as what the child sent: the ends of replies are found
\* wherever the reads cut the stream.
Intact ==
    cause = "none" /\ client = "prompt" =>
        /\ due.answer = "text" => shown = due.size
        /\ due.answer = "tar" => saved = due.size

\* Without a cause every command is answered, and the client prompts again.
CommandAnswered == Reading ~> (client \in {"prompt", "ended"} \/ cause # "none")

\* Whatever went wrong before, a client that has ended is followed by its child, even
\* by one that did not understand "quit" or never received it.
ChildFollows == (client = "ended") ~> (server = "gone")

\* README.md:54 says of a file that is not found "Else the client prints 'File not
\* found'", and srvrutil.h:261 is meant to send it.
MissIsAnswered == (due.answer = "miss") ~> (s2c # <<>>)

=============================================================================
