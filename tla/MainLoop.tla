------------------------------ MODULE MainLoop ------------------------------
(***************************************************************************)
(* The server side of gst_playd (src/src/gst_playd.c) from its start to    *)
(* its exit: a GLib main loop whose 250 ms timer drains a ZeroMQ REP       *)
(* socket, the signal handler and the QUIT command that end it, and the    *)
(* teardown.  The clients, and ZeroMQ's I/O thread between them and the    *)
(* socket, are modelled from how this code uses ZeroMQ.                    *)
(*                                                                         *)
(* The handlers are reduced to what the loop can tell apart: the verb of   *)
(* the reply, and whether they return at all.                              *)
(***************************************************************************)
EXTENDS FiniteSets, Sequences

CONSTANTS
  Clients,   \* each has one REQ socket
  Commands,  \* what they ask for
  NULL       \* no client, no command

(* JUNK stands for whatever the parser refuses, PING for every command     *)
(* that always succeeds, PLAY for the commands of the playback plugin.     *)
ASSUME MainLoopAssumption ==
  NULL \notin Clients /\ Commands \subseteq {"JUNK", "PING", "QUIT", "PLAY", "TAGS"}

VARIABLES
  pc,        \* the main thread
  sock,      \* the REP socket: "none", "open", "closed", or "leaked": created
             \* but not bound, and forgotten without being closed
  quit,      \* closure.should_quit
  signal,    \* a signal has arrived and its GLib source is ready
  cur,       \* the client whose request is being handled, or was left open
  data,      \* the verb of the reply parse_message returned
  owed,      \* the socket waits for a reply the program failed to send
  threads,   \* a command was handled that leaves streaming threads behind
  link,      \* where each client's request, or the reply to it, is
  cmd,       \* the command each client waits for an answer to
  verb,      \* the verb of the last reply to each client
  gone       \* the clients that went away

loopVars == <<pc, sock, quit, signal, cur, data, owed, threads>>
netVars  == <<link, cmd, verb, gone>>
vars     == <<loopVars, netVars>>

(* The main thread is inside handle_message with a request. *)
Handling == {"parse", "tags", "send"}

(* It is inside the timer's callback, which ends when the socket is empty. *)
Draining == Handling \cup {"recv"}

Ended == pc \in {"exited", "aborted"}

Init ==
  /\ pc = "start" /\ sock = "none"
  /\ quit = FALSE /\ signal = FALSE
  /\ cur = NULL /\ data = "none" /\ owed = FALSE /\ threads = FALSE
  /\ link = [c \in Clients |-> "idle"]
  /\ cmd = [c \in Clients |-> NULL]
  /\ verb = [c \in Clients |-> "new"] /\ gone = {}

-----------------------------------------------------------------------------
(* main: without a PUB socket the program ends; whatever becomes of the    *)
(* REP socket, it enters the main loop.                                    *)
PubSubFails ==
  /\ pc = "start" /\ pc' = "exited"
  /\ UNCHANGED <<sock, quit, signal, cur, data, owed, threads, netVars>>

(* create_server_socket: no socket, one that is not bound, or one that is. *)
ServerSockets == {"none", "leaked", "open"}

(* ... after the plugins, of which the playback plugin may run into        *)
(* g_error.                                                                *)
RegisterAborts ==
  /\ pc = "start" /\ pc' = "aborted"
  /\ UNCHANGED <<sock, quit, signal, cur, data, owed, threads, netVars>>

Start ==
  /\ pc = "start" /\ pc' = "poll"
  /\ sock' \in ServerSockets
  /\ UNCHANGED <<quit, signal, cur, data, owed, threads, netVars>>

(* The check of should_quit at the head of the callback.  Mutant: none.    *)
NeverQuit == FALSE

ShouldQuit == quit

(* The timer fires: the callback ends the main loop or drains the socket.  *)
Tick ==
  /\ pc = "poll"
  /\ pc' = IF ShouldQuit THEN "free" ELSE "recv"
  /\ UNCHANGED <<sock, quit, signal, cur, data, owed, threads, netVars>>

(* handle_sigint, in the main loop like the timer.  Mutant: it sets a copy *)
(* of should_quit.                                                         *)
CopySet == quit

FlagSet == TRUE

DispatchSignal ==
  /\ pc = "poll" /\ signal
  /\ signal' = FALSE /\ quit' = FlagSet
  /\ UNCHANGED <<pc, sock, cur, data, owed, threads, netVars>>

-----------------------------------------------------------------------------
(* zmq_msg_recv: a REP socket that owes a reply gives out no request.      *)
Receivable == {c \in Clients : sock = "open" /\ ~owed /\ link[c] = "queued"}

Recv(c) ==
  /\ pc = "recv" /\ c \in Receivable
  /\ link' = [link EXCEPT ![c] = "taken"]
  /\ pc' = "parse" /\ cur' = c
  /\ UNCHANGED <<sock, quit, signal, data, owed, threads, cmd, verb, gone>>

(* What the callback returns to the main loop when the drain is over: TRUE *)
(* keeps the timer.  Mutant: the error code of the drain.                  *)
TimerDropped == "asleep"

TimerKept == "poll"

(* EAGAIN, or EFSM or ENOTSOCK when the socket will never work again.      *)
RecvNone ==
  /\ pc = "recv" /\ Receivable = {}
  /\ pc' = TimerKept
  /\ UNCHANGED <<sock, quit, signal, cur, data, owed, threads, netVars>>

(* parse_message: what the handler of command m may answer.                *)
(* Mutant: an unknown command runs the handler looked up before it.        *)
AnswersOfAny(m) == {"OK", "FAIL"}

Answers(m) ==
  CASE m = "JUNK" -> {"FAIL"}
    [] m \in {"PING", "QUIT"} -> {"OK"}
    [] OTHER -> {"OK", "FAIL"}

(* Where the main thread is when it has looked at command m: TAGS blocks   *)
(* until GStreamer has news.  Mutant: a message the parser refuses gets no *)
(* reply.                                                                  *)
JunkIgnored(m) ==
  CASE m = "TAGS" -> "tags" [] m = "JUNK" -> "recv" [] OTHER -> "send"

AfterParse(m) == IF m = "TAGS" THEN "tags" ELSE "send"

(* op_quit_parse sets should_quit; no other command does. *)
Quits(m) == m = "QUIT"

(* The pipelines of playback, and that of a TAGS request, which nobody     *)
(* takes down, go on in threads of their own.                              *)
Leaves(m) == m \in {"PLAY", "TAGS"}

Parse ==
  /\ pc = "parse"
  /\ data' \in Answers(cmd[cur])
  /\ quit' = (quit \/ Quits(cmd[cur]))
  /\ threads' = (threads \/ Leaves(cmd[cur]))
  /\ pc' = AfterParse(cmd[cur])
  /\ UNCHANGED <<sock, signal, cur, owed, netVars>>

(* A playback handler runs into g_error. *)
ParseAborts ==
  /\ pc = "parse" /\ cmd[cur] = "PLAY"
  /\ pc' = "aborted"
  /\ UNCHANGED <<sock, quit, signal, cur, data, owed, threads, netVars>>

(* op_tags_parse gets the message it waits for, with no time limit; or it  *)
(* runs into g_error as it links a pad.                                    *)
TagsEnd ==
  /\ pc = "tags" /\ pc' \in {"send", "aborted"}
  /\ UNCHANGED <<sock, quit, signal, cur, data, owed, threads, netVars>>

(* A streaming thread runs into g_error, wherever the main thread is.      *)
StreamAborts ==
  /\ threads /\ ~Ended
  /\ pc' = "aborted"
  /\ UNCHANGED <<sock, quit, signal, cur, data, owed, threads, netVars>>

(* zmq_msg_send: ZeroMQ takes the reply, and drops it if the client is     *)
(* gone; the loop asks for the next request.                               *)
Send ==
  /\ pc = "send" /\ pc' = "recv"
  /\ link' = [link EXCEPT ![cur] = IF cur \in gone THEN "idle" ELSE "sent"]
  /\ verb' = [verb EXCEPT ![cur] = data]
  /\ cur' = NULL /\ data' = "none"
  /\ UNCHANGED <<sock, quit, signal, owed, threads, cmd, gone>>

(* A signal interrupts zmq_msg_send, whose result nobody looks at.         *)
SendInterrupted ==
  /\ pc = "send" /\ pc' = "recv"
  /\ signal' = TRUE
  /\ owed' = TRUE /\ data' = "none"
  /\ UNCHANGED <<sock, quit, cur, threads, netVars>>

(* A signal arrives.  If it interrupts zmq_msg_recv, the loop tries again. *)
RaiseSignal ==
  /\ ~signal /\ pc # "start" /\ ~Ended
  /\ signal' = TRUE
  /\ UNCHANGED <<pc, sock, quit, cur, data, owed, threads, netVars>>

-----------------------------------------------------------------------------
(* After the main loop: parse_free unloads the plugins, the playback       *)
(* plugin may run into g_error, and the PUB socket is closed.              *)
Unload ==
  /\ pc = "free" /\ pc' \in {"close", "aborted"}
  /\ UNCHANGED <<sock, quit, signal, cur, data, owed, threads, netVars>>

(* The REP socket is closed, if the program has it: requests it has not    *)
(* answered are lost.                                                      *)
Close ==
  /\ pc = "close" /\ pc' = "term"
  /\ sock' = IF sock = "open" THEN "closed" ELSE sock
  /\ link' = [c \in Clients |->
                IF link[c] \in {"queued", "taken"} THEN "lost" ELSE link[c]]
  /\ UNCHANGED <<quit, signal, cur, data, owed, threads, cmd, verb, gone>>

(* zmq_ctx_destroy waits for the replies on their way as long as the       *)
(* socket's linger time allows.  Mutant: linger is 0.                      *)
NoLinger == TRUE

Flushed == \A c \in Clients : link[c] # "sent"

Terminate ==
  /\ pc = "term" /\ sock # "leaked" /\ Flushed
  /\ pc' = "exited"
  /\ UNCHANGED <<sock, quit, signal, cur, data, owed, threads, netVars>>

(* ... five seconds, and then drops them.                                  *)
LingerLapses ==
  /\ pc = "term" /\ \E c \in Clients : link[c] = "sent"
  /\ link' = [c \in Clients |-> IF link[c] = "sent" THEN "lost" ELSE link[c]]
  /\ UNCHANGED <<loopVars, cmd, verb, gone>>

(* A signal interrupts the wait, and as nobody looks at the result of      *)
(* zmq_ctx_destroy either, the process ends with its replies unsent.       *)
TerminateInterrupted ==
  /\ pc = "term" /\ pc' = "exited"
  /\ signal' = TRUE
  /\ UNCHANGED <<sock, quit, cur, data, owed, threads, netVars>>

-----------------------------------------------------------------------------
(* A client sends its next request, when it has the answer to the last.    *)
Ask(c, m) ==
  /\ link[c] = "idle" /\ c \notin gone
  /\ link' = [link EXCEPT ![c] = "wire"]
  /\ cmd' = [cmd EXCEPT ![c] = m]
  /\ UNCHANGED <<loopVars, verb, gone>>

(* ZeroMQ's I/O thread brings requests to an open socket ...               *)
Arrive(c) ==
  /\ link[c] = "wire" /\ sock = "open" /\ ~Ended
  /\ link' = [link EXCEPT ![c] = "queued"]
  /\ UNCHANGED <<loopVars, cmd, verb, gone>>

(* ... and replies to the clients. *)
Deliver(c) ==
  /\ link[c] = "sent" /\ ~Ended
  /\ link' = [link EXCEPT ![c] = "idle"]
  /\ cmd' = [cmd EXCEPT ![c] = NULL]
  /\ UNCHANGED <<loopVars, verb, gone>>

(* A client goes away: its request is served all the same, but no reply    *)
(* finds it.                                                               *)
Die(c) ==
  /\ c \notin gone /\ gone' = gone \cup {c}
  /\ link' = [link EXCEPT ![c] = IF @ = "sent" THEN "idle" ELSE @]
  /\ UNCHANGED <<loopVars, cmd, verb>>

-----------------------------------------------------------------------------
(* The steps the main thread takes without waiting for GStreamer.          *)
MainThread ==
  \/ PubSubFails \/ RegisterAborts \/ Start \/ Tick
  \/ \E c \in Clients : Recv(c)
  \/ RecvNone \/ Parse \/ ParseAborts \/ Send \/ SendInterrupted
  \/ Unload \/ Close \/ Terminate \/ LingerLapses

Network == \E c \in Clients : Arrive(c) \/ Deliver(c)

Environment ==
  \/ RaiseSignal \/ StreamAborts \/ TerminateInterrupted
  \/ \E c \in Clients : Die(c) \/ \E m \in Commands : Ask(c, m)

Next == MainThread \/ DispatchSignal \/ TagsEnd \/ Network \/ Environment

Spec == Init /\ [][Next]_vars

(* The main thread runs on, GLib gives every ready source its turn, and    *)
(* ZeroMQ takes the requests from its clients in turn and moves what it    *)
(* has.  Nothing makes op_tags_parse return.                               *)
Fairness ==
  /\ WF_vars(MainThread) /\ SF_vars(DispatchSignal)
  /\ \A c \in Clients :
       SF_vars(Recv(c)) /\ WF_vars(Arrive(c)) /\ WF_vars(Deliver(c))

FairSpec == Spec /\ Fairness

-----------------------------------------------------------------------------
TypeOK ==
  /\ pc \in {"start", "poll", "free", "close", "term", "exited", "aborted"}
             \cup Draining
  /\ sock \in {"none", "leaked", "open", "closed"}
  /\ \A flag \in {quit, signal, owed, threads} : flag \in BOOLEAN
  /\ cur \in Clients \cup {NULL} /\ data \in {"none", "OK", "FAIL"}
  /\ link \in [Clients -> {"idle", "wire", "queued", "taken", "sent", "lost"}]
  /\ cmd \in [Clients -> Commands \cup {NULL}]
  /\ verb \in [Clients -> {"new", "OK", "FAIL"}]
  /\ gone \subseteq Clients

(* The REP socket and the loop agree: exactly while a request is handled   *)
(* the socket has one unanswered request, the one being handled, and after *)
(* the drain it has none, so that the next recv is legal, unless a signal  *)
(* broke zmq_msg_send.  In particular none is left open when the main loop *)
(* ends, so that every request taken before a QUIT has its reply.          *)
LockStep ==
  pc # "aborted" =>
    \A c \in Clients : link[c] = "taken" <=>
      c = cur /\ (pc \in Handling \/ (owed /\ pc \notin {"term", "exited"}))

(* A signal that breaks zmq_msg_send ends the server in the end: the       *)
(* socket is of no more use, and the loop will not try it for long.        *)
DeafOnlyBriefly == owed => signal \/ quit

(* The inductive invariant: what is handled is a request that was made,    *)
(* and every reply has a verb the handler of its command may give.         *)
HandlingOK ==
  /\ pc \in Handling => cur \in Clients /\ ~owed
  /\ owed => cur \in Clients /\ pc # "start"
  /\ \A c \in Clients :
       link[c] \in {"wire", "queued", "taken", "sent"} => cmd[c] \in Commands

ReplyOK ==
  /\ pc \in {"tags", "send"} => data \in Answers(cmd[cur])
  /\ \A c \in Clients :
       /\ link[c] = "sent" => c \notin gone /\ verb[c] \in Answers(cmd[c])
       /\ verb[c] \in {"new"} \cup UNION {Answers(m) : m \in Commands}

IInv == TypeOK /\ LockStep /\ DeafOnlyBriefly /\ HandlingOK /\ ReplyOK

(* Once asked to, by QUIT or by a signal, the server exits, unless a       *)
(* callback never returns (because clients keep the socket busy, or TAGS   *)
(* waits for ever) or create_server_socket has left its socket open.       *)
QuitExits ==
  ~<>[](pc \in Draining) =>
    ((quit \/ signal) /\ sock # "leaked" ~> Ended)

(* A request that has reached the server's socket is taken up, unless TAGS *)
(* waits for ever, the server ends, or a signal broke zmq_msg_send.        *)
Served ==
  []<>(pc # "tags") =>
    \A c \in Clients : link[c] = "queued" ~> link[c] # "queued" \/ owed \/ Ended

(* A reply reaches its client or lingers until its time is over, the reply *)
(* to the QUIT that ends the server included; only an abort cuts it off,   *)
(* or a signal that comes after the main loop, when no handler takes note  *)
(* of it (gst_playd.c:180-182, 338-339).                                   *)
ReplyArrives ==
  \A c \in Clients :
    link[c] = "sent" ~>
      link[c] # "sent" \/ pc = "aborted" \/ (pc = "exited" /\ signal)

(* To its clients the server is that of ReqRep: a request the parser       *)
(* refuses fails, PING and QUIT succeed, the others do the one or the      *)
(* other.                                                                  *)
Promised(m) ==
  (IF m \in {"PING", "QUIT"} THEN {} ELSE {"FAIL"})
    \cup (IF m = "JUNK" THEN {} ELSE {"OK"})

Status == [c \in Clients |->
  IF c \in gone THEN "gone" ELSE
  IF link[c] = "idle" THEN verb[c] ELSE
  IF link[c] = "lost" THEN "lost" ELSE "asking"]

Asked == [c \in Clients |-> IF Status[c] = "asking" THEN cmd[c] ELSE NULL]

Requests == INSTANCE ReqRep WITH
  Verbs <- [m \in Commands |-> Promised(m)],
  status <- Status,
  asked <- Asked,
  failing <- pc \in {"close", "term", "exited", "aborted"}

RequestsSpec == Requests!Spec
=============================================================================
