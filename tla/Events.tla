------------------------------- MODULE Events -------------------------------
(***************************************************************************)
(* The programs on one host: daemons, event listeners (gst_playd -e) and   *)
(* one-shot clients (gst_playd -s), their ports, their requests, and the   *)
(* events daemons publish (pubsub.c, operations/ping.c and control.c, the  *)
(* bus callback of operations/play.c, util_send_reqrep_msg of utility.c,   *)
(* main and create_pubsub_socket of gst_playd.c).                          *)
(*                                                                         *)
(* Every program runs once; one that is started again is another daemon    *)
(* with the same port option.  MainLoop has the inside of a daemon's loop. *)
(***************************************************************************)
EXTENDS Integers, Sequences

CONSTANTS
  Daemons, Clients,
  Ports,     \* the values of the port option each may be started with
  Asks,      \* what each client may ask: "PUBSUB" as a listener, "PING",
             \* "QUIT" or "TAGS" as a one-shot client
  Signalled, \* the daemons signals may come to; to a deaf one they may anyhow
  MaxPosts,  \* bound on the messages on each daemon's bus
  HWM,       \* how many events ZeroMQ queues for a subscriber
  NULL       \* no daemon

ASSUME EventsAssumption ==
  /\ Ports \in [Daemons \cup Clients -> SUBSET Nat] /\ NULL \notin Daemons
  /\ Asks \in [Clients -> SUBSET {"PUBSUB", "PING", "QUIT", "TAGS"}]
  /\ Signalled \subseteq Daemons /\ MaxPosts \in [Daemons -> Nat]
  /\ HWM \in Nat \ {0}

VARIABLES
  port,       \* the port option of each program
  pc,         \* of each daemon's main thread
  pub, rep,   \* its sockets: "none", "bound", "closed", or "leaked": not bound,
              \* and forgotten without being closed
  quit,       \* should_quit
  posted,     \* all messages that were posted on its bus, ...
  seen,       \* ... of which the bus callback has had this many
  published,  \* how many events it has published
  step,       \* of each client: see TypeOK
  asked,      \* its command
  at,         \* the daemon its request came to
  joined,     \* the daemon a listener is subscribed to
  queue,      \* the events that daemons sent a listener, ...
  received,   \* ... of which this many have come to its socket, ...
  printed     \* ... and this many it has printed

daemonVars == <<pc, pub, rep, quit, posted, seen, published>>
clientVars == <<step, at, joined, queue, received, printed>>
options == <<port, asked>>
vars == <<options, daemonVars, clientVars>>

Init ==
  /\ port \in [Daemons \cup Clients -> UNION {Ports[p] : p \in DOMAIN Ports}]
  /\ \A p \in DOMAIN Ports : port[p] \in Ports[p]
  /\ asked \in [Clients -> UNION {Asks[c] : c \in Clients}]
  /\ \A c \in Clients : asked[c] \in Asks[c]
  /\ pc = [d \in Daemons |-> "off"]
  /\ pub = [d \in Daemons |-> "none"] /\ rep = [d \in Daemons |-> "none"]
  /\ quit = [d \in Daemons |-> FALSE]
  /\ posted = [d \in Daemons |-> <<>>] /\ seen = [d \in Daemons |-> 0]
  /\ published = [d \in Daemons |-> 0]
  /\ step = [c \in Clients |-> "off"] /\ at = [c \in Clients |-> NULL]
  /\ joined = [c \in Clients |-> NULL]
  /\ queue = [c \in Clients |-> <<>>]
  /\ received = [c \in Clients |-> 0] /\ printed = [c \in Clients |-> 0]

-----------------------------------------------------------------------------
(* zeromq_address_from_port and pubsub_address_from_port.                  *)
ServerPort(p) == p + 10000
EventPort(p) == p + 10001

(* Something on the host listens on port n. *)
InUse(n) ==
  \E d \in Daemons : \/ pub[d] = "bound" /\ n = EventPort(port[d])
                     \/ rep[d] = "bound" /\ n = ServerPort(port[d])

(* main: without a PUB socket the program ends ... Mutant: it does not     *)
(* look at the result, as with the REP socket.                             *)
WithoutPub == "plugins"

NoPub == "exited"

StartPub(d) ==
  /\ pc[d] = "off"
  /\ \E free \in {~InUse(EventPort(port[d]))} :
       /\ pub' = [pub EXCEPT ![d] = IF free THEN "bound" ELSE "closed"]
       /\ pc' = [pc EXCEPT ![d] = IF free THEN "plugins" ELSE NoPub]
  /\ UNCHANGED <<options, rep, quit, posted, seen, published, clientVars>>

(* ... and with the plugins registered it enters the main loop, whatever   *)
(* becomes of the REP socket.                                              *)
StartRep(d) ==
  /\ pc[d] = "plugins"
  /\ rep' = [rep EXCEPT ![d] =
               IF InUse(ServerPort(port[d])) THEN "leaked" ELSE "bound"]
  /\ pc' = [pc EXCEPT ![d] = "loop"]
  /\ UNCHANGED <<options, pub, quit, posted, seen, published, clientVars>>

-----------------------------------------------------------------------------
(* A signal may come to daemon d.  It interrupts the call it comes in, and *)
(* Signal is what its handler does later; nothing here depends on when.    *)
Disturbed(d) == d \in Signalled \/ rep[d] = "leaked"

(* The next event of d goes to those who are subscribed now, except to one *)
(* whose queue is full.                                                    *)
Spread(d) ==
  queue' = [c \in Clients |->
    IF joined[c] = d /\ Len(queue[c]) - printed[c] < HWM
    THEN Append(queue[c], <<d, published[d] + 1>>) ELSE queue[c]]

(* pubsub_send_message; or a signal interrupts zmq_msg_send, whose result  *)
(* nobody looks at, and the event goes to nobody.                          *)
Publish(d) ==
  /\ published' = [published EXCEPT ![d] = @ + 1]
  /\ Spread(d) \/ (Disturbed(d) /\ UNCHANGED queue)

Silent == UNCHANGED <<published, queue>>

(* The kinds of messages on the bus that playback_bus_callback publishes,  *)
(* and those after which it keeps its watch of the bus: all.  Mutant: the  *)
(* default case returns FALSE.                                             *)
Reported == {"ERROR", "WARNING", "INFO"}
Kinds == {"ERROR", "STATE_CHANGED"}

WatchIfReported(m) == m \in Reported

KeepsWatch(m) == TRUE

(* The callback runs in the main loop, message by message. *)
Dispatch(d) ==
  /\ pc[d] = "loop" /\ seen[d] < Len(posted[d])
  /\ \A i \in 1..seen[d] : KeepsWatch(posted[d][i])
  /\ seen' = [seen EXCEPT ![d] = @ + 1]
  /\ IF posted[d][seen[d] + 1] \in Reported THEN Publish(d) ELSE Silent
  /\ UNCHANGED <<options, pc, pub, rep, quit, posted, step, at, joined,
                 received, printed>>

(* GStreamer posts a message. *)
Post(d, m) ==
  /\ pc[d] \in {"loop", "recv", "handle", "free"} /\ Len(posted[d]) < MaxPosts[d]
  /\ posted' = [posted EXCEPT ![d] = Append(@, m)]
  /\ UNCHANGED <<options, pc, pub, rep, quit, seen, published, clientVars>>

-----------------------------------------------------------------------------
(* The timer: it ends the main loop, or drains the REP socket.             *)
Tick(d) ==
  /\ pc[d] = "loop"
  /\ pc' = [pc EXCEPT ![d] = IF quit[d] THEN "free" ELSE "recv"]
  /\ UNCHANGED <<options, pub, rep, quit, posted, seen, published, clientVars>>

(* handle_sigint.  It does what QUIT does, which does not reach a deaf      *)
(* daemon.                                                                 *)
Signal(d) ==
  /\ pc[d] = "loop" /\ Disturbed(d)
  /\ quit' = [quit EXCEPT ![d] = TRUE]
  /\ UNCHANGED <<options, pc, pub, rep, posted, seen, published, clientVars>>

Take(d, c) ==
  /\ pc[d] = "recv" /\ step[c] = "queued" /\ at[c] = d
  /\ pc' = [pc EXCEPT ![d] = "handle"]
  /\ step' = [step EXCEPT ![c] = "taken"]
  /\ UNCHANGED <<options, pub, rep, quit, posted, seen, published, at, joined,
                 queue, received, printed>>

DrainEnd(d) ==
  /\ pc[d] = "recv" /\ \A c \in Clients : step[c] = "queued" => at[c] # d
  /\ pc' = [pc EXCEPT ![d] = "loop"]
  /\ UNCHANGED <<options, pub, rep, quit, posted, seen, published, clientVars>>

(* op_ping_parse publishes, op_quit_parse sets should_quit; every request  *)
(* is answered.  Mutant: QUIT ends the loop before its answer is sent.     *)
NotToQuit(c) == IF asked[c] = "QUIT" THEN "taken" ELSE "answered"

Answered(c) == "answered"

Handle(d, c) ==
  /\ pc[d] = "handle" /\ step[c] = "taken" /\ at[c] = d
  /\ IF asked[c] = "PING" THEN Publish(d) ELSE Silent
  /\ quit' = [quit EXCEPT ![d] = @ \/ asked[c] = "QUIT"]
  /\ pc' = [pc EXCEPT ![d] = "recv"]
  /\ step' = [step EXCEPT ![c] = Answered(c)]
  /\ UNCHANGED <<options, pub, rep, posted, seen, at, joined, received, printed>>

-----------------------------------------------------------------------------
(* Nothing is dispatched after the main loop: parse_free, pubsub_free ...  *)
ClosePub(d) ==
  /\ pc[d] = "free" /\ pc' = [pc EXCEPT ![d] = "close"]
  /\ pub' = [pub EXCEPT ![d] = "closed"]
  /\ UNCHANGED <<options, rep, quit, posted, seen, published, clientVars>>

Lost(C) == step' = [c \in Clients |-> IF c \in C THEN "lost" ELSE step[c]]

(* ... and the REP socket is closed, if the program has it.  ZeroMQ lets   *)
(* go of a port a little after its socket is closed, which to the others   *)
(* looks like a later close.                                               *)
CloseRep(d) ==
  /\ pc[d] = "close" /\ pc' = [pc EXCEPT ![d] = "term"]
  /\ rep' = [rep EXCEPT ![d] = IF @ = "bound" THEN "closed" ELSE @]
  /\ Lost({c \in Clients : step[c] = "queued" /\ at[c] = d})
  /\ UNCHANGED <<options, pub, quit, posted, seen, published, at, joined,
                 queue, received, printed>>

(* What is on its way from daemon d: replies, and events to listeners.     *)
Replied(d) == {c \in Clients : step[c] = "answered" /\ at[c] = d}
Unheard(d) == {c \in Clients : joined[c] = d /\ received[c] < Len(queue[c])}

(* The listeners in C lose their connection and what is on its way.        *)
Cut(C) ==
  /\ joined' = [c \in Clients |-> IF c \in C THEN NULL ELSE joined[c]]
  /\ queue' = [c \in Clients |->
                 IF c \in C THEN SubSeq(queue[c], 1, received[c]) ELSE queue[c]]

(* zmq_ctx_destroy waits for that as long as the linger times of the       *)
(* sockets allow.  Mutant: linger is 0.                                    *)
NoLinger(d) == TRUE

Flushed(d) == Replied(d) = {} /\ Unheard(d) = {}

Exit(d) ==
  /\ pc[d] = "term" /\ rep[d] # "leaked" /\ Flushed(d)
  /\ pc' = [pc EXCEPT ![d] = "exited"]
  /\ joined' = [c \in Clients |-> IF joined[c] = d THEN NULL ELSE joined[c]]
  /\ UNCHANGED <<options, pub, rep, quit, posted, seen, published, step, at,
                 queue, received, printed>>

(* Five seconds for replies, fifteen for events. *)
LingerLapses(d) ==
  /\ pc[d] = "term"
  /\ \/ /\ Replied(d) # {} /\ Lost(Replied(d)) /\ UNCHANGED <<joined, queue>>
     \/ Unheard(d) # {} /\ Cut(Unheard(d)) /\ UNCHANGED step
  /\ UNCHANGED <<options, daemonVars, at, received, printed>>

(* A signal interrupts the wait, and as nobody looks at the result of      *)
(* zmq_ctx_destroy either, the process ends with all that is on its way.   *)
ExitInterrupted(d) ==
  /\ pc[d] = "term" /\ Disturbed(d)
  /\ pc' = [pc EXCEPT ![d] = "exited"]
  /\ Lost(Replied(d))
  /\ Cut({c \in Clients : joined[c] = d})
  /\ UNCHANGED <<options, pub, rep, quit, posted, seen, published, at,
                 received, printed>>

(* g_error, in a handler, a plugin's start or end, or a streaming thread,  *)
(* which may be left behind when the plugins are gone.                     *)
Abort(d) ==
  /\ pc[d] \notin {"off", "exited"}
  /\ pc' = [pc EXCEPT ![d] = "exited"]
  /\ pub' = [pub EXCEPT ![d] = "closed"] /\ rep' = [rep EXCEPT ![d] = "closed"]
  /\ Lost({c \in Clients : at[c] = d /\ step[c] \in {"queued", "taken", "answered"}})
  /\ Cut({c \in Clients : joined[c] = d})
  /\ UNCHANGED <<options, quit, posted, seen, published, at, received, printed>>

-----------------------------------------------------------------------------
(* util_send_reqrep_msg: connecting and sending succeed with or without a  *)
(* daemon.                                                                 *)
Ask(c) ==
  /\ step[c] = "off" /\ step' = [step EXCEPT ![c] = "asking"]
  /\ UNCHANGED <<options, daemonVars, at, joined, queue, received, printed>>

(* The request reaches whatever listens on the port: a daemon, ...         *)
Reach(c, d) ==
  /\ step[c] = "asking" /\ rep[d] = "bound"
  /\ ServerPort(port[d]) = ServerPort(port[c])
  /\ step' = [step EXCEPT ![c] = "queued"] /\ at' = [at EXCEPT ![c] = d]
  /\ UNCHANGED <<options, daemonVars, joined, queue, received, printed>>

(* ... or the PUB socket of another, where it vanishes, unless ZeroMQ is   *)
(* new enough to look at the type of the socket.                           *)
Misdirected(c, d) ==
  /\ step[c] = "asking" /\ pub[d] = "bound"
  /\ EventPort(port[d]) = ServerPort(port[c])
  /\ step' = [step EXCEPT ![c] = "lost"]
  /\ UNCHANGED <<options, daemonVars, at, joined, queue, received, printed>>

(* create_pubsub_socket: the answer is "OK" and the address of the events. *)
(* Mutant: the one behind it.                                              *)
NextAddress(d) == EventPort(port[d]) + 1

Address(d) == EventPort(port[d])

Answer(c) ==
  /\ step[c] = "answered" /\ pc[at[c]] # "exited"
  /\ step' = [step EXCEPT ![c] = IF asked[c] = "PUBSUB" THEN "listening" ELSE "ended"]
  /\ UNCHANGED <<options, daemonVars, at, joined, queue, received, printed>>

(* ZeroMQ subscribes to whoever publishes at that address.                 *)
Join(c, d) ==
  /\ step[c] = "listening" /\ joined[c] = NULL
  /\ pub[d] = "bound" /\ EventPort(port[d]) = Address(at[c])
  /\ joined' = [joined EXCEPT ![c] = d]
  /\ UNCHANGED <<options, daemonVars, step, at, queue, received, printed>>

(* ZeroMQ brings an event to the listener's socket.                        *)
Deliver(c) ==
  /\ joined[c] # NULL /\ received[c] < Len(queue[c])
  /\ received' = [received EXCEPT ![c] = @ + 1]
  /\ UNCHANGED <<options, daemonVars, step, at, joined, queue, printed>>

(* handle_pubsub_message prints it.  Mutant: whatever zmq_msg_recv says.   *)
EvenNone(c) == TRUE

HasEvent(c) == printed[c] < received[c]

Hear(c) ==
  /\ step[c] = "listening" /\ HasEvent(c)
  /\ printed' = [printed EXCEPT ![c] = @ + 1]
  /\ UNCHANGED <<options, daemonVars, step, at, joined, queue, received>>

(* A signal ends the listener, and what it has not printed is lost.        *)
Leave(c) ==
  /\ step[c] = "listening" /\ step' = [step EXCEPT ![c] = "ended"]
  /\ joined' = [joined EXCEPT ![c] = NULL]
  /\ queue' = [queue EXCEPT ![c] = SubSeq(@, 1, printed[c])]
  /\ received' = [received EXCEPT ![c] = printed[c]]
  /\ UNCHANGED <<options, daemonVars, at, printed>>

-----------------------------------------------------------------------------
(* The steps of a daemon that wait for nobody; nothing makes TAGS return.  *)
Main(d) ==
  \/ StartRep(d) \/ Tick(d) \/ DrainEnd(d)
  \/ \E c \in Clients : Take(d, c) \/ (asked[c] # "TAGS" /\ Handle(d, c))
  \/ ClosePub(d) \/ CloseRep(d) \/ Exit(d)

Library(c) ==
  Answer(c) \/ Deliver(c) \/ Hear(c) \/ \E d \in Daemons : Reach(c, d) \/ Join(c, d)

Next ==
  \/ \E d \in Daemons :
       \/ Main(d) \/ Dispatch(d) \/ LingerLapses(d) \/ ExitInterrupted(d)
       \/ StartPub(d) \/ Signal(d) \/ Abort(d)
       \/ \E m \in Kinds : Post(d, m)
       \/ \E c \in Clients : Handle(d, c) \/ Misdirected(c, d)
  \/ \E c \in Clients : Library(c) \/ Ask(c) \/ Leave(c)

Spec == Init /\ [][Next]_vars

(* A daemon runs on, GLib gives every ready source its turn, ZeroMQ keeps  *)
(* connecting and moves what it has, and a listener prints what it gets.   *)
Fairness ==
  /\ \A d \in Daemons : WF_vars(Main(d)) /\ SF_vars(Dispatch(d))
  /\ \A c \in Clients : WF_vars(Library(c))

FairSpec == Spec /\ Fairness

-----------------------------------------------------------------------------
TypeOK ==
  /\ pc \in [Daemons -> {"off", "plugins", "loop", "recv", "handle", "free",
                         "close", "term", "exited"}]
  /\ pub \in [Daemons -> {"none", "bound", "closed"}]
  /\ rep \in [Daemons -> {"none", "bound", "leaked", "closed"}]
  /\ port \in [Daemons \cup Clients -> Nat] /\ quit \in [Daemons -> BOOLEAN]
  /\ posted \in [Daemons -> Seq(Kinds)] /\ seen \in [Daemons -> Nat]
  /\ published \in [Daemons -> Nat]
  /\ step \in [Clients -> {"off", "asking", "queued", "taken", "answered",
                           "lost", "listening", "ended"}]
  /\ at \in [Clients -> Daemons \cup {NULL}]
  /\ joined \in [Clients -> Daemons \cup {NULL}]
  /\ queue \in [Clients -> Seq(Daemons \X Nat)]
  /\ received \in [Clients -> Nat] /\ printed \in [Clients -> Nat]
  /\ \A d \in Daemons : seen[d] <= Len(posted[d])
  /\ \A c \in Clients : /\ printed[c] <= received[c] /\ received[c] <= Len(queue[c])
                        /\ Len(queue[c]) <= printed[c] + HWM

(* To a listener the daemons are those of Feed: it misses an event of the  *)
(* daemon it is subscribed to only if its queue is full when that is       *)
(* published, or all miss it since a signal came to the daemon, and loses  *)
(* those that it was sent only at the end, with its connection             *)
(* (pubsub.c:71-80, gst_playd.c:334-339).                                  *)
Due == [c \in Clients |-> SubSeq(queue[c], printed[c] + 1, Len(queue[c]))]
Heard == [c \in Clients |-> SubSeq(queue[c], 1, printed[c])]

Listeners == INSTANCE Feed WITH
  follows <- joined, due <- Due, heard <- Heard,
  disturbed <- {d \in Daemons : Disturbed(d)}

FeedSpec == Listeners!Spec

(* A listener prints the events of its own port, each once and in the      *)
(* order they were published, also if the daemon it asked is followed by   *)
(* another, and next to a daemon on the port beside (pubsub.c:34-37,       *)
(* gst_playd.c:204-243).                                                   *)
HeardRight ==
  \A c \in Clients : \A i \in DOMAIN queue[c] :
    /\ port[queue[c][i][1]] = port[c]
    /\ queue[c][i][2] \in 1..published[queue[c][i][1]]
    /\ \A j \in 1..i - 1 :
         queue[c][j][1] = queue[c][i][1] => queue[c][j][2] < queue[c][i][2]

(* A request is with a daemon of the client's port, and so is a listener.  *)
RouteOK ==
  \A c \in Clients :
    /\ at[c] # NULL => port[at[c]] = port[c]
    /\ step[c] \in {"queued", "taken", "answered", "listening"} => at[c] # NULL
    /\ joined[c] # NULL => port[joined[c]] = port[c]

(* What a daemon's sockets are at each place of its program.               *)
SocketOK ==
  \A d \in Daemons :
    /\ pub[d] = "bound" <=> pc[d] \in {"plugins", "loop", "recv", "handle", "free"}
    /\ rep[d] = "bound" => pc[d] \in {"loop", "recv", "handle", "free", "close"}
    /\ pc[d] \in {"off", "plugins"} => rep[d] = "none"
    /\ \A e \in Daemons \ {d} :
         pub[d] = "bound" /\ pub[e] = "bound" => port[d] # port[e]

(* The inductive invariant; RouteOK and SocketOK are what it takes to show *)
(* HeardRight and DeafExplained.                                           *)
IInv == TypeOK /\ HeardRight /\ RouteOK /\ SocketOK

(* A daemon runs deaf only because of a daemon one port below, whose       *)
(* events are on its port, or of a predecessor on its own port that is     *)
(* still closing down; a second daemon on a port in use ends at once       *)
(* (gst_playd.c:298-312).                                                  *)
DeafExplained ==
  [][\A d \in Daemons : rep[d] # "leaked" /\ rep'[d] = "leaked" =>
       \E e \in Daemons \ {d} :
         \/ port[e] + 1 = port[d] /\ pub[e] = "bound"
         \/ port[e] = port[d] /\ pc[e] = "close"]_vars

(* Every message GStreamer posts comes to the bus callback, unless the     *)
(* daemon leaves its main loop or is held up in a drain for ever           *)
(* (play.c:147-177).                                                       *)
NewsPublished ==
  \A d \in Daemons :
    []<>(pc[d] \notin {"recv", "handle"}) =>
      (seen[d] < Len(posted[d]) ~>
         seen[d] = Len(posted[d]) \/ pc[d] \notin {"loop", "recv", "handle"})

(* An event sent to a listener is printed, or dropped when its linger time *)
(* is over, when its daemon aborts, when a signal comes to the daemon as   *)
(* it waits for that time, or when the listener ends; the exit of the      *)
(* daemon as such does not cut it off (pubsub.c:42-45,                     *)
(* gst_playd.c:334-339).                                                   *)
EventsArrive ==
  \A c \in Clients : printed[c] < Len(queue[c]) ~> printed[c] = Len(queue[c])

(* A one-shot client or a starting listener waits for ever only if no      *)
(* daemon serves its port, if its request or the reply was lost with a     *)
(* daemon that ended (or to a PUB socket), or if its daemon is held up in  *)
(* TAGS (utility.c:66-73).                                                 *)
Serves(c) == \E d \in Daemons : rep[d] = "bound" /\ port[d] = port[c]

WaitExplained ==
  \A c \in Clients :
    <>[](step[c] \in {"asking", "queued", "taken", "answered"}) =>
      \/ <>[]~Serves(c)
      \/ <>[](step[c] \in {"queued", "taken"} /\ pc[at[c]] = "handle")
=============================================================================
