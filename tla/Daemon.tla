------------------------------- MODULE Daemon -------------------------------
(***************************************************************************)
(* The daemon as a whole: the main loop and its sockets (MainLoop, which   *)
(* this module extends) with the playback plugin (Playback) as the handler *)
(* of PLAY and STOP, and its clients with what they ask for.  MainLoop     *)
(* takes a request of the plugin for one step; here it takes as many as    *)
(* the plugin needs, with GStreamer's threads at work in between.          *)
(***************************************************************************)
EXTENDS MainLoop, Integers

CONSTANTS
  Wishes,   \* the requests each client may make
  Uris, Addrs, Streams, Hash, IdModulus, Params, MaxPlays, MaxClock

VARIABLES
  wish,    \* what each client asked for and waits for
  text,    \* the plugin's reply on its way to each client
  tagged,  \* a TAGS was handled
  fate, place, item, target, sink, iter, clock, log, heap, sources, reply,
  pipe, inBin, playing, muxPads, muxLinked, decLinked, shown

Plugin == INSTANCE Playback WITH pc <- place, cur <- item

callVars == <<wish, text, tagged>>
pluginVars ==
  <<fate, place, item, target, sink, iter, clock, log, heap, sources, reply,
    pipe, inBin, playing, muxPads, muxLinked, decLinked, shown>>
daemonVars == <<vars, callVars, pluginVars>>

(* The main loop makes no difference between the plugin's commands.        *)
Command(w) == IF w.op = "STOP" THEN "PLAY" ELSE w.op

ASSUME DaemonAssumption ==
  /\ \A c \in Clients : \A w \in Wishes[c] :
       /\ Command(w) \in Commands
       /\ w.op = "PLAY" => w.what \in Uris
       /\ w.op = "STOP" => w.what \in Params
  /\ MaxPlays \in Nat /\ MaxClock \in Nat /\ IdModulus \in Nat \ {0}
  /\ Params \subseteq Int /\ NULL \notin Addrs
  /\ Streams \in [Uris -> Seq({"audio", "video"})]
  /\ Hash \in [Uris \X Addrs \X (0..MaxClock) -> 0..(IdModulus - 1)]

DaemonInit ==
  /\ Init /\ Plugin!Init
  /\ wish = [c \in Clients |-> NULL] /\ text = [c \in Clients |-> NULL]
  /\ tagged = FALSE

-----------------------------------------------------------------------------
(* A client asks. *)
Request(c, w) ==
  /\ Ask(c, Command(w))
  /\ wish' = [wish EXCEPT ![c] = w]
  /\ UNCHANGED <<text, tagged, pluginVars>>

(* parse_message calls the plugin with what the client asked for.          *)
Call(w) ==
  \/ w.op = "PLAY" /\ \E a \in Addrs : Plugin!SourceNew(w.what, a)
  \/ w.op = "STOP" /\ (Plugin!StopUnknown(w.what) \/ Plugin!StopFound(w.what))

(* The main thread is in op_play_parse or op_stop_parse, which aborts,     *)
(* returns its reply, or goes on.                                          *)
Handle ==
  /\ pc = "parse" /\ cmd[cur] = "PLAY"
  /\ Call(wish[cur]) \/ Plugin!Handler
  /\ \/ fate' # "running" /\ ParseAborts
     \/ fate' = "running" /\ place' = "idle" /\ Parse /\ data' = reply'.verb
     \/ fate' = "running" /\ place' # "idle" /\ UNCHANGED vars
  /\ UNCHANGED callVars

(* The other commands, which do not touch the plugin.                      *)
HandleOther ==
  /\ pc = "parse" /\ cmd[cur] # "PLAY" /\ Parse
  /\ tagged' = (tagged \/ cmd[cur] = "TAGS")
  /\ UNCHANGED <<wish, text, pluginVars>>

(* Nothing is left of a request when its client has its reply, or would if *)
(* it were there; sent is the text of the replies that were sent so far.   *)
Settle(sent) ==
  /\ wish' = [c \in Clients |-> IF link'[c] = "idle" THEN NULL ELSE wish[c]]
  /\ text' = [c \in Clients |-> IF link'[c] = "sent" THEN sent[c] ELSE NULL]

(* handle_message sends what the plugin returned.                          *)
Answer ==
  /\ Send
  /\ Settle(IF cmd[cur] = "PLAY" THEN [text EXCEPT ![cur] = reply] ELSE text)
  /\ UNCHANGED <<tagged, pluginVars>>

(* parse_free is in op_playback_free.                                      *)
FreePlugin ==
  /\ pc = "free"
  /\ Plugin!FreeAll \/ Plugin!Handler
  /\ \/ fate' # "running" /\ Unload /\ pc' = "aborted"
     \/ fate' = "running" /\ place' = "done" /\ Unload /\ pc' = "close"
     \/ fate' = "running" /\ place' # "done" /\ UNCHANGED vars
  /\ UNCHANGED callVars

(* GStreamer's threads and the clock go on beside the main thread, and a   *)
(* pad that cannot be linked ends the process wherever that is.            *)
Threads ==
  /\ ~Ended
  /\ Plugin!GStreamer \/ Plugin!Second
  /\ \/ fate' = "running" /\ UNCHANGED vars
     \/ /\ fate' # "running" /\ pc' = "aborted"
        /\ UNCHANGED <<sock, quit, signal, cur, data, owed, threads, netVars>>
  /\ UNCHANGED callVars

(* The pipeline that a TAGS left behind has threads of its own.            *)
TagsThread ==
  /\ tagged /\ StreamAborts
  /\ UNCHANGED <<callVars, pluginVars>>

(* What the main loop does besides.                                        *)
Loop ==
  /\ \/ PubSubFails \/ RegisterAborts \/ Start \/ Tick \/ DispatchSignal
     \/ \E c \in Clients : Recv(c) \/ Die(c)
     \/ RecvNone \/ TagsEnd \/ SendInterrupted \/ RaiseSignal
     \/ Close \/ Terminate \/ LingerLapses \/ TerminateInterrupted \/ Network
  /\ Settle(text)
  /\ UNCHANGED <<tagged, pluginVars>>

DaemonNext ==
  \/ \E c \in Clients : \E w \in Wishes[c] : Request(c, w)
  \/ Handle \/ HandleOther \/ Answer \/ FreePlugin
  \/ Threads \/ TagsThread \/ Loop

DaemonSpec == DaemonInit /\ [][DaemonNext]_daemonVars

-----------------------------------------------------------------------------
(* The inductive invariant, beside those of the two parts.  What a client  *)
(* waits for is what it asked for; the main thread is in the plugin only   *)
(* while it handles a request of the plugin, whose work it then does, or   *)
(* unloads it, before it closes the socket; and there are sources only     *)
(* where there are threads.                                                *)
CallsOK ==
  /\ DOMAIN wish = Clients /\ DOMAIN text = Clients
  /\ \A c \in Clients : link[c] # "idle" =>
       wish[c] \in Wishes[c] /\ cmd[c] = Command(wish[c])

PlaceOK ==
  /\ pc \in {"parse", "free", "aborted"} \/ place = IF iter = 0 THEN "idle" ELSE "done"
  /\ iter # 0 => pc \in {"free", "close", "term", "exited", "aborted"}
  /\ pc \in {"close", "term"} => iter # 0
  /\ pc = "parse" /\ cmd[cur] # "PLAY" => place = "idle"
  /\ pc = "free" /\ iter = 0 => place = "idle"

WorkOK ==
  /\ pc = "parse" /\ place \in Plugin!Starting =>
       wish[cur].op = "PLAY" /\ log[Len(log)].uri = wish[cur].what
  /\ pc = "parse" /\ place \in Plugin!Freeing =>
       /\ wish[cur].op = "STOP"
       /\ Plugin!ItemId(heap[item]) = wish[cur].what % IdModulus

ThreadsOK ==
  log # <<>> => threads \/ pc = "aborted" \/ (pc = "parse" /\ cmd[cur] = "PLAY")

DataOK == pc \notin {"tags", "send", "aborted"} => data = "none"

DaemonInv ==
  /\ IInv /\ Plugin!IInv
  /\ CallsOK /\ PlaceOK /\ WorkOK /\ ThreadsOK /\ DataOK

(* The plugin, in the daemon, is that of Playback, and the loop is that of *)
(* MainLoop: its verb for what the plugin does, and its aborts, are right  *)
(* (gst_playd.c:76-112, 332-335, play.c:58-122, 213-237, 309-341).         *)
LoopSpec == Spec

PluginSpec == Plugin!Spec

(* Each PLAY and STOP takes effect at one moment between its request and   *)
(* its answer, and the answer goes to the client who asked for it; none is *)
(* lost but by a daemon that has begun to unload the plugin                *)
(* (gst_playd.c:76-112, 329-342, play.c:309-341).                          *)
HasReply(c) == link[c] = "sent" \/ (link[c] = "taken" /\ (data # "none" \/ owed))

Stage == [c \in Clients |->
  IF cmd[c] # "PLAY" \/ link[c] = "idle" THEN "idle" ELSE
  IF link[c] = "lost" THEN "lost" ELSE
  IF HasReply(c) THEN "done" ELSE "asked"]

Got == [c \in Clients |->
  IF Stage[c] # "done" THEN NULL ELSE
  IF link[c] = "taken" THEN reply ELSE text[c]]

Wanted == [c \in Clients |-> IF Stage[c] = "idle" THEN NULL ELSE wish[c]]

Titles == [k \in 1..Plugin!Answered |-> log[k].uri]

Calls == INSTANCE Jukebox WITH
  Wishes <- [c \in Clients |-> {w \in Wishes[c] : Command(w) = "PLAY"}],
  Ids <- 0..(IdModulus - 1),
  issued <- Plugin!Issued, heard <- Plugin!InPlay, answer <- reply,
  closing <- iter # 0, titles <- Titles,
  stage <- Stage, wish <- Wanted, got <- Got

JukeboxSpec == Calls!Service
=============================================================================
