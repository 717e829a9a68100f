---------------------------- MODULE DaemonProofs ----------------------------
(***************************************************************************)
(* First the main loop by itself, for any set of clients: its socket and   *)
(* its program counter stay in step, and what the clients see of it is     *)
(* ReqRep.  Then the daemon: in it the main loop and the plugin are what   *)
(* MainLoop and Playback say, and together they are the service of         *)
(* Jukebox.                                                                *)
(***************************************************************************)
EXTENDS Daemon, TLAPS


(* A handler answers OK or FAIL.                                           *)
LEMMA AnswersType == \A m : Answers(m) \subseteq {"OK", "FAIL"}
BY DEF Answers

(* The invariant holds when the process starts.                            *)
LEMMA InitIInv == Init => IInv
BY DEF Init, IInv, TypeOK, LockStep, DeafOnlyBriefly, HandlingOK, ReplyOK,
       Handling, Draining

(* Every step keeps the types.                                             *)
LEMMA NextType == IInv /\ [Next]_vars => TypeOK'
<1> SUFFICES ASSUME IInv, [Next]_vars PROVE TypeOK'
  OBVIOUS
<1> USE DEF IInv, TypeOK, netVars, loopVars
<1>1. CASE Parse
  <2>1. data' \in {"OK", "FAIL"} /\ pc' \in {"tags", "send"}
    BY <1>1, AnswersType DEF Parse, AfterParse
  <2>2. quit' \in BOOLEAN /\ threads' \in BOOLEAN
    BY <1>1 DEF Parse, Quits, Leaves
  <2> QED BY <1>1, <2>1, <2>2 DEF Parse, Draining, Handling
<1>2. CASE PubSubFails \/ RegisterAborts \/ Start \/ Tick \/ DispatchSignal
  BY <1>2 DEF PubSubFails, RegisterAborts, Start, ServerSockets, Tick, DispatchSignal,
    FlagSet, Draining, Handling
<1>3. CASE \E c \in Clients : Recv(c)
  BY <1>3 DEF Recv, Draining, Handling
<1>4. CASE RecvNone \/ ParseAborts \/ TagsEnd \/ StreamAborts \/ RaiseSignal
  BY <1>4 DEF RecvNone, TimerKept, ParseAborts, TagsEnd, StreamAborts, RaiseSignal,
    Draining, Handling
<1>5. CASE Send \/ SendInterrupted
  <2>1. data \in {"OK", "FAIL"} /\ cur \in Clients
    BY <1>5, AnswersType DEF Send, SendInterrupted, HandlingOK, ReplyOK, Handling
  <2> QED BY <1>5, <2>1 DEF Send, SendInterrupted, Draining, Handling
<1>6. CASE Unload \/ Close \/ Terminate \/ TerminateInterrupted \/ LingerLapses
  BY <1>6 DEF Unload, Close, Terminate, TerminateInterrupted, LingerLapses
<1>7. CASE Network
  BY <1>7 DEF Network, Arrive, Deliver
<1>8. CASE \E c \in Clients : Die(c) \/ \E m \in Commands : Ask(c, m)
  BY <1>8 DEF Die, Ask
<1>9. CASE UNCHANGED vars
  BY <1>9 DEF vars
<1> QED BY <1>1, <1>2, <1>3, <1>4, <1>5, <1>6, <1>7, <1>8, <1>9
       DEF Next, MainThread, Environment

(* Every step keeps the socket and the loop in step: the socket gets the   *)
(* reply to the request it gave out before it is asked for another.        *)
LEMMA NextLockStep == IInv /\ [Next]_vars => LockStep'
<1> SUFFICES ASSUME IInv, [Next]_vars, pc' # "aborted", NEW c \in Clients
             PROVE  link'[c] = "taken" <=>
               c = cur' /\ (pc' \in Handling \/ (owed' /\ pc' \notin {"term", "exited"}))
  BY DEF LockStep
<1> USE DEF IInv, TypeOK, LockStep, netVars, loopVars, Handling, Draining
<1>1. CASE PubSubFails \/ RegisterAborts \/ Start \/ Tick \/ DispatchSignal
  BY <1>1 DEF PubSubFails, RegisterAborts, Start, Tick, DispatchSignal, HandlingOK
<1>2. CASE \E d \in Clients : Recv(d)
  BY <1>2 DEF Recv, Receivable
<1>3. CASE RecvNone \/ TagsEnd \/ StreamAborts \/ RaiseSignal
  BY <1>3 DEF RecvNone, TimerKept, TagsEnd, StreamAborts, RaiseSignal
<1>4. CASE Parse \/ ParseAborts
  BY <1>4 DEF Parse, AfterParse, ParseAborts
<1>5. CASE Send \/ SendInterrupted
  BY <1>5, MainLoopAssumption DEF Send, SendInterrupted, HandlingOK
<1>6. CASE Unload \/ Close \/ Terminate \/ TerminateInterrupted \/ LingerLapses
  BY <1>6 DEF Unload, Close, Terminate, TerminateInterrupted, LingerLapses
<1>7. CASE Network
  BY <1>7 DEF Network, Arrive, Deliver
<1>8. CASE \E d \in Clients : Die(d) \/ \E m \in Commands : Ask(d, m)
  BY <1>8 DEF Die, Ask
<1>9. CASE UNCHANGED vars
  BY <1>9 DEF vars
<1> QED BY <1>1, <1>2, <1>3, <1>4, <1>5, <1>6, <1>7, <1>8, <1>9
       DEF Next, MainThread, Environment

(* Every step keeps a deaf server on its way out.                          *)
LEMMA NextDeaf == IInv /\ [Next]_vars => DeafOnlyBriefly'
<1> SUFFICES ASSUME IInv, [Next]_vars PROVE DeafOnlyBriefly'
  OBVIOUS
<1> USE DEF IInv, TypeOK, DeafOnlyBriefly, loopVars
<1>1. CASE Parse
  BY <1>1 DEF Parse
<1>2. CASE DispatchSignal \/ SendInterrupted \/ RaiseSignal \/ TerminateInterrupted
  BY <1>2 DEF DispatchSignal, FlagSet, SendInterrupted, RaiseSignal, TerminateInterrupted
<1>3. CASE UNCHANGED <<signal, quit, owed>>
  BY <1>3
<1>4. Next /\ ~Parse /\ ~DispatchSignal /\ ~SendInterrupted /\ ~RaiseSignal
           /\ ~TerminateInterrupted => UNCHANGED <<signal, quit, owed>>
  BY DEF Next, MainThread, Network, Environment, PubSubFails, RegisterAborts, Start,
    Tick,
         Recv, RecvNone, ParseAborts, TagsEnd, StreamAborts, Send, Unload,
         Close, Terminate, LingerLapses,
         Arrive, Deliver, Ask, Die
<1>5. UNCHANGED vars => UNCHANGED <<signal, quit, owed>>
  BY DEF vars
<1> QED BY <1>1, <1>2, <1>3, <1>4, <1>5

(* Every step keeps what is known of the request that is handled.          *)
LEMMA NextHandling == IInv /\ [Next]_vars => HandlingOK'
<1> SUFFICES ASSUME IInv, [Next]_vars PROVE HandlingOK'
  OBVIOUS
<1> USE DEF IInv, TypeOK, HandlingOK, netVars, loopVars, Handling
<1>1. CASE PubSubFails \/ RegisterAborts \/ Start \/ Tick \/ DispatchSignal
  BY <1>1 DEF PubSubFails, RegisterAborts, Start, Tick, DispatchSignal
<1>2. CASE \E d \in Clients : Recv(d)
  BY <1>2 DEF Recv, Receivable
<1>3. CASE RecvNone \/ TagsEnd \/ StreamAborts \/ RaiseSignal
  BY <1>3 DEF RecvNone, TimerKept, TagsEnd, StreamAborts, RaiseSignal
<1>4. CASE Parse \/ ParseAborts
  BY <1>4 DEF Parse, AfterParse, ParseAborts
<1>5. CASE Send \/ SendInterrupted
  BY <1>5 DEF Send, SendInterrupted, LockStep
<1>6. CASE Unload \/ Close \/ Terminate \/ TerminateInterrupted \/ LingerLapses
  BY <1>6 DEF Unload, Close, Terminate, TerminateInterrupted, LingerLapses
<1>7. CASE Network
  BY <1>7 DEF Network, Arrive, Deliver
<1>8. CASE \E d \in Clients : Die(d) \/ \E m \in Commands : Ask(d, m)
  BY <1>8 DEF Die, Ask
<1>9. CASE UNCHANGED vars
  BY <1>9 DEF vars
<1> QED BY <1>1, <1>2, <1>3, <1>4, <1>5, <1>6, <1>7, <1>8, <1>9
       DEF Next, MainThread, Environment

(* Every step keeps the verbs right.                                       *)
LEMMA NextReply == IInv /\ [Next]_vars => ReplyOK'
<1> SUFFICES ASSUME IInv, [Next]_vars PROVE ReplyOK'
  OBVIOUS
<1> USE DEF IInv, TypeOK, ReplyOK, netVars, loopVars
<1>1. CASE PubSubFails \/ RegisterAborts \/ Start \/ Tick \/ DispatchSignal
  BY <1>1 DEF PubSubFails, RegisterAborts, Start, Tick, DispatchSignal
<1>2. CASE \E d \in Clients : Recv(d)
  BY <1>2 DEF Recv, Receivable
<1>3. CASE RecvNone \/ TagsEnd \/ StreamAborts \/ RaiseSignal
  BY <1>3 DEF RecvNone, TimerKept, TagsEnd, StreamAborts, RaiseSignal
<1>4. CASE Parse \/ ParseAborts
  BY <1>4 DEF Parse, ParseAborts
<1>5. CASE Send
  <2>1. cur \in Clients /\ link[cur] = "taken" /\ cmd[cur] \in Commands
    BY <1>5 DEF Send, HandlingOK, LockStep, Handling
  <2>2. data \in Answers(cmd[cur])
    BY <1>5 DEF Send
  <2> QED BY <1>5, <2>1, <2>2 DEF Send
<1>6. CASE SendInterrupted
  BY <1>6 DEF SendInterrupted
<1>7. CASE Unload \/ Close \/ Terminate \/ TerminateInterrupted \/ LingerLapses
  BY <1>7 DEF Unload, Close, Terminate, TerminateInterrupted, LingerLapses
<1>8. CASE Network
  <2>1. CASE \E d \in Clients : Arrive(d)
    BY <2>1 DEF Arrive
  <2>2. CASE \E d \in Clients : Deliver(d)
    <3> PICK d \in Clients : Deliver(d)
      BY <2>2
    <3>1. pc \in {"tags", "send"} => cur # d
      BY DEF Deliver, HandlingOK, LockStep, Handling
    <3> QED BY <3>1 DEF Deliver
  <2> QED BY <1>8, <2>1, <2>2 DEF Network
<1>9. CASE \E d \in Clients : Die(d)
  BY <1>9 DEF Die
<1>10. CASE \E d \in Clients : \E m \in Commands : Ask(d, m)
  <2> PICK d \in Clients, m \in Commands : Ask(d, m)
    BY <1>10
  <2>1. pc \in {"tags", "send"} => cur # d
    BY DEF Ask, HandlingOK, LockStep, Handling
  <2> QED BY <2>1 DEF Ask
<1>11. CASE UNCHANGED vars
  BY <1>11 DEF vars
<1> QED BY <1>1, <1>2, <1>3, <1>4, <1>5, <1>6, <1>7, <1>8, <1>9, <1>10, <1>11
       DEF Next, MainThread, Environment

(* Every step keeps the invariant. *)
LEMMA NextIInv == IInv /\ [Next]_vars => IInv'
BY NextType, NextLockStep, NextDeaf, NextHandling, NextReply DEF IInv

(* The invariant holds in every state of the process.                      *)
THEOREM LoopInvariance == Spec => []IInv
BY InitIInv, NextIInv, PTL DEF Spec

(* The types hold in every state, for any clients and commands            *)
(* (gst_playd.c:76-112, 146-174, 298-342).                                 *)
THEOREM TypeCorrect == Spec => []TypeOK
<1>1. IInv => TypeOK
  BY DEF IInv
<1> QED BY <1>1, LoopInvariance, PTL

(* The REP socket holds one open request while one is handled and none     *)
(* when the loop asks for the next or has ended, unless a signal broke     *)
(* zmq_msg_send (gst_playd.c:76-112, 146-166).                             *)
THEOREM InStep == Spec => []LockStep
<1>1. IInv => LockStep
  BY DEF IInv
<1> QED BY <1>1, LoopInvariance, PTL

(* A server that cannot receive any more because a signal broke            *)
(* zmq_msg_send (gst_playd.c:105) is on its way out.                       *)
THEOREM DeafIsEnding == Spec => []DeafOnlyBriefly
<1>1. IInv => DeafOnlyBriefly
  BY DEF IInv
<1> QED BY <1>1, LoopInvariance, PTL

(* A handler answers what clients are promised. *)
LEMMA AnswersPromised == \A m \in Commands : Answers(m) = Promised(m)
BY MainLoopAssumption DEF Answers, Promised

(* Every step of the server is, to the clients, a step of ReqRep or none.  *)
LEMMA NextRequests == IInv /\ [Next]_vars => [Requests!Next]_(Requests!vars)
<1> SUFFICES ASSUME IInv, [Next]_vars PROVE [Requests!Next]_(Requests!vars)
  OBVIOUS
<1> USE DEF IInv, TypeOK, netVars, loopVars
<1> DEFINE Failing == pc \in {"close", "term", "exited", "aborted"}
           Same == UNCHANGED <<Status, Asked, Failing>>
<1>0. Same => [Requests!Next]_(Requests!vars)
  BY DEF Requests!vars
<1>1. CASE PubSubFails \/ RegisterAborts \/ TagsEnd \/ ParseAborts \/ StreamAborts \/ Unload
  <2>1. UNCHANGED <<Status, Asked>>
    BY <1>1 DEF PubSubFails, RegisterAborts, TagsEnd, ParseAborts, StreamAborts, Unload,
       Status, Asked
  <2>2. Failing => Failing'
    BY <1>1 DEF PubSubFails, RegisterAborts, TagsEnd, ParseAborts, StreamAborts, Unload
  <2>3. CASE Failing' = Failing
    BY <1>0, <2>1, <2>3
  <2>4. CASE ~Failing /\ Failing'
    BY <2>1, <2>4 DEF Requests!Next, Requests!Fail
  <2> QED BY <2>2, <2>3, <2>4
<1>2. CASE Start \/ Tick \/ DispatchSignal \/ RecvNone \/ RaiseSignal
           \/ Parse \/ SendInterrupted \/ Terminate \/ TerminateInterrupted \/ UNCHANGED vars
  <2>1. Same
    BY <1>2 DEF Start, Tick, DispatchSignal, RecvNone, TimerKept, RaiseSignal,
       Parse, AfterParse, SendInterrupted, Terminate, TerminateInterrupted, vars, Status, Asked
  <2> QED BY <1>0, <2>1
<1>3. CASE \E c \in Clients : Recv(c) \/ Arrive(c)
  <2>1. Status' = Status
    BY <1>3 DEF Recv, Receivable, Arrive, Status
  <2>2. Same
    BY <1>3, <2>1 DEF Recv, Arrive, Asked
  <2> QED BY <1>0, <2>2
<1>4. CASE Send
  <2>1. cur \in Clients /\ link[cur] = "taken"
    BY <1>4 DEF Send, HandlingOK, LockStep, Handling
  <2>2. Status' = Status
    BY <1>4, <2>1 DEF Send, Status
  <2>3. Same
    BY <1>4, <2>2 DEF Send, Asked
  <2> QED BY <1>0, <2>3
<1>6. CASE Close \/ LingerLapses
  <2> DEFINE C == {c \in Clients : Status[c] = "asking" /\ Status'[c] = "lost"}
  <2>1. Status' = [c \in Clients |-> IF c \in C THEN "lost" ELSE Status[c]]
    BY <1>6 DEF Close, LingerLapses, Status
  <2>2. Asked' = [c \in Clients |-> IF c \in C THEN NULL ELSE Asked[c]]
    BY <1>6, <2>1 DEF Close, LingerLapses, Asked
  <2>3. pc \in {"close", "term"} /\ pc' \in {"close", "term"}
    BY <1>6 DEF Close, LingerLapses
  <2>4. Requests!Lose(C)
    BY <2>1, <2>2, <2>3 DEF Requests!Lose
  <2>5. C \in SUBSET Clients
    OBVIOUS
  <2> QED BY <2>4, <2>5 DEF Requests!Next
<1>7. CASE \E c \in Clients : Deliver(c)
  <2> PICK c \in Clients : Deliver(c)
    BY <1>7
  <2>1. c \notin gone /\ verb[c] \in Promised(cmd[c]) /\ cmd[c] \in Commands
    BY AnswersPromised DEF Deliver, ReplyOK, HandlingOK
  <2>2. Status[c] = "asking" /\ Status' = [Status EXCEPT ![c] = verb[c]]
    BY <2>1 DEF Deliver, Status
  <2>3. Asked[c] = cmd[c] /\ Asked' = [Asked EXCEPT ![c] = NULL]
    <3>1. Asked[c] = cmd[c]
      BY <2>2 DEF Asked
    <3>2. verb[c] # "asking" /\ Status'[c] = verb[c]
      BY <2>2 DEF Status
    <3>3. \A d \in Clients : d # c => Status'[d] = Status[d] /\ cmd'[d] = cmd[d]
      BY <2>2 DEF Status, Deliver
    <3> QED BY <3>1, <3>2, <3>3 DEF Asked
  <2>4. Requests!Answer(c, verb[c])
    BY <2>1, <2>2, <2>3 DEF Requests!Answer, Deliver
  <2>5. verb[c] \in Requests!AllVerbs
    BY <2>1 DEF Requests!AllVerbs
  <2> QED BY <2>4, <2>5 DEF Requests!Next
<1>8. CASE \E c \in Clients : Die(c)
  <2> PICK c \in Clients : Die(c)
    BY <1>8
  <2>1. Status[c] # "gone" /\ Status' = [Status EXCEPT ![c] = "gone"]
    BY DEF Die, Status
  <2>2. Asked' = [Asked EXCEPT ![c] = NULL]
    <3>1. Status'[c] = "gone" /\ cmd' = cmd
      BY <2>1 DEF Status, Die
    <3>2. \A d \in Clients : d # c => Status'[d] = Status[d]
      BY <2>1 DEF Status
    <3> QED BY <3>1, <3>2 DEF Asked
  <2>3. Requests!Leave(c)
    BY <2>1, <2>2 DEF Requests!Leave, Die
  <2> QED BY <2>3 DEF Requests!Next
<1>9. CASE \E c \in Clients, m \in Commands : Ask(c, m)
  <2> PICK c \in Clients, m \in Commands : Ask(c, m)
    BY <1>9
  <2>1. Status[c] = verb[c] /\ Status' = [Status EXCEPT ![c] = "asking"]
    BY DEF Ask, Status
  <2>2. Asked' = [Asked EXCEPT ![c] = m]
    <3>1. Status'[c] = "asking" /\ cmd'[c] = m
      BY <2>1 DEF Status, Ask
    <3>2. \A d \in Clients : d # c => Status'[d] = Status[d] /\ cmd'[d] = cmd[d]
      BY <2>1 DEF Status, Ask
    <3> QED BY <3>1, <3>2 DEF Asked
  <2>3. verb[c] \in Requests!AllVerbs \cup {"new"}
    BY AnswersPromised DEF Requests!AllVerbs, ReplyOK
  <2>4. Requests!Ask(c, m)
    BY <2>1, <2>2, <2>3 DEF Requests!Ask, Ask
  <2> QED BY <2>4 DEF Requests!Next
<1> QED BY <1>1, <1>2, <1>3, <1>4, <1>6, <1>7, <1>8, <1>9
       DEF Next, MainThread, Network, Environment

(* The main loop implements ReqRep: a request gets one reply, with a verb  *)
(* its command allows, and is lost only by a server that is going down     *)
(* (gst_playd.c:76-112, 146-174, 329-339).                                 *)
THEOREM LoopRefinement == Spec => RequestsSpec
<1>1. Init => Requests!Init
  BY DEF Init, Requests!Init, Status, Asked
<1>2. Spec => []IInv
  BY LoopInvariance
<1> QED BY <1>1, <1>2, NextRequests, PTL DEF Spec, RequestsSpec, Requests!Spec

-----------------------------------------------------------------------------
(* The daemon.  What PlaybackProofs proves of the plugin holds of it here. *)
PP == INSTANCE PlaybackProofs WITH pc <- place, cur <- item

(* The plugin of the daemon is the one that PlaybackProofs is about.       *)
LEMMA SameActions ==
  /\ \A u, a : Plugin!SourceNew(u, a) <=> PP!SourceNew(u, a)
  /\ \A n : Plugin!StopUnknown(n) <=> PP!StopUnknown(n)
  /\ \A n : Plugin!StopFound(n) <=> PP!StopFound(n)
  /\ Plugin!SourceStart <=> PP!SourceStart
  /\ Plugin!FreeRelease <=> PP!FreeRelease
  /\ Plugin!FreeRemove <=> PP!FreeRemove
  /\ (\/ Plugin!SourceUri \/ Plugin!SourceConnect \/ Plugin!SourceTarget
      \/ Plugin!SourceStartFails \/ Plugin!FreePlay \/ Plugin!FreePlayFails
      \/ Plugin!FreeUnlink \/ Plugin!FreeNext \/ Plugin!FreeDone)
     <=> (\/ PP!SourceUri \/ PP!SourceConnect \/ PP!SourceTarget
          \/ PP!SourceStartFails \/ PP!FreePlay \/ PP!FreePlayFails
          \/ PP!FreeUnlink \/ PP!FreeNext \/ PP!FreeDone)
  /\ Plugin!FreeAll <=> PP!FreeAll
  /\ Plugin!GStreamer <=> PP!GStreamer
  /\ Plugin!Second <=> PP!Second
  /\ Plugin!vars = PP!vars
<1> USE DEF Plugin!At, PP!At, Plugin!itemVars, PP!itemVars, Plugin!gstVars,
            PP!gstVars, Plugin!mainVars, PP!mainVars, Plugin!Serials, PP!Serials,
            Plugin!ItemId, PP!ItemId, Plugin!Item, PP!Item
<1>1. \A u, a : Plugin!SourceNew(u, a) <=> PP!SourceNew(u, a)
  BY Zenon DEF Plugin!SourceNew, PP!SourceNew
<1>2. \A n : Plugin!StopUnknown(n) <=> PP!StopUnknown(n)
  BY Zenon DEF Plugin!StopUnknown, PP!StopUnknown
<1>3. \A n : Plugin!StopFound(n) <=> PP!StopFound(n)
  BY Zenon DEF Plugin!StopFound, PP!StopFound, Plugin!Found, PP!Found, Plugin!Without,
    PP!Without, Plugin!RemoveAt, PP!RemoveAt
<1>4. Plugin!SourceStart <=> PP!SourceStart
  BY DEF Plugin!SourceStart, PP!SourceStart, Plugin!SetPlaying, PP!SetPlaying,
    Plugin!Async, PP!Async, Plugin!Cons, PP!Cons
<1>5. Plugin!FreeRelease <=> PP!FreeRelease
  BY DEF Plugin!FreeRelease, PP!FreeRelease
<1>6. Plugin!FreeRemove <=> PP!FreeRemove
  BY DEF Plugin!FreeRemove, PP!FreeRemove, Plugin!NextCell, PP!NextCell
<1>7. (\/ Plugin!SourceUri \/ Plugin!SourceConnect \/ Plugin!SourceTarget
       \/ Plugin!SourceStartFails \/ Plugin!FreePlay \/ Plugin!FreePlayFails
       \/ Plugin!FreeUnlink \/ Plugin!FreeNext \/ Plugin!FreeDone)
      <=> (\/ PP!SourceUri \/ PP!SourceConnect \/ PP!SourceTarget
           \/ PP!SourceStartFails \/ PP!FreePlay \/ PP!FreePlayFails
           \/ PP!FreeUnlink \/ PP!FreeNext \/ PP!FreeDone)
  BY DEF Plugin!SourceUri, PP!SourceUri, Plugin!SourceConnect, PP!SourceConnect,
    Plugin!SourceTarget, PP!SourceTarget, Plugin!Target, PP!Target,
    Plugin!SourceStartFails, PP!SourceStartFails, Plugin!FreePlay, PP!FreePlay,
    Plugin!Peer, PP!Peer, Plugin!FreePlayFails, PP!FreePlayFails,
    Plugin!FreeUnlink, PP!FreeUnlink, Plugin!FreeNext, PP!FreeNext,
    Plugin!FreeDone, PP!FreeDone, Plugin!Idle, PP!Idle
<1>8. Plugin!FreeAll <=> PP!FreeAll
  BY DEF Plugin!FreeAll, PP!FreeAll
<1>9. Plugin!GStreamer <=> PP!GStreamer
  BY DEF Plugin!GStreamer, PP!GStreamer, Plugin!PadAdded, PP!PadAdded,
    Plugin!Linkable, PP!Linkable, Plugin!PipelineUp, PP!PipelineUp,
    Plugin!PipelineFails, PP!PipelineFails, Plugin!PipelineLost, PP!PipelineLost,
    Plugin!Async, PP!Async, Plugin!Lost, PP!Lost, Plugin!Up, PP!Up,
    Plugin!Failed, PP!Failed, Plugin!Starting, PP!Starting
<1>10. Plugin!Second <=> PP!Second
  BY DEF Plugin!Second, PP!Second
<1>11. Plugin!vars = PP!vars
  BY DEF Plugin!vars, PP!vars
<1> QED BY <1>1, <1>2, <1>3, <1>4, <1>5, <1>6, <1>7, <1>8, <1>9, <1>10, <1>11

(* It starts in the same states, has the same invariant and is seen alike. *)
LEMMA SameInvariant ==
  /\ Plugin!Init <=> PP!Init
  /\ Plugin!IInv <=> PP!IInv
  /\ Plugin!TypeOK <=> PP!TypeOK
  /\ Plugin!Issued = PP!Issued
  /\ Plugin!InPlay = PP!InPlay
<1> USE DEF Plugin!Serials, PP!Serials, Plugin!ItemId, PP!ItemId, Plugin!Item, PP!Item,
     Plugin!Async, PP!Async, Plugin!Lost, PP!Lost, Plugin!Up, PP!Up,
    Plugin!Failed, PP!Failed, Plugin!Idle, PP!Idle, Plugin!Starting, PP!Starting,
    Plugin!Freeing, PP!Freeing
<1>1. Plugin!Init <=> PP!Init
  BY DEF Plugin!Init, PP!Init
<1>2. Plugin!TypeOK <=> PP!TypeOK
  BY DEF Plugin!TypeOK, PP!TypeOK
<1>3. Plugin!IInv <=> PP!IInv
  BY <1>2 DEF Plugin!IInv, PP!IInv, Plugin!HeapOK, PP!HeapOK, Plugin!PlaceOK,
    PP!PlaceOK,
    Plugin!Detached, PP!Detached, Plugin!ListOK, PP!ListOK, Plugin!MixerOK, PP!MixerOK,
    Plugin!Owned, PP!Owned, Plugin!DriveOK, PP!DriveOK, Plugin!PadOK, PP!PadOK,
    Plugin!PadAbortExplained, PP!PadAbortExplained, Plugin!OrderOK, PP!OrderOK
<1>4. Plugin!Issued = PP!Issued
  BY DEF Plugin!Issued, PP!Issued, Plugin!Answered, PP!Answered
<1>5. Plugin!InPlay = PP!InPlay
  BY DEF Plugin!InPlay, PP!InPlay
<1> QED BY <1>1, <1>2, <1>3, <1>4, <1>5

(* The plugin establishes its invariant, *)
LEMMA PluginInit == Plugin!Init => Plugin!IInv
BY SameInvariant, PP!InitIInv, DaemonAssumption

(* and its steps keep it. *)
LEMMA PluginNext == Plugin!IInv /\ [Plugin!Next]_(Plugin!vars) => Plugin!IInv'
<1>1. Plugin!Next => PP!Next
  BY SameActions DEF Plugin!Next, PP!Next, Plugin!Handler, PP!Handler, Plugin!Request,
    PP!Request
<1>2. Plugin!IInv' <=> PP!IInv'
  BY SameInvariant, PTL
<1>3. Plugin!vars = PP!vars /\ Plugin!vars' = PP!vars'
  BY DEF Plugin!vars, PP!vars, Plugin!mainVars, PP!mainVars, Plugin!itemVars,
    PP!itemVars, Plugin!gstVars, PP!gstVars
<1>4. Plugin!IInv <=> PP!IInv
  BY SameInvariant
<1>5. PP!IInv /\ [PP!Next]_(PP!vars) => PP!IInv'
  BY PP!NextIInv, DaemonAssumption
<1> QED BY <1>1, <1>2, <1>3, <1>4, <1>5

(* The main thread calls the plugin with a parameter that it may get.      *)
LEMMA CallIsRequest ==
  ASSUME CallsOK, LockStep, HandlingOK, pc = "parse", cmd[cur] = "PLAY",
         Call(wish[cur])
  PROVE  Plugin!Request
<1>1. cur \in Clients /\ link[cur] = "taken"
  BY DEF HandlingOK, LockStep, Handling
<1>2. wish[cur] \in Wishes[cur]
  BY <1>1 DEF CallsOK
<1> QED BY <1>1, <1>2, DaemonAssumption DEF Call, Plugin!Request

(* Nothing ends the process from a thread of GStreamer unless a command    *)
(* was handled, or is handled now, that leaves threads.                    *)
LEMMA ThreadsAbort ==
  ASSUME DaemonInv, Threads, fate' # "running"
  PROVE  threads \/ (pc = "parse" /\ cmd[cur] = "PLAY")
<1>1. \E k : k \in playing
  BY DEF Threads, Plugin!GStreamer, Plugin!PadAdded, Plugin!PipelineUp,
    Plugin!PipelineFails, Plugin!PipelineLost, Plugin!Second
<1>2. playing \subseteq DOMAIN log
  BY DEF DaemonInv, Plugin!IInv, Plugin!TypeOK
<1>3. log # <<>>
  BY <1>1, <1>2
<1> QED BY <1>3 DEF DaemonInv, ThreadsOK, Threads, Ended

(* Every step of the daemon is a step of the main loop, or none ...        *)
LEMMA DaemonLoop == DaemonInv /\ [DaemonNext]_daemonVars => [Next]_vars
<1> SUFFICES ASSUME DaemonInv, [DaemonNext]_daemonVars PROVE [Next]_vars
  OBVIOUS
<1>1. CASE \E c \in Clients : \E w \in Wishes[c] : Request(c, w)
  BY <1>1, DaemonAssumption DEF Request, Next, Environment
<1>2. CASE Handle
  BY <1>2 DEF Handle, Next, MainThread
<1>3. CASE HandleOther \/ Answer \/ FreePlugin \/ TagsThread
  BY <1>3 DEF HandleOther, Answer, FreePlugin, TagsThread, Next, MainThread, Environment
<1>4. CASE Threads
  <2>1. CASE UNCHANGED vars
    BY <2>1
  <2>2. CASE ~UNCHANGED vars
    <3>1. /\ fate' # "running" /\ pc' = "aborted" /\ ~Ended
          /\ UNCHANGED <<sock, quit, signal, cur, data, owed, threads, netVars>>
      BY <1>4, <2>2 DEF Threads
    <3>2. threads \/ (pc = "parse" /\ cmd[cur] = "PLAY")
      BY <1>4, <3>1, ThreadsAbort
    <3> QED BY <3>1, <3>2 DEF StreamAborts, ParseAborts, Next, MainThread, Environment
  <2> QED BY <2>1, <2>2
<1>5. CASE Loop
  BY <1>5 DEF Loop, Next, MainThread, Environment
<1>6. CASE UNCHANGED daemonVars
  BY <1>6 DEF daemonVars
<1> QED BY <1>1, <1>2, <1>3, <1>4, <1>5, <1>6 DEF DaemonNext

(* ... and a step of the plugin, or none. *)
LEMMA DaemonPlugin ==
  DaemonInv /\ [DaemonNext]_daemonVars => [Plugin!Next]_(Plugin!vars)
<1> SUFFICES ASSUME DaemonInv, [DaemonNext]_daemonVars
             PROVE  Plugin!Next \/ UNCHANGED pluginVars
  BY DEF pluginVars, Plugin!vars, Plugin!mainVars, Plugin!itemVars, Plugin!gstVars
<1>1. CASE Handle
  <2>1. CASE Call(wish[cur])
    BY <1>1, <2>1, CallIsRequest DEF Handle, DaemonInv, IInv, Plugin!Next
  <2>2. CASE Plugin!Handler
    BY <2>2 DEF Plugin!Next
  <2> QED BY <1>1, <2>1, <2>2 DEF Handle
<1>2. CASE FreePlugin
  BY <1>2 DEF FreePlugin, Plugin!Next, Plugin!Request
<1>3. CASE Threads
  BY <1>3 DEF Threads, Plugin!Next
<1>4. CASE \/ \E c \in Clients : \E w \in Wishes[c] : Request(c, w)
           \/ HandleOther \/ Answer \/ TagsThread \/ Loop
  BY <1>4 DEF Request, HandleOther, Answer, TagsThread, Loop
<1>5. CASE UNCHANGED daemonVars
  BY <1>5 DEF daemonVars
<1> QED BY <1>1, <1>2, <1>3, <1>4, <1>5 DEF DaemonNext

(* The request in hand is one its client made and waits for.               *)
LEMMA InHand ==
  ASSUME DaemonInv, pc \in Handling
  PROVE  /\ cur \in Clients /\ link[cur] = "taken" /\ ~owed
         /\ wish[cur] \in Wishes[cur] /\ cmd[cur] = Command(wish[cur])
         /\ \A c \in Clients : link[c] = "taken" => c = cur
BY DEF DaemonInv, IInv, HandlingOK, LockStep, Handling, CallsOK

(* The clients stay the same. *)
LEMMA DomainsStay ==
  DaemonInv /\ [DaemonNext]_daemonVars => DOMAIN wish' = Clients /\ DOMAIN text' = Clients
BY DEF DaemonInv, CallsOK, DaemonNext, Request, Handle, HandleOther, Answer, FreePlugin,
   Threads, TagsThread, Loop, Settle, callVars, daemonVars

(* Every step keeps what is known of the requests ...                      *)
LEMMA NextCalls == DaemonInv /\ [DaemonNext]_daemonVars => CallsOK'
<1> SUFFICES ASSUME DaemonInv, [DaemonNext]_daemonVars,
                    NEW c \in Clients, link'[c] # "idle"
             PROVE  wish'[c] \in Wishes[c] /\ cmd'[c] = Command(wish'[c])
  BY DomainsStay DEF CallsOK
<1>0. link \in [Clients -> {"idle", "wire", "queued", "taken", "sent", "lost"}]
      /\ cmd \in [Clients -> Commands \cup {NULL}]
  BY DEF DaemonInv, IInv, TypeOK
<1>1. CASE link[c] # "idle" /\ cmd'[c] = cmd[c] /\ wish'[c] = wish[c]
  BY <1>1 DEF DaemonInv, CallsOK
<1>2. CASE \E d \in Clients : \E w \in Wishes[d] : Request(d, w)
  <2>0. PICK d \in Clients : \E w \in Wishes[d] : Request(d, w)
    BY <1>2
  <2>1. PICK w \in Wishes[d] : Request(d, w)
    BY <2>0
  <2>2. wish' = [wish EXCEPT ![d] = w] /\ cmd' = [cmd EXCEPT ![d] = Command(w)]
        /\ link' = [link EXCEPT ![d] = "wire"]
    BY <2>1 DEF Request, Ask
  <2>3. DOMAIN wish = Clients
    BY DEF DaemonInv, CallsOK
  <2> QED BY <1>0, <1>1, <2>2, <2>3
<1>3. CASE Handle \/ FreePlugin \/ Threads \/ HandleOther \/ TagsThread
           \/ UNCHANGED daemonVars
  <2>1. UNCHANGED <<link, cmd, wish>>
    BY <1>3 DEF Handle, Parse, ParseAborts, FreePlugin, Unload, Threads, HandleOther,
      TagsThread, StreamAborts, callVars, daemonVars, vars, netVars
  <2> QED BY <1>1, <2>1
<1>4. CASE Answer
  <2>1. link[cur] = "taken" /\ cur \in Clients
    BY <1>4, InHand DEF Answer, Send, Handling
  <2> QED BY <1>0, <1>1, <1>4, <2>1 DEF Answer, Send, Settle
<1>5. CASE Loop
  <2>1. link[c] # "idle" /\ cmd'[c] = cmd[c]
    BY <1>0, <1>5 DEF Loop, PubSubFails, RegisterAborts, Start, Tick, DispatchSignal,
      Recv, Receivable, Die, RecvNone, TagsEnd, SendInterrupted, RaiseSignal, Close,
      Terminate, TerminateInterrupted, LingerLapses, Network, Arrive, Deliver, netVars, loopVars
  <2> QED BY <1>1, <1>5, <2>1 DEF Loop, Settle
<1> QED BY <1>2, <1>3, <1>4, <1>5 DEF DaemonNext

(* How the plugin goes on with what it has begun.                          *)
LEMMA HandlerMoves ==
  ASSUME Plugin!IInv, Plugin!Handler
  PROVE  /\ place \in Plugin!Starting \cup Plugin!Freeing \cup {"next"}
         /\ log' = log /\ (iter' = 0 <=> iter = 0)
         /\ place \in Plugin!Starting => iter = 0 /\ place' \in Plugin!Starting \cup {"idle"}
         /\ place \in Plugin!Freeing /\ iter = 0 => place' \in Plugin!Freeing \cup {"idle"}
         /\ iter # 0 => place' \in Plugin!Freeing \cup {"next", "done"}
         /\ place \in Plugin!Freeing /\ place' \in Plugin!Freeing =>
              item' = item /\ heap' = heap
         /\ place = "next" => iter # 0
<1> USE DEF Plugin!At, Plugin!Starting, Plugin!Freeing, Plugin!itemVars, Plugin!gstVars,
            Plugin!mainVars, Plugin!IInv, Plugin!TypeOK, Plugin!PlaceOK
<1>1. CASE \/ Plugin!SourceUri \/ Plugin!SourceConnect \/ Plugin!SourceTarget
           \/ Plugin!SourceStart \/ Plugin!SourceStartFails
  BY <1>1 DEF Plugin!SourceUri, Plugin!SourceConnect, Plugin!SourceTarget,
    Plugin!SourceStart, Plugin!SourceStartFails
<1>2. CASE \/ Plugin!FreePlay \/ Plugin!FreePlayFails \/ Plugin!FreeUnlink
           \/ Plugin!FreeRelease
  BY <1>2 DEF Plugin!FreePlay, Plugin!FreePlayFails, Plugin!FreeUnlink,
    Plugin!FreeRelease
<1>3. CASE Plugin!FreeRemove
  BY <1>3 DEF Plugin!FreeRemove, Plugin!NextCell
<1>4. CASE Plugin!FreeNext \/ Plugin!FreeDone
  BY <1>4 DEF Plugin!FreeNext, Plugin!FreeDone
<1> QED BY <1>1, <1>2, <1>3, <1>4 DEF Plugin!Handler

(* How it takes up a request: with a new source, or with one to free.      *)
LEMMA CallMoves ==
  ASSUME Plugin!IInv, NEW w, Call(w)
  PROVE  /\ iter = 0 /\ iter' = 0 /\ place = "idle"
         /\ place' = "idle" => w.op = "STOP" /\ log' = log
         /\ place' \in {"idle", "added", "play"}
BY DEF Call, Plugin!SourceNew, Plugin!StopUnknown, Plugin!StopFound, Plugin!At,
  Plugin!itemVars, Plugin!IInv, Plugin!PlaceOK

(* GStreamer's threads do nothing to the main thread's place in it.        *)
LEMMA ThreadsMoves == Threads =>
  UNCHANGED <<place, item, iter, log, heap, sources, reply, muxPads>>
BY DEF Threads, Plugin!GStreamer, Plugin!PadAdded, Plugin!PipelineUp,
  Plugin!PipelineFails,
  Plugin!PipelineLost, Plugin!Second, Plugin!mainVars, Plugin!itemVars, Plugin!gstVars

(* ... of where the main thread is ...                                     *)
LEMMA NextPlace == DaemonInv /\ [DaemonNext]_daemonVars => PlaceOK'
<1> SUFFICES ASSUME DaemonInv, [DaemonNext]_daemonVars PROVE PlaceOK'
  OBVIOUS
<1>0. PlaceOK /\ Plugin!IInv /\ IInv /\ CallsOK
  BY DEF DaemonInv
<1>1. CASE Handle
  <2>1. iter = 0 /\ iter' = 0
    <3>1. iter = 0
      BY <1>0, <1>1 DEF Handle, PlaceOK
    <3> QED BY <1>0, <1>1, <3>1, CallMoves, HandlerMoves DEF Handle
  <2>2. \/ pc' = "aborted"
        \/ pc' = "send" /\ place' = "idle"
        \/ pc' = "parse" /\ cmd'[cur'] = "PLAY"
    BY <1>1 DEF Handle, Parse, ParseAborts, AfterParse, vars, loopVars, netVars
  <2> QED BY <2>1, <2>2 DEF PlaceOK
<1>2. CASE FreePlugin
  <2>1. iter' # 0
    <3>1. CASE Plugin!FreeAll
      BY <3>1 DEF Plugin!FreeAll
    <3>2. CASE Plugin!Handler
      <4>1. iter # 0
        BY <1>0, <1>2, <3>2, HandlerMoves DEF PlaceOK, FreePlugin, Plugin!Starting,
          Plugin!Freeing
      <4> QED BY <1>0, <3>2, <4>1, HandlerMoves
    <3> QED BY <1>2, <3>1, <3>2 DEF FreePlugin
  <2>2. pc' \in {"free", "aborted"} \/ (pc' = "close" /\ place' = "done")
    BY <1>2 DEF FreePlugin, vars, loopVars
  <2> QED BY <2>1, <2>2 DEF PlaceOK
<1>3. CASE Threads
  <2>1. pc' = "aborted" \/ UNCHANGED <<pc, cur, cmd>>
    BY <1>3 DEF Threads, vars, loopVars, netVars
  <2> QED BY <1>0, <1>3, <2>1, ThreadsMoves DEF PlaceOK
<1>4. CASE \E c \in Clients : \E w \in Wishes[c] : Request(c, w)
  <2>1. UNCHANGED <<pc, cur, place, iter>> /\ (pc = "parse" => cmd'[cur] = cmd[cur])
    <3>1. PICK c \in Clients : link[c] = "idle" /\ \E w : cmd' = [cmd EXCEPT ![c] = w]
      BY <1>4 DEF Request, Ask
    <3>2. pc = "parse" => c # cur
      BY <3>1, InHand DEF Handling
    <3>3. UNCHANGED <<pc, cur, place, iter>>
      BY <1>4 DEF Request, Ask, loopVars, pluginVars
    <3> QED BY <3>1, <3>2, <3>3
  <2> QED BY <1>0, <2>1 DEF PlaceOK
<1>5. CASE HandleOther \/ Answer \/ TagsThread
  <2>1. /\ UNCHANGED <<place, iter>>
        /\ \/ pc' = "aborted"
           \/ /\ pc' \in {"send", "tags", "recv"} /\ pc \in Handling
              /\ place = "idle" /\ iter = 0
    BY <1>0, <1>5 DEF HandleOther, Answer, TagsThread, Parse, AfterParse, Send,
      StreamAborts, pluginVars, PlaceOK, Handling
  <2> QED BY <2>1 DEF PlaceOK
<1>6. CASE Loop
  <2>1. UNCHANGED <<place, iter>>
    BY <1>6 DEF Loop, pluginVars
  <2>2. CASE \E c \in Clients : Deliver(c)
    <3>1. PICK c \in Clients : link[c] = "sent" /\ cmd' = [cmd EXCEPT ![c] = NULL]
      BY <2>2 DEF Deliver
    <3>2. pc = "parse" => c # cur
      BY <3>1, InHand DEF Handling
    <3>3. UNCHANGED <<pc, cur>>
      BY <2>2 DEF Deliver, loopVars
    <3> QED BY <1>0, <2>1, <3>1, <3>2, <3>3 DEF PlaceOK
  <2>3. CASE ~\E c \in Clients : Deliver(c)
    BY <1>0, <1>6, <2>1, <2>3 DEF PlaceOK, Loop, PubSubFails, RegisterAborts, Start,
      Tick,
      DispatchSignal, Recv, Die, RecvNone, TimerKept, TagsEnd, SendInterrupted,
      RaiseSignal, Close, Terminate, TerminateInterrupted, LingerLapses, Network, Arrive, netVars, loopVars
  <2> QED BY <2>2, <2>3
<1>7. CASE UNCHANGED daemonVars
  BY <1>0, <1>7 DEF daemonVars, vars, loopVars, netVars, pluginVars, PlaceOK
<1> QED BY <1>1, <1>2, <1>3, <1>4, <1>5, <1>6, <1>7 DEF DaemonNext

(* What the client of the request in hand asked for does not change.       *)
LEMMA HandStays ==
  ASSUME DaemonInv, [DaemonNext]_daemonVars, pc = "parse", pc' = "parse"
  PROVE  cur' = cur /\ wish'[cur] = wish[cur] /\ cmd'[cur] = cmd[cur]
<1>0. /\ link \in [Clients -> {"idle", "wire", "queued", "taken", "sent", "lost"}]
      /\ cur \in Clients /\ link[cur] = "taken"
  BY InHand DEF DaemonInv, IInv, TypeOK, Handling
<1>1. CASE \E c \in Clients : \E w \in Wishes[c] : Request(c, w)
  <2>1. PICK c \in Clients : \E w \in Wishes[c] : Request(c, w)
    BY <1>1
  <2>2. c # cur
    BY <1>0, <2>1 DEF Request, Ask
  <2> QED BY <2>1, <2>2 DEF Request, Ask, loopVars
<1>2. CASE Handle \/ FreePlugin \/ Threads \/ HandleOther \/ TagsThread \/ Answer
           \/ UNCHANGED daemonVars
  BY <1>2 DEF Handle, Parse, ParseAborts, AfterParse, FreePlugin, Threads, HandleOther,
    TagsThread, StreamAborts, Answer, Send, callVars, daemonVars, vars, loopVars, netVars
<1>3. CASE Loop
  <2>1. CASE \E c \in Clients : Deliver(c)
    <3>1. PICK c \in Clients : link[c] = "sent" /\ cmd' = [cmd EXCEPT ![c] = NULL]
                              /\ link' = [link EXCEPT ![c] = "idle"]
      BY <2>1 DEF Deliver
    <3>2. c # cur
      BY <1>0, <3>1
    <3> QED BY <1>0, <1>3, <2>1, <3>1, <3>2 DEF Loop, Settle, Deliver, loopVars
  <2>2. CASE ~\E c \in Clients : Deliver(c)
    <3>1. link'[cur] = "taken" /\ cur' = cur /\ cmd' = cmd
      BY <1>0, <1>3, <2>2 DEF Loop, PubSubFails, RegisterAborts, Start, Tick, TimerKept,
        DispatchSignal, Recv, Die, RecvNone, TagsEnd, SendInterrupted, RaiseSignal, Close,
        Terminate, TerminateInterrupted, LingerLapses, Network, Arrive, netVars, loopVars
    <3> QED BY <1>0, <1>3, <3>1 DEF Loop, Settle
  <2> QED BY <2>1, <2>2
<1> QED BY <1>1, <1>2, <1>3 DEF DaemonNext

(* ... of what the plugin works on ...                                     *)
LEMMA NextWork == DaemonInv /\ [DaemonNext]_daemonVars => WorkOK'
<1> SUFFICES ASSUME DaemonInv, [DaemonNext]_daemonVars, pc' = "parse",
                    place' \in Plugin!Starting \cup Plugin!Freeing
             PROVE  WorkOK'
  BY DEF WorkOK
<1>0. PlaceOK /\ Plugin!IInv /\ IInv /\ CallsOK /\ WorkOK
  BY DEF DaemonInv
<1>1. CASE UNCHANGED <<place, item, log, heap>>
  <2>1. pc = "parse"
    <3>1. place # "idle"
      BY <1>1 DEF Plugin!Starting, Plugin!Freeing
    <3>2. CASE Loop
      BY <1>0, <3>1, <3>2 DEF PlaceOK, Loop, PubSubFails, RegisterAborts, Start, Tick,
        TimerKept,
        DispatchSignal, Recv, Die, RecvNone, TagsEnd, SendInterrupted, RaiseSignal, Close,
        Terminate, TerminateInterrupted, LingerLapses, Network, Arrive, Deliver, netVars, loopVars
    <3>3. CASE ~Loop
      BY <3>3 DEF DaemonNext, Request, Ask, Handle, FreePlugin, Threads, HandleOther,
        Parse, AfterParse,
        TagsThread, StreamAborts, Answer, Send, callVars, daemonVars, vars, loopVars, netVars
    <3> QED BY <3>2, <3>3
  <2>2. cur' = cur /\ wish'[cur] = wish[cur]
    BY <2>1, HandStays
  <2> QED BY <1>0, <1>1, <2>1, <2>2 DEF WorkOK, Plugin!ItemId
<1>2. CASE Handle /\ Call(wish[cur])
  <2>1. pc = "parse" /\ cur' = cur /\ wish' = wish
    BY <1>2, HandStays DEF Handle, callVars
  <2> DEFINE w == wish[cur]
  <2>2. CASE \E a \in Addrs : w.op = "PLAY" /\ Plugin!SourceNew(w.what, a)
    <3>1. /\ place' = "added"
          /\ \E a : log' = Append(log, [uri |-> w.what, addr |-> a, created |-> clock])
      BY <2>2 DEF Plugin!SourceNew
    <3>2. log \in Seq([uri : Uris, addr : Addrs, created : 0..MaxClock])
      BY <1>0 DEF Plugin!IInv, Plugin!TypeOK
    <3>3. log'[Len(log')].uri = w.what
      BY <3>1, <3>2
    <3> QED BY <2>1, <2>2, <3>1, <3>3 DEF WorkOK, Plugin!Freeing
  <2>3. CASE w.op = "STOP" /\ Plugin!StopFound(w.what)
    <3>1. /\ place' = "play" /\ log' = log /\ heap' = heap
          /\ Plugin!ItemId(heap[item']) = w.what % IdModulus
      BY <2>3 DEF Plugin!StopFound, Plugin!Found, Plugin!Item
    <3> QED BY <2>1, <2>3, <3>1 DEF WorkOK, Plugin!Starting, Plugin!ItemId
  <2>4. CASE Plugin!StopUnknown(w.what)
    BY <2>4 DEF Plugin!StopUnknown, Plugin!At, Plugin!Starting, Plugin!Freeing
  <2> QED BY <1>2, <2>2, <2>3, <2>4 DEF Call
<1>3. CASE Handle /\ Plugin!Handler
  <2>1. pc = "parse" /\ cur' = cur /\ wish' = wish /\ iter = 0 /\ log' = log
    BY <1>0, <1>3, HandStays, HandlerMoves DEF Handle, callVars, PlaceOK
  <2>2. CASE place \in Plugin!Starting
    <3>1. place' \in Plugin!Starting
      BY <1>0, <1>3, <2>2, HandlerMoves DEF Plugin!Starting, Plugin!Freeing
    <3> QED BY <1>0, <2>1, <2>2, <3>1 DEF WorkOK, Plugin!Starting, Plugin!Freeing
  <2>3. CASE place \in Plugin!Freeing
    <3>1. place' \in Plugin!Freeing /\ item' = item /\ heap' = heap
      BY <1>0, <1>3, <2>1, <2>3, HandlerMoves DEF Plugin!Starting, Plugin!Freeing
    <3> QED BY <1>0, <2>1, <2>3, <3>1 DEF WorkOK, Plugin!Starting, Plugin!Freeing,
      Plugin!ItemId
  <2> QED BY <1>0, <1>3, <2>1, <2>2, <2>3, HandlerMoves
<1>4. CASE FreePlugin
  BY <1>4 DEF FreePlugin, vars, loopVars
<1>5. CASE \/ \E c \in Clients : \E w \in Wishes[c] : Request(c, w)
           \/ HandleOther \/ Answer \/ Threads \/ TagsThread \/ Loop
           \/ UNCHANGED daemonVars
  BY <1>1, <1>5, ThreadsMoves DEF Request, HandleOther, Answer, TagsThread, Loop,
    daemonVars, pluginVars
<1> QED BY <1>2, <1>3, <1>4, <1>5 DEF DaemonNext, Handle

(* ... of the threads that sources come with ...                           *)
LEMMA NextThreads == DaemonInv /\ [DaemonNext]_daemonVars => ThreadsOK'
<1> SUFFICES ASSUME DaemonInv, [DaemonNext]_daemonVars, log' # <<>>, pc' # "aborted"
             PROVE  threads' \/ (pc' = "parse" /\ cmd'[cur'] = "PLAY")
  BY DEF ThreadsOK
<1>0. ThreadsOK /\ IInv
  BY DEF DaemonInv
<1>1. CASE Handle
  BY <1>1 DEF Handle, Parse, ParseAborts, Leaves, vars, loopVars, netVars
<1>2. CASE FreePlugin
  <2>1. log' = log \/ Plugin!FreeAll
    BY <1>2, HandlerMoves DEF FreePlugin, DaemonInv
  <2>2. log' = log
    BY <2>1 DEF Plugin!FreeAll, Plugin!itemVars
  <2>3. pc = "free" /\ threads' = threads
    BY <1>2 DEF FreePlugin, Unload, vars, loopVars
  <2> QED BY <1>0, <2>2, <2>3 DEF ThreadsOK
<1>3. CASE \/ \E c \in Clients : \E w \in Wishes[c] : Request(c, w)
           \/ HandleOther \/ Answer \/ Threads \/ TagsThread \/ Loop
           \/ UNCHANGED daemonVars
  <2>1. log' = log
    BY <1>3, ThreadsMoves DEF Request, HandleOther, Answer, TagsThread, Loop,
      daemonVars, pluginVars
  <2>2. threads => threads'
    BY <1>3 DEF Request, Ask, HandleOther, Parse, Answer, Send, Threads, TagsThread,
      StreamAborts, Loop, PubSubFails, RegisterAborts, Start, Tick,
      DispatchSignal, Recv, Die, RecvNone, TagsEnd, SendInterrupted, RaiseSignal, Close,
      Terminate, TerminateInterrupted, LingerLapses, Network, Arrive, Deliver, daemonVars, vars, loopVars, netVars
  <2>3. pc = "aborted" => pc' = "aborted"
    BY <1>3 DEF Request, Ask, HandleOther, Parse, Answer, Send, Threads, TagsThread,
      StreamAborts, Loop, PubSubFails, RegisterAborts, Start, Tick,
      DispatchSignal, Recv, Die, RecvNone, TagsEnd, SendInterrupted, RaiseSignal, Close,
      Terminate, TerminateInterrupted, LingerLapses, Network, Arrive, Deliver, daemonVars, vars, loopVars, netVars
  <2>4. pc = "parse" /\ cmd[cur] = "PLAY" => pc' \in {"parse", "aborted"}
    BY <1>3 DEF Request, Ask, HandleOther, Parse, Answer, Send, Threads, TagsThread,
      StreamAborts, Loop, PubSubFails, RegisterAborts, Start, Tick,
      DispatchSignal, Recv, Die, RecvNone, TagsEnd, SendInterrupted, RaiseSignal, Close,
      Terminate, TerminateInterrupted, LingerLapses, Network, Arrive, Deliver, daemonVars, vars, loopVars, netVars
  <2> QED BY <1>0, <2>1, <2>2, <2>3, <2>4, HandStays DEF ThreadsOK
<1> QED BY <1>1, <1>2, <1>3 DEF DaemonNext

(* ... and of the reply in hand. *)
LEMMA NextData == DaemonInv /\ [DaemonNext]_daemonVars => DataOK'
<1> SUFFICES ASSUME DaemonInv, [DaemonNext]_daemonVars PROVE DataOK'
  OBVIOUS
<1>0. DataOK
  BY DEF DaemonInv
<1>1. CASE Handle \/ HandleOther
  BY <1>0, <1>1 DEF Handle, HandleOther, Parse, AfterParse, ParseAborts, DataOK, vars,
    loopVars
<1>2. CASE \/ \E c \in Clients : \E w \in Wishes[c] : Request(c, w)
           \/ Answer \/ FreePlugin \/ Threads \/ TagsThread
  BY <1>0, <1>2 DEF Request, Ask, Answer, Send, FreePlugin, Unload, Threads, TagsThread,
    StreamAborts, DataOK, vars, loopVars
<1>3. CASE Loop
  BY <1>0, <1>3 DEF Loop, PubSubFails, RegisterAborts, Start, Tick, TimerKept,
    DispatchSignal, Recv, Die, RecvNone, TagsEnd, SendInterrupted, RaiseSignal, Close,
    Terminate, TerminateInterrupted, LingerLapses, Network, Arrive, Deliver, loopVars, DataOK
<1>4. CASE UNCHANGED daemonVars
  BY <1>0, <1>4 DEF daemonVars, vars, loopVars, DataOK
<1> QED BY <1>1, <1>2, <1>3, <1>4 DEF DaemonNext

(* The invariant holds at the start, *)
LEMMA DaemonStart == DaemonInit => DaemonInv
<1> SUFFICES ASSUME DaemonInit PROVE DaemonInv
  OBVIOUS
<1>1. IInv /\ Plugin!IInv
  BY InitIInv, PluginInit DEF DaemonInit
<1>2. CallsOK /\ PlaceOK /\ WorkOK /\ ThreadsOK /\ DataOK
  BY DEF DaemonInit, Init, Plugin!Init, CallsOK, PlaceOK, WorkOK, ThreadsOK, DataOK
<1> QED BY <1>1, <1>2 DEF DaemonInv

(* and in every state of the daemon: clients, loop and plugin agree on what *)
(* is asked for and who works on it (gst_playd.c:76-112, 332-335,          *)
(* play.c:213-237, 309-341).                                               *)
THEOREM DaemonInvariance == DaemonSpec => []DaemonInv
<1>1. DaemonInv /\ [DaemonNext]_daemonVars => DaemonInv'
  BY DaemonLoop, DaemonPlugin, NextIInv, PluginNext, NextCalls, NextPlace, NextWork,
     NextThreads, NextData DEF DaemonInv
<1> QED BY <1>1, DaemonStart, PTL DEF DaemonSpec

(* The main loop in the daemon is that of MainLoop: what the plugin gives  *)
(* is what a handler may answer, and it ends the process only where        *)
(* MainLoop lets a handler or a streaming thread end it                    *)
(* (gst_playd.c:76-112, play.c:58-122, 213-237, 309-341).                  *)
THEOREM LoopKept == DaemonSpec => LoopSpec
<1>1. DaemonInit => Init
  BY DEF DaemonInit
<1> QED BY <1>1, DaemonInvariance, DaemonLoop, PTL DEF DaemonSpec, LoopSpec, Spec

(* The plugin in the daemon is that of Playback: requests come to it one   *)
(* at a time, with parameters that it takes (gst_playd.c:76-112,           *)
(* play.c:309-341).                                                        *)
THEOREM PluginKept == DaemonSpec => PluginSpec
<1>1. DaemonInit => Plugin!Init
  BY DEF DaemonInit
<1> QED BY <1>1, DaemonInvariance, DaemonPlugin, PTL DEF DaemonSpec, PluginSpec,
  Plugin!Spec

-----------------------------------------------------------------------------
(* The daemon implements the service of Jukebox.  First the plugin's part: *)
(* what of its steps is seen, and as what.                                 *)
Seen == <<Plugin!Issued, Plugin!InPlay, reply, iter # 0, Titles>>

(* It is seen alike after a step, too. *)
LEMMA SameSeen ==
  /\ Plugin!Issued' = PP!Issued' /\ Plugin!InPlay' = PP!InPlay'
  /\ \A n : Plugin!ItemId(n) = PP!ItemId(n)
BY DEF Plugin!Issued, PP!Issued, Plugin!InPlay, PP!InPlay, Plugin!Answered, PP!Answered,
   Plugin!ItemId, PP!ItemId, Plugin!Starting, PP!Starting, Plugin!Serials, PP!Serials

(* The titles stay while no source is answered for. *)
LEMMA TitlesStay ==
  ASSUME log' = log, place' \in Plugin!Starting <=> place \in Plugin!Starting
  PROVE  Titles' = Titles
BY DEF Titles, Plugin!Answered

(* A new source is not seen. *)
LEMMA NewUnseen ==
  ASSUME Plugin!IInv, NEW u \in Uris, NEW a \in Addrs, Plugin!SourceNew(u, a)
  PROVE  UNCHANGED Seen
<1>1. PP!Unseen
  <2>1. PP!IInv /\ PP!SourceNew(u, a)
    BY SameActions, SameInvariant
  <2>2. PP!CoreInv
    BY <2>1 DEF PP!IInv, PP!CoreInv
  <2> QED BY <2>1, <2>2, PP!PlayUnseen, DaemonAssumption
<1>2. Titles' = Titles
  <2>1. /\ place = "idle" /\ place' = "added"
        /\ \E x : log' = Append(log, x)
    BY DEF Plugin!SourceNew, Plugin!At
  <2>2. Len(log) \in Nat /\ Len(log') = Len(log) + 1 /\ \A k \in 1..Len(log) : log'[k] = log[k]
    BY <2>1 DEF Plugin!IInv, Plugin!TypeOK
  <2>3. Plugin!Answered = Len(log) /\ Plugin!Answered' = Len(log)
    BY <2>1, <2>2 DEF Plugin!Answered, Plugin!Starting
  <2> QED BY <2>2, <2>3 DEF Titles
<1> QED BY <1>1, <1>2, SameInvariant, SameSeen DEF PP!Unseen, Seen

(* Nor is the work on one, or what GStreamer does. *)
LEMMA WorkUnseen ==
  ASSUME Plugin!IInv,
         \/ Plugin!SourceUri \/ Plugin!SourceConnect \/ Plugin!SourceTarget
         \/ Plugin!SourceStartFails \/ Plugin!FreePlay \/ Plugin!FreePlayFails
         \/ Plugin!FreeUnlink \/ Plugin!FreeNext \/ Plugin!FreeDone
         \/ Plugin!FreeRelease
         \/ Plugin!GStreamer \/ Plugin!Second
         \/ \E n \in Params : Plugin!StopFound(n)
  PROVE  UNCHANGED Seen
<1>1. PP!Unseen
  <2>1. CASE Plugin!FreeRelease
    BY <2>1, SameActions, SameInvariant, PP!ReleaseUnseen, DaemonAssumption
  <2>2. CASE ~Plugin!FreeRelease
    BY <2>2, SameActions, SameInvariant, PP!OthersUnseen, DaemonAssumption
  <2> QED BY <2>1, <2>2
<1>2. log' = log /\ (place' \in Plugin!Starting <=> place \in Plugin!Starting)
  BY DEF Plugin!SourceUri, Plugin!SourceConnect, Plugin!SourceTarget,
    Plugin!SourceStartFails,
     Plugin!FreePlay, Plugin!FreePlayFails, Plugin!FreeUnlink, Plugin!FreeNext,
     Plugin!FreeDone,
     Plugin!FreeRelease, Plugin!GStreamer, Plugin!PadAdded, Plugin!PipelineUp,
     Plugin!PipelineFails, Plugin!PipelineLost, Plugin!Second, Plugin!StopFound,
     Plugin!At,
     Plugin!Starting, Plugin!vars, Plugin!mainVars, Plugin!itemVars, Plugin!gstVars
<1> QED BY <1>1, <1>2, TitlesStay, SameInvariant, SameSeen DEF PP!Unseen, Seen

(* A PLAY is seen when it is answered, *)
LEMMA PlaySeen ==
  ASSUME Plugin!IInv, Plugin!SourceStart
  PROVE  /\ \E id \in 0..(IdModulus - 1) : Calls!Play(id)
         /\ Titles' = Append(Titles, log[Len(log)].uri)
<1>1. \E id \in 0..(IdModulus - 1) : PP!Player!Play(id)
  BY SameActions, SameInvariant, PP!PlayAnswered, DaemonAssumption
<1>2. \A id : PP!Player!Play(id) => Calls!Play(id)
  BY SameInvariant, SameSeen DEF PP!Player!Play, Calls!Play
<1>3. Titles' = Append(Titles, log[Len(log)].uri)
  <2>1. place = "go" /\ place' = "idle" /\ log' = log /\ log # <<>>
    BY DEF Plugin!SourceStart, Plugin!At, Plugin!IInv, Plugin!PlaceOK, Plugin!HeapOK,
      Plugin!Starting
  <2>2. Len(log) \in Nat \ {0}
    BY <2>1 DEF Plugin!IInv, Plugin!TypeOK
  <2>3. Plugin!Answered = Len(log) - 1 /\ Plugin!Answered' = Len(log)
    BY <2>1 DEF Plugin!Answered, Plugin!Starting
  <2> QED BY <2>1, <2>2, <2>3 DEF Titles
<1> QED BY <1>1, <1>2, <1>3

(* a STOP when it is refused, *)
LEMMA RefusalSeen ==
  ASSUME Plugin!IInv, NEW n \in Params, Plugin!StopUnknown(n)
  PROVE  Calls!Refuse(n % IdModulus) /\ Titles' = Titles
<1>1. PP!Player!Refuse(n % IdModulus)
  BY SameActions, SameInvariant, PP!StopRefused, DaemonAssumption
<1>2. Calls!Refuse(n % IdModulus)
  BY <1>1, SameInvariant, SameSeen DEF PP!Player!Refuse, Calls!Refuse,
    PP!Player!WithId, Calls!WithId
<1>3. Titles' = Titles
  BY TitlesStay DEF Plugin!StopUnknown, Plugin!itemVars
<1> QED BY <1>2, <1>3

(* in its last step if it names a source, *)
LEMMA StopSeen ==
  ASSUME Plugin!IInv, Plugin!FreeRemove, iter = 0
  PROVE  Calls!Stop(Plugin!ItemId(heap[item])) /\ Titles' = Titles
<1>1. PP!Player!Stop(PP!ItemId(heap[item]))
  BY SameActions, SameInvariant, PP!StopAnswered, DaemonAssumption
<1>2. Calls!Stop(Plugin!ItemId(heap[item]))
  BY <1>1, SameInvariant, SameSeen DEF PP!Player!Stop, Calls!Stop, PP!Player!WithId,
    Calls!WithId,
    PP!Player!Max, Calls!Max
<1>3. Titles' = Titles
  BY TitlesStay DEF Plugin!FreeRemove, Plugin!At, Plugin!Starting
<1> QED BY <1>2, <1>3

(* and the unloading source by source. *)
LEMMA UnloadSeen ==
  ASSUME Plugin!IInv, Plugin!FreeAll \/ (Plugin!FreeRemove /\ iter # 0)
  PROVE  (Calls!Close \/ Calls!Unload) /\ Titles' = Titles
<1>1. CASE Plugin!FreeAll
  <2>1. /\ place = "idle" /\ place' = "next" /\ iter = 0 /\ iter' = 1
        /\ UNCHANGED <<log, muxPads, reply>>
    BY <1>1 DEF Plugin!FreeAll, Plugin!At, Plugin!IInv, Plugin!PlaceOK,
      Plugin!itemVars, Plugin!gstVars
  <2>2. Titles' = Titles /\ Plugin!Issued' = Plugin!Issued /\ Plugin!InPlay' = Plugin!InPlay
    BY <2>1 DEF Titles, Plugin!Issued, Plugin!InPlay, Plugin!Answered, Plugin!ItemId,
      Plugin!Starting
  <2> QED BY <2>1, <2>2 DEF Calls!Close
<1>2. CASE Plugin!FreeRemove /\ iter # 0
  <2>1. PP!Player!Unload
    BY <1>2, SameActions, SameInvariant, PP!UnloadStep, DaemonAssumption
  <2>2. Calls!Unload
    BY <2>1, SameInvariant, SameSeen DEF PP!Player!Unload, Calls!Unload,
      PP!Player!Max, Calls!Max
  <2>3. Titles' = Titles
    BY <1>2, TitlesStay DEF Plugin!FreeRemove, Plugin!At, Plugin!Starting
  <2> QED BY <2>2, <2>3
<1> QED BY <1>1, <1>2

(* Then the clients' part. *)
View == <<Stage, Wanted, Got>>

(* A client sees nothing of a step that leaves its request alone.          *)
LEMMA ViewStays ==
  ASSUME UNCHANGED <<link, cmd, data, owed, wish, text, reply>>
  PROVE  UNCHANGED View
BY DEF View, Stage, Wanted, Got, HasReply

(* One client moves and the others do not.                                 *)
LEMMA OneMoves ==
  ASSUME NEW c \in Clients, NEW s, NEW w, NEW g,
         Stage'[c] = s, Wanted'[c] = w, Got'[c] = g,
         \A d \in Clients \ {c} :
           Stage'[d] = Stage[d] /\ Wanted'[d] = Wanted[d] /\ Got'[d] = Got[d]
  PROVE  /\ Stage' = [Stage EXCEPT ![c] = s] /\ Wanted' = [Wanted EXCEPT ![c] = w]
         /\ Got' = [Got EXCEPT ![c] = g]
<1>1. Stage' = [Stage EXCEPT ![c] = s]
  <2>1. /\ Stage = [d \in Clients |-> Stage[d]]
        /\ Stage' = [d \in Clients |-> Stage'[d]]
    BY DEF Stage
  <2> QED BY <2>1
<1>2. Wanted' = [Wanted EXCEPT ![c] = w]
  <2>1. /\ Wanted = [d \in Clients |-> Wanted[d]]
        /\ Wanted' = [d \in Clients |-> Wanted'[d]]
    BY DEF Wanted
  <2> QED BY <2>1
<1>3. Got' = [Got EXCEPT ![c] = g]
  <2>1. /\ Got = [d \in Clients |-> Got[d]]
        /\ Got' = [d \in Clients |-> Got'[d]]
    BY DEF Got
  <2> QED BY <2>1
<1> QED BY <1>1, <1>2, <1>3

(* Or none moves. *)
LEMMA NoneMoves ==
  ASSUME \A d \in Clients :
           Stage'[d] = Stage[d] /\ Wanted'[d] = Wanted[d] /\ Got'[d] = Got[d]
  PROVE  UNCHANGED View
<1>1. Stage' = Stage
  BY DEF Stage
<1>2. Wanted' = Wanted
  BY DEF Wanted
<1>3. Got' = Got
  BY DEF Got
<1> QED BY <1>1, <1>2, <1>3 DEF View

(* Requests of the plugin are asked, and others are not seen.              *)
LEMMA RequestSeen ==
  ASSUME DaemonInv, NEW c \in Clients, NEW w \in Wishes[c], Request(c, w)
  PROVE  Calls!Ask(c, w) \/ UNCHANGED <<Seen, View>>
<1>1. /\ link[c] = "idle" /\ link' = [link EXCEPT ![c] = "wire"]
      /\ cmd' = [cmd EXCEPT ![c] = Command(w)] /\ wish' = [wish EXCEPT ![c] = w]
      /\ UNCHANGED <<data, owed, text>>
  BY DEF Request, Ask, loopVars
<1>2. link \in [Clients -> {"idle", "wire", "queued", "taken", "sent", "lost"}]
      /\ cmd \in [Clients -> Commands \cup {NULL}] /\ DOMAIN wish = Clients
  BY DEF DaemonInv, IInv, TypeOK, CallsOK
<1>3. UNCHANGED <<reply, iter, log, place, heap, item, muxPads>>
  BY DEF Request, pluginVars
<1>4. UNCHANGED Seen
  BY <1>3 DEF Seen, Plugin!Issued, Plugin!InPlay, Titles, Plugin!Answered, Plugin!ItemId
<1>5. \A d \in Clients \ {c} :
        Stage'[d] = Stage[d] /\ Wanted'[d] = Wanted[d] /\ Got'[d] = Got[d]
  BY <1>1, <1>2, <1>3 DEF Stage, Wanted, Got, HasReply
<1>6. Stage[c] = "idle" /\ Wanted[c] = NULL /\ Got[c] = NULL
  BY <1>1 DEF Stage, Wanted, Got
<1>7. CASE Command(w) = "PLAY"
  <2>1. Stage'[c] = "asked" /\ Wanted'[c] = w /\ Got'[c] = NULL
    BY <1>1, <1>2, <1>7 DEF Stage, Wanted, Got, HasReply
  <2>2. Got' = Got
    BY <1>5, <1>6, <2>1 DEF Got
  <2> QED BY <1>4, <1>5, <1>6, <1>7, <2>1, <2>2, OneMoves DEF Calls!Ask,
    Calls!setVars, Calls!vars, Seen
<1>8. CASE Command(w) # "PLAY"
  <2>1. Stage'[c] = "idle" /\ Wanted'[c] = NULL /\ Got'[c] = NULL
    BY <1>1, <1>2, <1>8 DEF Stage, Wanted, Got, HasReply
  <2> QED BY <1>4, <1>5, <1>6, <2>1, NoneMoves
<1> QED BY <1>7, <1>8

(* The request in hand has not taken effect until its handler returns, and *)
(* then it has.                                                            *)
LEMMA ReturnSeen ==
  ASSUME DaemonInv, pc = "parse", cmd[cur] = "PLAY", Parse, data' \in {"OK", "FAIL"},
         UNCHANGED callVars
  PROVE  /\ cur \in Clients /\ Stage[cur] = "asked" /\ Wanted[cur] = wish[cur]
         /\ Stage' = [Stage EXCEPT ![cur] = "done"] /\ Wanted' = Wanted
         /\ Got' = [Got EXCEPT ![cur] = reply']
<1>1. /\ cur \in Clients /\ link[cur] = "taken" /\ ~owed /\ data = "none"
      /\ \A c \in Clients : link[c] = "taken" => c = cur
  BY InHand DEF Handling, DaemonInv, DataOK
<1>2. UNCHANGED <<link, cmd, owed, wish, text>> /\ data' # "none"
  BY DEF Parse, netVars, callVars
<1>3. Stage[cur] = "asked" /\ Wanted[cur] = wish[cur]
  BY <1>1 DEF Stage, Wanted, HasReply
<1>4. Stage'[cur] = "done" /\ Wanted'[cur] = wish[cur] /\ Got'[cur] = reply'
  BY <1>1, <1>2 DEF Stage, Wanted, Got, HasReply
<1>5. \A d \in Clients \ {cur} :
        Stage'[d] = Stage[d] /\ Wanted'[d] = Wanted[d] /\ Got'[d] = Got[d]
  BY <1>1, <1>2 DEF Stage, Wanted, Got, HasReply
<1>6. Wanted' = Wanted
  BY <1>3, <1>4, <1>5 DEF Wanted
<1> QED BY <1>1, <1>3, <1>4, <1>5, <1>6, OneMoves

(* A PLAY or a STOP takes effect when its handler returns, and before that *)
(* nothing is seen of it.                                                  *)
LEMMA HandleSeen ==
  ASSUME DaemonInv, Handle
  PROVE  (\E c \in Clients : Calls!Do(c)) \/ UNCHANGED <<Seen, View>>
<1> DEFINE w == wish[cur]
<1>0. /\ Plugin!IInv /\ WorkOK /\ iter = 0 /\ pc = "parse" /\ cmd[cur] = "PLAY"
      /\ w \in Wishes[cur] /\ cur \in Clients
  BY InHand DEF DaemonInv, Handle, PlaceOK, Handling
<1>1. ASSUME UNCHANGED Seen, place' # "idle" \/ fate' # "running"
      PROVE  UNCHANGED <<Seen, View>>
  <2>1. UNCHANGED <<link, cmd, data, owed, wish, text>>
    BY <1>1 DEF Handle, ParseAborts, vars, loopVars, netVars, callVars
  <2> QED BY <1>1, <2>1, ViewStays DEF Seen
<1>2. ASSUME place' = "idle", fate' = "running", reply'.verb \in {"OK", "FAIL"}
      PROVE  /\ Stage[cur] = "asked" /\ Wanted[cur] = w
             /\ Stage' = [Stage EXCEPT ![cur] = "done"] /\ Wanted' = Wanted
             /\ Got' = [Got EXCEPT ![cur] = reply']
  <2>1. Parse /\ data' \in {"OK", "FAIL"} /\ UNCHANGED callVars
    BY <1>2 DEF Handle
  <2> QED BY <1>0, <2>1, ReturnSeen
<1>3. CASE Call(w)
  <2>1. CASE \E a \in Addrs : w.op = "PLAY" /\ Plugin!SourceNew(w.what, a)
    <3>1. w.what \in Uris
      BY <1>0, <2>1, DaemonAssumption
    <3> QED BY <1>0, <1>1, <2>1, <3>1, NewUnseen DEF Plugin!SourceNew
  <2>2. CASE w.op = "STOP" /\ Plugin!StopFound(w.what)
    <3>1. w.what \in Params
      BY <1>0, <2>2, DaemonAssumption
    <3> QED BY <1>0, <1>1, <2>2, <3>1, WorkUnseen DEF Plugin!StopFound
  <2>3. CASE w.op = "STOP" /\ Plugin!StopUnknown(w.what)
    <3>1. w.what \in Params
      BY <1>0, <2>3, DaemonAssumption
    <3>2. Calls!Refuse(w.what % IdModulus) /\ Titles' = Titles
      BY <1>0, <2>3, <3>1, RefusalSeen
    <3>3. place' = "idle" /\ fate' = "running" /\ reply'.verb = "FAIL"
      BY <2>3 DEF Plugin!StopUnknown, Plugin!At
    <3> QED BY <1>0, <1>2, <2>3, <3>2, <3>3 DEF Calls!Do
  <2> QED BY <1>3, <2>1, <2>2, <2>3 DEF Call
<1>4. CASE Plugin!Handler
  <2>1. CASE Plugin!SourceStart
    <3>1. /\ place = "go" /\ place' = "idle" /\ fate' = "running" /\ reply'.verb = "OK"
      BY <2>1 DEF Plugin!SourceStart, Plugin!At
    <3>2. w.op = "PLAY" /\ log[Len(log)].uri = w.what
      BY <1>0, <3>1 DEF WorkOK, Plugin!Starting
    <3>3. /\ \E id \in 0..(IdModulus - 1) : Calls!Play(id)
          /\ Titles' = Append(Titles, w.what)
      BY <1>0, <2>1, <3>2, PlaySeen
    <3> QED BY <1>0, <1>2, <3>1, <3>2, <3>3 DEF Calls!Do
  <2>2. CASE Plugin!FreeRemove
    <3>1. place = "remove" /\ place' = "idle" /\ fate' = "running" /\ reply'.verb = "OK"
      BY <1>0, <2>2 DEF Plugin!FreeRemove, Plugin!At
    <3>2. w.op = "STOP" /\ Plugin!ItemId(heap[item]) = w.what % IdModulus
      BY <1>0, <3>1 DEF WorkOK, Plugin!Freeing
    <3>3. Calls!Stop(w.what % IdModulus) /\ Titles' = Titles
      BY <1>0, <2>2, <3>2, StopSeen
    <3> QED BY <1>0, <1>2, <3>1, <3>2, <3>3 DEF Calls!Do
  <2>3. CASE ~Plugin!SourceStart /\ ~Plugin!FreeRemove
    <3>1. UNCHANGED Seen
      BY <1>0, <1>4, <2>3, WorkUnseen DEF Plugin!Handler
    <3>2. place' # "idle" \/ fate' # "running"
      BY <1>4, <2>3 DEF Plugin!Handler, Plugin!SourceUri, Plugin!SourceConnect,
        Plugin!SourceTarget, Plugin!SourceStartFails, Plugin!FreePlay,
        Plugin!FreePlayFails,
        Plugin!FreeUnlink, Plugin!FreeRelease, Plugin!FreeNext, Plugin!FreeDone
    <3> QED BY <1>1, <3>1, <3>2
  <2> QED BY <2>1, <2>2, <2>3
<1> QED BY <1>3, <1>4 DEF Handle

(* The reply goes to the client who made the request, if it is there.      *)
LEMMA AnswerSeen ==
  ASSUME DaemonInv, Answer
  PROVE  (Calls!Return(cur) /\ cur \in Clients) \/ UNCHANGED <<Seen, View>>
<1>1. /\ cur \in Clients /\ link[cur] = "taken" /\ ~owed
      /\ \A c \in Clients : link[c] = "taken" => c = cur
  BY InHand DEF Answer, Send, Handling
<1>2. /\ link \in [Clients -> {"idle", "wire", "queued", "taken", "sent", "lost"}]
      /\ DOMAIN wish = Clients /\ DOMAIN text = Clients
      /\ data \in {"OK", "FAIL"}
  BY AnswersType DEF DaemonInv, IInv, TypeOK, CallsOK, Answer, Send, ReplyOK
<1>3. /\ link' = [link EXCEPT ![cur] = IF cur \in gone THEN "idle" ELSE "sent"]
      /\ UNCHANGED <<cmd, owed>> /\ UNCHANGED pluginVars /\ data' = "none"
      /\ wish' = [c \in Clients |-> IF link'[c] = "idle" THEN NULL ELSE wish[c]]
      /\ \A c \in Clients : link'[c] = "sent" =>
           text'[c] = IF c = cur /\ cmd[cur] = "PLAY" THEN reply ELSE text[c]
  BY <1>1, <1>2 DEF Answer, Send, Settle
<1>4. UNCHANGED Seen
  BY <1>3 DEF Seen, pluginVars, Plugin!Issued, Plugin!InPlay, Titles, Plugin!Answered,
    Plugin!ItemId
<1>5. reply' = reply
  BY <1>3 DEF pluginVars
<1>6. \A d \in Clients \ {cur} :
        Stage'[d] = Stage[d] /\ Wanted'[d] = Wanted[d] /\ Got'[d] = Got[d]
  BY <1>1, <1>2, <1>3 DEF Stage, Wanted, Got, HasReply
<1>7. CASE cmd[cur] = "PLAY" /\ cur \in gone
  <2>1. Stage[cur] = "done"
    BY <1>1, <1>2, <1>7 DEF Stage, HasReply
  <2>2. Stage'[cur] = "idle" /\ Wanted'[cur] = NULL /\ Got'[cur] = NULL
    BY <1>1, <1>2, <1>3, <1>7 DEF Stage, Wanted, Got
  <2> QED BY <1>1, <1>4, <1>6, <2>1, <2>2, OneMoves DEF Calls!Return, Calls!setVars,
    Calls!vars, Seen
<1>8. CASE ~(cmd[cur] = "PLAY" /\ cur \in gone)
  <2>1. Stage'[cur] = Stage[cur] /\ Wanted'[cur] = Wanted[cur] /\ Got'[cur] = Got[cur]
    BY <1>1, <1>2, <1>3, <1>5, <1>8 DEF Stage, Wanted, Got, HasReply
  <2> QED BY <1>4, <1>6, <2>1, NoneMoves
<1> QED BY <1>7, <1>8

(* What is lost is lost by a daemon that unloads the plugin or has done so. *)
LEMMA LossSeen ==
  ASSUME DaemonInv, Close \/ LingerLapses, Settle(text), UNCHANGED pluginVars
  PROVE  \E C \in SUBSET Clients : Calls!Lose(C)
<1> DEFINE L == {c \in Clients : Stage'[c] = "lost" /\ Stage[c] # "lost"}
<1>0. /\ link \in [Clients -> {"idle", "wire", "queued", "taken", "sent", "lost"}]
      /\ DOMAIN wish = Clients /\ DOMAIN text = Clients /\ iter # 0
  BY DEF DaemonInv, IInv, TypeOK, CallsOK, Close, LingerLapses, PlaceOK
<1>1. UNCHANGED <<cmd, owed, data>>
  BY DEF Close, LingerLapses, loopVars
<1>2. \A c \in Clients :
        \/ link'[c] = link[c]
        \/ link'[c] = "lost" /\ link[c] \in {"queued", "taken", "sent"}
  BY <1>0 DEF Close, LingerLapses
<1>3. reply' = reply
  BY DEF pluginVars
<1>4. UNCHANGED Seen
  BY DEF Seen, pluginVars, Plugin!Issued, Plugin!InPlay, Titles, Plugin!Answered,
    Plugin!ItemId
<1>5. \A c \in Clients : wish'[c] = IF link'[c] = "idle" THEN NULL ELSE wish[c]
  BY DEF Settle
<1>6. \A c \in Clients : link'[c] = "sent" => text'[c] = text[c]
  BY DEF Settle
<1>7. ASSUME NEW c \in Clients
      PROVE  /\ c \in L => /\ Stage[c] \in {"asked", "done"} /\ Stage'[c] = "lost"
                          /\ Wanted'[c] = Wanted[c] /\ Got'[c] = NULL
             /\ c \notin L => /\ Stage'[c] = Stage[c]
                             /\ Wanted'[c] = Wanted[c] /\ Got'[c] = Got[c]
  <2>1. CASE link'[c] = link[c]
    BY <1>1, <1>3, <1>5, <1>6, <2>1 DEF Stage, Wanted, Got, HasReply
  <2>2. CASE link'[c] = "lost" /\ link[c] \in {"queued", "taken", "sent"}
    BY <1>1, <1>3, <1>5, <1>6, <2>2 DEF Stage, Wanted, Got, HasReply
  <2> QED BY <1>2, <2>1, <2>2
<1>8. /\ Stage' = [c \in Clients |-> IF c \in L THEN "lost" ELSE Stage[c]]
      /\ Got' = [c \in Clients |-> IF c \in L THEN NULL ELSE Got[c]]
      /\ Wanted' = Wanted
  <2> HIDE DEF L
  <2>1. /\ Stage' = [c \in Clients |-> Stage'[c]] /\ Got' = [c \in Clients |-> Got'[c]]
        /\ Wanted' = [c \in Clients |-> Wanted'[c]] /\ Wanted = [c \in Clients |-> Wanted[c]]
    BY DEF Stage, Got, Wanted
  <2> QED BY <1>7, <2>1
<1>9. Calls!Lose(L)
  BY <1>0, <1>4, <1>7, <1>8 DEF Calls!Lose, Calls!setVars, Calls!vars, Seen
<1> QED BY <1>9

(* The other steps of the main loop and of the network bring replies to    *)
(* their clients, and nothing else is seen of them.                        *)
LEMMA LoopSeen ==
  ASSUME DaemonInv, Loop
  PROVE  \/ \E C \in SUBSET Clients : Calls!Lose(C)
         \/ \E c \in Clients : Calls!Return(c)
         \/ UNCHANGED <<Seen, View>>
<1>0. /\ link \in [Clients -> {"idle", "wire", "queued", "taken", "sent", "lost"}]
      /\ cmd \in [Clients -> Commands \cup {NULL}]
      /\ DOMAIN wish = Clients /\ DOMAIN text = Clients
  BY DEF DaemonInv, IInv, TypeOK, CallsOK
<1>1. UNCHANGED pluginVars /\ Settle(text)
  BY DEF Loop
<1>2. UNCHANGED Seen /\ reply' = reply
  BY <1>1 DEF Seen, pluginVars, Plugin!Issued, Plugin!InPlay, Titles, Plugin!Answered,
    Plugin!ItemId
<1>3. \A c \in Clients :
        /\ wish'[c] = IF link'[c] = "idle" THEN NULL ELSE wish[c]
        /\ link'[c] = "sent" => text'[c] = text[c]
  BY <1>1 DEF Settle
<1>4. ASSUME NEW c \in Clients, link[c] = "sent", link' = [link EXCEPT ![c] = "idle"],
             \A d \in Clients \ {c} : cmd'[d] = cmd[d], UNCHANGED <<data, owed>>
      PROVE  Calls!Return(c) \/ UNCHANGED <<Seen, View>>
  <2>1. \A d \in Clients \ {c} :
          Stage'[d] = Stage[d] /\ Wanted'[d] = Wanted[d] /\ Got'[d] = Got[d]
    BY <1>0, <1>2, <1>3, <1>4 DEF Stage, Wanted, Got, HasReply
  <2>2. Stage'[c] = "idle" /\ Wanted'[c] = NULL /\ Got'[c] = NULL
    BY <1>0, <1>4 DEF Stage, Wanted, Got
  <2>3. CASE cmd[c] = "PLAY"
    <3>1. Stage[c] = "done"
      BY <1>4, <2>3 DEF Stage, HasReply
    <3> QED BY <1>2, <2>1, <2>2, <3>1, OneMoves DEF Calls!Return, Calls!setVars,
      Calls!vars, Seen
  <2>4. CASE cmd[c] # "PLAY"
    <3>1. Stage[c] = "idle" /\ Wanted[c] = NULL /\ Got[c] = NULL
      BY <2>4 DEF Stage, Wanted, Got
    <3> QED BY <1>2, <2>1, <2>2, <3>1, NoneMoves
  <2> QED BY <2>3, <2>4
<1>5. ASSUME UNCHANGED <<link, cmd, data, owed>> PROVE UNCHANGED View
  BY <1>2, <1>3, <1>5, NoneMoves DEF Stage, Wanted, Got, HasReply
<1>6. CASE Close \/ LingerLapses
  BY <1>1, <1>6, LossSeen
<1>7. CASE \E c \in Clients : Deliver(c)
  <2>1. PICK c \in Clients : Deliver(c)
    BY <1>7
  <2>2. /\ link[c] = "sent" /\ link' = [link EXCEPT ![c] = "idle"]
        /\ \A d \in Clients \ {c} : cmd'[d] = cmd[d]
        /\ UNCHANGED <<data, owed>>
    BY <1>0, <2>1 DEF Deliver, loopVars
  <2> QED BY <1>4, <2>2
<1>8. CASE \E c \in Clients : Die(c)
  <2>1. PICK c \in Clients : Die(c)
    BY <1>8
  <2>2. UNCHANGED <<cmd, data, owed>>
        /\ link' = [link EXCEPT ![c] = IF @ = "sent" THEN "idle" ELSE @]
    BY <2>1 DEF Die, loopVars
  <2>3. CASE link[c] = "sent"
    BY <1>4, <2>2, <2>3
  <2>4. CASE link[c] # "sent"
    <3>1. link' = link
      BY <1>0, <2>2, <2>4
    <3> QED BY <1>2, <1>5, <2>2, <3>1
  <2> QED BY <2>3, <2>4
<1>9. CASE \E c \in Clients : Recv(c) \/ Arrive(c)
  <2>1. PICK c \in Clients : Recv(c) \/ Arrive(c)
    BY <1>9
  <2>2. /\ UNCHANGED <<cmd, data, owed>>
        /\ \A d \in Clients \ {c} : link'[d] = link[d]
        /\ \/ link[c] = "queued" /\ link'[c] = "taken" /\ data = "none" /\ ~owed
           \/ link[c] = "wire" /\ link'[c] = "queued"
    BY <1>0, <2>1 DEF Recv, Receivable, Arrive, loopVars, DaemonInv, DataOK
  <2>3. \A d \in Clients :
          Stage'[d] = Stage[d] /\ Wanted'[d] = Wanted[d] /\ Got'[d] = Got[d]
    BY <1>0, <1>2, <1>3, <2>2 DEF Stage, Wanted, Got, HasReply
  <2> QED BY <1>2, <2>3, NoneMoves
<1>10. CASE SendInterrupted
  <2>1. /\ UNCHANGED <<link, cmd>> /\ data # "none" /\ data' = "none" /\ owed' = TRUE
        /\ \A c \in Clients : link[c] = "taken" => c = cur
    BY <1>10, InHand, AnswersType DEF SendInterrupted, netVars, Handling, DaemonInv,
      IInv, ReplyOK
  <2>2. \A d \in Clients :
          Stage'[d] = Stage[d] /\ Wanted'[d] = Wanted[d] /\ Got'[d] = Got[d]
    BY <1>0, <1>2, <1>3, <2>1 DEF Stage, Wanted, Got, HasReply
  <2> QED BY <1>2, <2>2, NoneMoves
<1>11. CASE \/ PubSubFails \/ RegisterAborts \/ Start \/ Tick \/ DispatchSignal
            \/ RecvNone \/ TagsEnd \/ RaiseSignal \/ Terminate \/ TerminateInterrupted
  <2>1. UNCHANGED <<link, cmd, data, owed>>
    BY <1>11 DEF PubSubFails, RegisterAborts, Start, Tick, DispatchSignal, RecvNone,
      TagsEnd,
      RaiseSignal, Terminate, TerminateInterrupted, netVars
  <2> QED BY <1>2, <1>5, <2>1
<1> QED BY <1>6, <1>7, <1>8, <1>9, <1>10, <1>11 DEF Loop, Network

(* The unloading is seen source by source, and its clients wait.           *)
LEMMA FreeSeen ==
  ASSUME DaemonInv, FreePlugin
  PROVE  Calls!Ending \/ UNCHANGED <<Seen, View>>
<1>0. Plugin!IInv /\ PlaceOK
  BY DEF DaemonInv
<1>1. ASSUME reply' = reply PROVE UNCHANGED View
  <2>1. UNCHANGED <<link, cmd, data, owed, wish, text>>
    BY DEF FreePlugin, Unload, vars, loopVars, netVars, callVars
  <2> QED BY <1>1, <2>1, ViewStays
<1>2. CASE Plugin!FreeAll \/ Plugin!FreeRemove
  <2>1. iter # 0 \/ Plugin!FreeAll
    BY <1>0, <1>2 DEF PlaceOK, FreePlugin, Plugin!FreeRemove, Plugin!At
  <2>2. reply' = reply
    BY <1>2, <2>1 DEF Plugin!FreeAll, Plugin!FreeRemove
  <2> QED BY <1>0, <1>1, <1>2, <2>1, <2>2, UnloadSeen DEF Calls!Ending, View,
    Calls!clientVars
<1>3. CASE Plugin!Handler /\ ~Plugin!FreeRemove
  <2>1. ~Plugin!SourceStart
    BY <1>0 DEF PlaceOK, FreePlugin, Plugin!SourceStart, Plugin!At, Plugin!IInv,
      Plugin!PlaceOK,
      Plugin!Starting
  <2>2. UNCHANGED Seen
    BY <1>0, <1>3, <2>1, WorkUnseen DEF Plugin!Handler
  <2> QED BY <1>1, <2>2 DEF Seen
<1> QED BY <1>2, <1>3 DEF FreePlugin

(* Every step of the daemon is a step of the service, or is not seen.      *)
LEMMA NextSeen ==
  DaemonInv /\ [DaemonNext]_daemonVars => [Calls!Step]_<<Calls!setVars, Calls!clientVars>>
<1> SUFFICES ASSUME DaemonInv, [DaemonNext]_daemonVars
             PROVE  Calls!Step \/ UNCHANGED <<Seen, View>>
  BY DEF Calls!setVars, Calls!vars, Calls!clientVars, Seen, View
<1>1. CASE \E c \in Clients : \E w \in Wishes[c] : Request(c, w)
  <2>1. PICK c \in Clients : \E w \in Wishes[c] : Request(c, w)
    BY <1>1
  <2>2. PICK w \in Wishes[c] : Request(c, w)
    BY <2>1
  <2>3. CASE Command(w) = "PLAY"
    <3>1. w \in {v \in Wishes[c] : Command(v) = "PLAY"}
      BY <2>3
    <3> QED BY <2>2, <3>1, RequestSeen DEF Calls!Step
  <2>4. CASE Command(w) # "PLAY"
    BY <2>2, <2>4, RequestSeen DEF Calls!Step, Calls!Ask
  <2> QED BY <2>3, <2>4
<1>2. CASE Handle
  BY <1>2, HandleSeen DEF Calls!Step
<1>3. CASE Answer
  BY <1>3, AnswerSeen DEF Calls!Step
<1>4. CASE FreePlugin
  BY <1>4, FreeSeen DEF Calls!Step
<1>5. CASE Loop
  BY <1>5, LoopSeen DEF Calls!Step
<1>6. CASE Threads
  <2>1. UNCHANGED Seen
    BY <1>6, WorkUnseen DEF Threads, DaemonInv
  <2>2. UNCHANGED <<link, cmd, data, owed, wish, text>>
    BY <1>6 DEF Threads, vars, loopVars, netVars, callVars
  <2> QED BY <2>1, <2>2, ViewStays DEF Seen
<1>7. CASE HandleOther \/ TagsThread \/ UNCHANGED daemonVars
  <2>1. UNCHANGED pluginVars /\ UNCHANGED <<link, cmd, owed, wish, text>>
    BY <1>7 DEF HandleOther, Parse, TagsThread, StreamAborts, daemonVars, callVars,
      vars, loopVars, netVars
  <2>2. UNCHANGED Seen /\ reply' = reply
    BY <2>1 DEF Seen, pluginVars, Plugin!Issued, Plugin!InPlay, Titles,
      Plugin!Answered, Plugin!ItemId
  <2>3. data' = data \/ (pc = "parse" /\ cmd[cur] # "PLAY")
    BY <1>7 DEF HandleOther, TagsThread, StreamAborts, daemonVars, vars, loopVars
  <2>4. CASE data' = data
    BY <2>1, <2>2, <2>4, ViewStays
  <2>5. CASE pc = "parse" /\ cmd[cur] # "PLAY"
    <3>1. \A c \in Clients : link[c] = "taken" => cmd[c] # "PLAY"
      BY <2>5, InHand DEF Handling
    <3>2. \A d \in Clients :
            Stage'[d] = Stage[d] /\ Wanted'[d] = Wanted[d] /\ Got'[d] = Got[d]
      BY <2>1, <2>2, <3>1 DEF Stage, Wanted, Got, HasReply
    <3> QED BY <2>2, <3>2, NoneMoves
  <2> QED BY <2>3, <2>4, <2>5
<1> QED BY <1>1, <1>2, <1>3, <1>4, <1>5, <1>6, <1>7 DEF DaemonNext

(* The service starts as the daemon does. *)
LEMMA StartSeen == DaemonInit => Calls!Start
<1> SUFFICES ASSUME DaemonInit PROVE Calls!Start
  OBVIOUS
<1>1. Plugin!Answered = 0 /\ Plugin!InPlay = {}
  BY DEF DaemonInit, Plugin!Init, Plugin!Answered, Plugin!InPlay, Plugin!Starting
<1>2. Plugin!Issued = <<>> /\ Titles = <<>>
  BY <1>1 DEF Plugin!Issued, Titles
<1>3. /\ Stage = [c \in Clients |-> "idle"] /\ Wanted = [c \in Clients |-> NULL]
      /\ Got = [c \in Clients |-> NULL]
  BY DEF DaemonInit, Init, Stage, Wanted, Got
<1> QED BY <1>1, <1>2, <1>3 DEF Calls!Start, Calls!Init, DaemonInit, Plugin!Init

(* Whatever its clients ask, and whatever signals, threads and connections *)
(* do, the daemon serves PLAY and STOP one at a time: each takes effect    *)
(* once, between its request and its answer, and its own client gets the   *)
(* answer (gst_playd.c:76-112, 146-166, 329-342, play.c:65-145, 309-341).  *)
THEOREM ServiceKept == DaemonSpec => JukeboxSpec
<1>1. DaemonInit /\ [][DaemonNext]_daemonVars /\ []DaemonInv
        => Calls!Start /\ [][Calls!Step]_<<Calls!setVars, Calls!clientVars>>
  BY StartSeen, NextSeen, PTL
<1> QED BY <1>1, DaemonInvariance, PTL DEF DaemonSpec, JukeboxSpec, Calls!Service
=============================================================================
