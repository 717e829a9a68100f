---------------------------- MODULE EventsProofs ----------------------------
(***************************************************************************)
(* For any programs on a host: a listener prints the events of its own     *)
(* port, each once and in order, a daemon is deaf for one of two reasons,  *)
(* and Events implements Feed.                                             *)
(***************************************************************************)
EXTENDS Events, TLAPS, SequenceTheorems

(* The invariant holds before any program is started.                      *)
LEMMA InitIInv == Init => IInv
BY EventsAssumption DEF Init, IInv, TypeOK, HeardRight, RouteOK, SocketOK

-----------------------------------------------------------------------------
(* What a queue becomes when a connection ends: its beginning.             *)
Shortened ==
  /\ queue' \in [Clients -> Seq(Daemons \X Nat)]
  /\ \A c \in Clients :
       /\ Len(queue'[c]) <= Len(queue[c])
       /\ \A i \in 1..Len(queue'[c]) : queue'[c][i] = queue[c][i]

(* A prefix of a queue is a queue.                                         *)
LEMMA Prefix ==
  ASSUME NEW q \in Seq(Daemons \X Nat), NEW n \in 0..Len(q)
  PROVE  /\ SubSeq(q, 1, n) \in Seq(Daemons \X Nat) /\ Len(SubSeq(q, 1, n)) = n
         /\ \A i \in 1..n : SubSeq(q, 1, n)[i] = q[i]
<1>1. \A i \in 1..n : q[i] \in Daemons \X Nat
  BY ElementOfSeq
<1> QED BY <1>1, SubSeqProperties

(* Cutting connections leaves what has come to the listeners.              *)
LEMMA CutShortens ==
  ASSUME TypeOK, NEW C, Cut(C)
  PROVE  /\ Shortened /\ joined' \in [Clients -> Daemons \cup {NULL}]
         /\ \A c \in Clients : received[c] <= Len(queue'[c])
<1>1. ASSUME NEW c \in Clients
      PROVE  queue[c] \in Seq(Daemons \X Nat) /\ received[c] \in 0..Len(queue[c])
  BY DEF TypeOK
<1>2. ASSUME NEW c \in Clients
      PROVE  /\ queue'[c] \in Seq(Daemons \X Nat)
             /\ Len(queue'[c]) <= Len(queue[c]) /\ received[c] <= Len(queue'[c])
             /\ \A i \in 1..Len(queue'[c]) : queue'[c][i] = queue[c][i]
  <2>1. queue'[c] = IF c \in C THEN SubSeq(queue[c], 1, received[c]) ELSE queue[c]
    BY DEF Cut
  <2> QED BY <1>1, <2>1, Prefix
<1>3. queue' = [c \in Clients |-> queue'[c]]
  BY DEF Cut
<1>4. queue' \in [Clients -> Seq(Daemons \X Nat)]
  BY <1>2, <1>3
<1>5. joined' \in [Clients -> Daemons \cup {NULL}]
  BY DEF Cut, TypeOK
<1> QED BY <1>2, <1>4, <1>5 DEF Shortened

(* Publishing keeps the types, and numbers the event after all others.     *)
LEMMA PublishKeeps ==
  ASSUME TypeOK, HeardRight, RouteOK, NEW d \in Daemons, Publish(d), port' = port
  PROVE  /\ published' \in [Daemons -> Nat]
         /\ queue' \in [Clients -> Seq(Daemons \X Nat)]
         /\ \A c \in Clients : /\ Len(queue[c]) <= Len(queue'[c])
                               /\ Len(queue'[c]) <= printed[c] + HWM
         /\ HeardRight'
<1> DEFINE e == <<d, published[d] + 1>>
<1>1. published' \in [Daemons -> Nat] /\ published'[d] = published[d] + 1
      /\ \A x \in Daemons : published[x] <= published'[x]
  BY DEF Publish, TypeOK
<1>2. ASSUME NEW c \in Clients
      PROVE  /\ queue'[c] \in Seq(Daemons \X Nat) /\ Len(queue[c]) <= Len(queue'[c])
             /\ Len(queue'[c]) <= printed[c] + HWM
             /\ \/ queue'[c] = queue[c]
                \/ /\ joined[c] = d /\ Len(queue'[c]) = Len(queue[c]) + 1
                   /\ queue'[c][Len(queue[c]) + 1] = e
                   /\ \A i \in 1..Len(queue[c]) : queue'[c][i] = queue[c][i]
  <2>1. queue[c] \in Seq(Daemons \X Nat) /\ e \in Daemons \X Nat
    BY DEF TypeOK
  <2>2. \/ queue'[c] = queue[c]
        \/ /\ joined[c] = d /\ queue'[c] = Append(queue[c], e)
           /\ Len(queue[c]) - printed[c] < HWM
    BY DEF Publish, Spread
  <2>5. /\ Len(queue[c]) \in Nat /\ printed[c] \in Nat /\ HWM \in Nat
        /\ Len(queue[c]) <= printed[c] + HWM
    BY EventsAssumption, LenProperties DEF TypeOK
  <2> HIDE DEF e
  <2>3. CASE queue'[c] = queue[c]
    BY <2>1, <2>3, <2>5
  <2>4. CASE joined[c] = d /\ queue'[c] = Append(queue[c], e) /\ Len(queue[c]) - printed[c] < HWM
    BY <2>1, <2>4, <2>5
  <2> QED BY <2>2, <2>3, <2>4
<1>3. queue' \in [Clients -> Seq(Daemons \X Nat)]
  <2>1. queue' = [c \in Clients |-> queue'[c]]
    BY DEF Publish, Spread, TypeOK
  <2> QED BY <1>2, <2>1
<1>4. ASSUME NEW c \in Clients, NEW i \in DOMAIN queue'[c]
      PROVE  /\ port[queue'[c][i][1]] = port[c]
             /\ queue'[c][i][2] \in 1..published'[queue'[c][i][1]]
             /\ \A j \in 1..i - 1 :
                  queue'[c][j][1] = queue'[c][i][1] => queue'[c][j][2] < queue'[c][i][2]
  <2>1. queue[c] \in Seq(Daemons \X Nat) /\ DOMAIN queue[c] = 1..Len(queue[c])
        /\ DOMAIN queue'[c] = 1..Len(queue'[c])
        /\ Len(queue[c]) \in Nat /\ Len(queue'[c]) \in Nat /\ i \in 1..Len(queue'[c])
    <3>1. queue[c] \in Seq(Daemons \X Nat) /\ queue'[c] \in Seq(Daemons \X Nat)
      BY <1>2 DEF TypeOK
    <3> QED BY <3>1, LenProperties
  <2>2. \A k \in 1..Len(queue[c]) :
          /\ queue[c][k][1] \in Daemons /\ queue[c][k][2] \in Nat
          /\ port[queue[c][k][1]] = port[c]
          /\ queue[c][k][2] \in 1..published[queue[c][k][1]]
          /\ \A j \in 1..k - 1 :
               queue[c][j][1] = queue[c][k][1] => queue[c][j][2] < queue[c][k][2]
    <3>1. \A k \in 1..Len(queue[c]) : queue[c][k] \in Daemons \X Nat
      BY <2>1, ElementOfSeq
    <3> QED BY <2>1, <3>1 DEF HeardRight
  <2>6. \A k \in 1..Len(queue[c]) :
          queue[c][k][2] \in 1..published'[queue[c][k][1]]
    <3> SUFFICES ASSUME NEW k \in 1..Len(queue[c])
                 PROVE  queue[c][k][2] \in 1..published'[queue[c][k][1]]
      OBVIOUS
    <3>1. queue[c][k][1] \in Daemons /\ queue[c][k][2] \in 1..published[queue[c][k][1]]
      BY <2>2
    <3>2. published[queue[c][k][1]] \in Nat /\ published'[queue[c][k][1]] \in Nat
          /\ published[queue[c][k][1]] <= published'[queue[c][k][1]]
      BY <1>1, <3>1 DEF TypeOK
    <3> QED BY <3>1, <3>2
  <2>3. CASE queue'[c] = queue[c]
    BY <2>1, <2>2, <2>3, <2>6
  <2>4. CASE queue'[c] # queue[c] /\ i <= Len(queue[c])
    <3>0. \A k \in 1..Len(queue[c]) : queue'[c][k] = queue[c][k]
      BY <1>2, <2>4
    <3>1. queue'[c][i] = queue[c][i] /\ \A j \in 1..i - 1 : queue'[c][j] = queue[c][j]
      BY <2>1, <2>4, <3>0
    <3>2. i \in 1..Len(queue[c])
      BY <2>1, <2>4
    <3> QED BY <2>2, <2>6, <3>1, <3>2
  <2>5. CASE queue'[c] # queue[c] /\ i > Len(queue[c])
    <3>1. joined[c] = d /\ i = Len(queue[c]) + 1 /\ queue'[c][i] = e
          /\ \A j \in 1..i - 1 : queue'[c][j] = queue[c][j]
      BY <1>2, <2>1, <2>5
    <3>2. port[d] = port[c]
      BY <3>1, EventsAssumption DEF RouteOK
    <3>3. \A j \in 1..i - 1 : queue[c][j][1] = d => queue[c][j][2] < published[d] + 1
      <4> SUFFICES ASSUME NEW j \in 1..i - 1, queue[c][j][1] = d
                   PROVE  queue[c][j][2] < published[d] + 1
        OBVIOUS
      <4>1. j \in 1..Len(queue[c])
        BY <2>1, <3>1
      <4>2. queue[c][j][2] \in 1..published[d]
        BY <2>2, <4>1
      <4>3. published[d] \in Nat
        BY DEF TypeOK
      <4> QED BY <4>2, <4>3
    <3>4. published[d] \in Nat /\ published[d] + 1 \in 1..published'[d]
      BY <1>1 DEF TypeOK
    <3>5. e[1] = d /\ e[2] = published[d] + 1
      OBVIOUS
    <3> HIDE DEF e
    <3> QED BY <3>1, <3>2, <3>3, <3>4, <3>5
  <2> QED BY <2>1, <2>3, <2>4, <2>5
<1>5. HeardRight'
  BY <1>4 DEF HeardRight
<1> QED BY <1>1, <1>2, <1>3, <1>5

(* Shorter queues are still right. *)
LEMMA ShortenedRight ==
  ASSUME TypeOK, HeardRight, Shortened, UNCHANGED <<port, published>>
  PROVE  HeardRight'
<1> SUFFICES ASSUME NEW c \in Clients, NEW i \in DOMAIN queue'[c]
             PROVE  /\ port[queue'[c][i][1]] = port[c]
                    /\ queue'[c][i][2] \in 1..published[queue'[c][i][1]]
                    /\ \A j \in 1..i - 1 :
                         queue'[c][j][1] = queue'[c][i][1] => queue'[c][j][2] < queue'[c][i][2]
  BY DEF HeardRight
<1>1. queue[c] \in Seq(Daemons \X Nat) /\ queue'[c] \in Seq(Daemons \X Nat)
  BY DEF TypeOK, Shortened
<1>2. i \in 1..Len(queue'[c]) /\ i \in 1..Len(queue[c]) /\ i \in DOMAIN queue[c]
  BY <1>1 DEF Shortened
<1>3. queue'[c][i] = queue[c][i] /\ \A j \in 1..i - 1 : queue'[c][j] = queue[c][j]
  BY <1>2 DEF Shortened
<1> QED BY <1>2, <1>3 DEF HeardRight

-----------------------------------------------------------------------------
(* The types, in two parts: the programs, and the messages between them.   *)
ControlType ==
  /\ pc \in [Daemons -> {"off", "plugins", "loop", "recv", "handle", "free",
                         "close", "term", "exited"}]
  /\ pub \in [Daemons -> {"none", "bound", "closed"}]
  /\ rep \in [Daemons -> {"none", "bound", "leaked", "closed"}]
  /\ quit \in [Daemons -> BOOLEAN]
  /\ step \in [Clients -> {"off", "asking", "queued", "taken", "answered",
                           "lost", "listening", "ended"}]
  /\ at \in [Clients -> Daemons \cup {NULL}]

MessagesType ==
  /\ port \in [Daemons \cup Clients -> Nat]
  /\ posted \in [Daemons -> Seq(Kinds)] /\ seen \in [Daemons -> Nat]
  /\ published \in [Daemons -> Nat]
  /\ joined \in [Clients -> Daemons \cup {NULL}]
  /\ queue \in [Clients -> Seq(Daemons \X Nat)]
  /\ received \in [Clients -> Nat] /\ printed \in [Clients -> Nat]
  /\ \A d \in Daemons : seen[d] <= Len(posted[d])
  /\ \A c \in Clients : /\ printed[c] <= received[c] /\ received[c] <= Len(queue[c])
                        /\ Len(queue[c]) <= printed[c] + HWM

LEMMA Types == (TypeOK <=> ControlType /\ MessagesType)
               /\ (TypeOK' <=> ControlType' /\ MessagesType')
BY DEF TypeOK, ControlType, MessagesType

(* Every step keeps the types of the programs' state.                      *)
LEMMA NextControl == ControlType /\ [Next]_vars => ControlType'
<1> SUFFICES ASSUME ControlType, [Next]_vars PROVE ControlType'
  OBVIOUS
<1> USE DEF ControlType, daemonVars, clientVars
<1>1. CASE \E d \in Daemons : StartPub(d) \/ StartRep(d)
  BY <1>1 DEF StartPub, StartRep, NoPub
<1>2. CASE \E d \in Daemons : Dispatch(d) \/ \E m \in Kinds : Post(d, m)
  BY <1>2 DEF Dispatch, Post
<1>3. CASE \E d \in Daemons : Tick(d) \/ Signal(d) \/ DrainEnd(d) \/ ClosePub(d)
  BY <1>3 DEF Tick, Signal, DrainEnd, ClosePub
<1>4. CASE \E d \in Daemons : \E c \in Clients : Take(d, c) \/ Handle(d, c)
  BY <1>4 DEF Take, Handle, Answered
<1>5. CASE \E d \in Daemons : CloseRep(d) \/ Exit(d)
  BY <1>5 DEF CloseRep, Exit, Lost
<1>6. CASE \E d \in Daemons : LingerLapses(d) \/ ExitInterrupted(d) \/ Abort(d)
  BY <1>6 DEF LingerLapses, ExitInterrupted, Abort, Lost
<1>7. CASE \E c \in Clients : \E d \in Daemons : Reach(c, d) \/ Misdirected(c, d) \/ Join(c, d)
  BY <1>7 DEF Reach, Misdirected, Join
<1>8. CASE \E c \in Clients : Ask(c) \/ Answer(c) \/ Deliver(c) \/ Hear(c) \/ Leave(c)
  BY <1>8 DEF Ask, Answer, Deliver, Hear, Leave
<1>9. CASE UNCHANGED vars
  BY <1>9 DEF vars
<1> QED BY <1>1, <1>2, <1>3, <1>4, <1>5, <1>6, <1>7, <1>8, <1>9
       DEF Next, Main, Library

(* Every step keeps the types of the messages.                             *)
LEMMA NextMessages == TypeOK /\ HeardRight /\ RouteOK /\ [Next]_vars => MessagesType'
<1> SUFFICES ASSUME TypeOK, HeardRight, RouteOK, [Next]_vars PROVE MessagesType'
  OBVIOUS
<1>t. MessagesType
  BY Types
<1> USE DEF options, daemonVars, clientVars
<1>1. CASE UNCHANGED <<port, posted, seen, published, joined, queue, received, printed>>
  BY <1>t, <1>1 DEF MessagesType
<1>2. ASSUME NEW d \in Daemons, Publish(d), UNCHANGED <<port, posted, joined, received, printed>>,
             seen' \in [Daemons -> Nat], \A x \in Daemons : seen'[x] <= Len(posted[x])
      PROVE  MessagesType'
  <2>1. /\ published' \in [Daemons -> Nat]
        /\ queue' \in [Clients -> Seq(Daemons \X Nat)]
        /\ \A c \in Clients : /\ Len(queue[c]) <= Len(queue'[c])
                              /\ Len(queue'[c]) <= printed[c] + HWM
    BY <1>2, PublishKeeps
  <2>2. \A c \in Clients : received[c] <= Len(queue'[c])
    BY <1>t, <2>1, LenProperties DEF MessagesType
  <2> QED BY <1>t, <1>2, <2>1, <2>2 DEF MessagesType
<1>3. ASSUME NEW d \in Daemons, Dispatch(d) PROVE MessagesType'
  <2>1. seen' \in [Daemons -> Nat] /\ \A x \in Daemons : seen'[x] <= Len(posted[x])
    BY <1>t, <1>3 DEF MessagesType, Dispatch
  <2>2. CASE Silent
    BY <1>t, <1>3, <2>1, <2>2 DEF MessagesType, Dispatch, Silent
  <2> QED BY <1>2, <1>3, <2>1, <2>2 DEF Dispatch
<1>4. ASSUME NEW d \in Daemons, NEW c \in Clients, Handle(d, c) PROVE MessagesType'
  <2>1. CASE Silent
    BY <1>1, <1>4, <2>1 DEF Handle, Silent
  <2>2. seen' \in [Daemons -> Nat] /\ \A x \in Daemons : seen'[x] <= Len(posted[x])
    BY <1>t, <1>4 DEF MessagesType, Handle
  <2> QED BY <1>2, <1>4, <2>1, <2>2 DEF Handle
<1>5. ASSUME NEW d \in Daemons, NEW m \in Kinds, Post(d, m) PROVE MessagesType'
  <2>1. posted[d] \in Seq(Kinds) /\ Append(posted[d], m) \in Seq(Kinds)
        /\ Len(Append(posted[d], m)) = Len(posted[d]) + 1 /\ Len(posted[d]) \in Nat
    BY <1>t DEF MessagesType
  <2>2. posted' \in [Daemons -> Seq(Kinds)]
    BY <1>t, <1>5, <2>1 DEF MessagesType, Post
  <2>3. \A x \in Daemons : seen'[x] <= Len(posted'[x])
    BY <1>t, <1>5, <2>1 DEF MessagesType, Post
  <2> QED BY <1>t, <1>5, <2>2, <2>3 DEF MessagesType, Post
<1>6. ASSUME NEW C, Cut(C), UNCHANGED <<port, posted, seen, published, received, printed>>
      PROVE  MessagesType'
  <2>1. /\ queue' \in [Clients -> Seq(Daemons \X Nat)]
        /\ joined' \in [Clients -> Daemons \cup {NULL}]
        /\ \A c \in Clients : received[c] <= Len(queue'[c]) /\ Len(queue'[c]) <= Len(queue[c])
    BY <1>6, CutShortens DEF Shortened
  <2>2. \A c \in Clients : Len(queue'[c]) <= printed[c] + HWM
    BY <1>t, <2>1, EventsAssumption, LenProperties DEF MessagesType
  <2> QED BY <1>t, <1>6, <2>1, <2>2 DEF MessagesType
<1>7. ASSUME NEW d \in Daemons,
             LingerLapses(d) \/ ExitInterrupted(d) \/ Abort(d) \/ Exit(d)
      PROVE  MessagesType'
  <2>1. CASE Exit(d)
    BY <1>t, <2>1 DEF MessagesType, Exit
  <2>2. CASE UNCHANGED <<joined, queue>>
    BY <1>1, <1>7, <2>1, <2>2 DEF LingerLapses, ExitInterrupted, Abort
  <2> QED BY <1>6, <1>7, <2>1, <2>2 DEF LingerLapses, ExitInterrupted, Abort
<1>8. ASSUME NEW c \in Clients, NEW d \in Daemons, Join(c, d) PROVE MessagesType'
  BY <1>t, <1>8 DEF MessagesType, Join
<1>9. ASSUME NEW k \in Clients, Deliver(k) \/ Hear(k) \/ Leave(k) PROVE MessagesType'
  <2>1. \A c \in Clients :
          /\ queue[c] \in Seq(Daemons \X Nat) /\ Len(queue[c]) \in Nat
          /\ received[c] \in 0..Len(queue[c]) /\ printed[c] \in 0..received[c]
          /\ HWM \in Nat /\ Len(queue[c]) <= printed[c] + HWM
    BY <1>t, EventsAssumption, LenProperties DEF MessagesType
  <2>2. received \in [Clients -> Nat] /\ printed \in [Clients -> Nat]
        /\ queue \in [Clients -> Seq(Daemons \X Nat)]
        /\ joined \in [Clients -> Daemons \cup {NULL}]
    BY <1>t DEF MessagesType
  <2>3. CASE Deliver(k)
    <3>1. received' = [received EXCEPT ![k] = received[k] + 1]
          /\ received[k] < Len(queue[k]) /\ UNCHANGED <<printed, queue, joined>>
      BY <2>3 DEF Deliver
    <3>2. received' \in [Clients -> Nat]
          /\ \A c \in Clients : printed[c] <= received'[c] /\ received'[c] <= Len(queue[c])
      BY <2>1, <2>2, <3>1
    <3> QED BY <1>t, <2>3, <3>1, <3>2 DEF MessagesType, Deliver
  <2>4. CASE Hear(k)
    <3>1. printed' = [printed EXCEPT ![k] = printed[k] + 1]
          /\ printed[k] < received[k] /\ UNCHANGED <<received, queue, joined>>
      BY <2>4 DEF Hear, HasEvent
    <3>2. printed' \in [Clients -> Nat]
          /\ \A c \in Clients : printed'[c] <= received[c] /\ Len(queue[c]) <= printed'[c] + HWM
      BY <2>1, <2>2, <3>1
    <3> QED BY <1>t, <2>4, <3>1, <3>2 DEF MessagesType, Hear
  <2>5. CASE Leave(k)
    <3>1. SubSeq(queue[k], 1, printed[k]) \in Seq(Daemons \X Nat)
          /\ Len(SubSeq(queue[k], 1, printed[k])) = printed[k]
      BY <2>1, Prefix
    <3>2. /\ queue' = [queue EXCEPT ![k] = SubSeq(queue[k], 1, printed[k])]
          /\ received' = [received EXCEPT ![k] = printed[k]]
          /\ joined' = [joined EXCEPT ![k] = NULL] /\ printed' = printed
      BY <2>5 DEF Leave
    <3>3. queue' \in [Clients -> Seq(Daemons \X Nat)] /\ received' \in [Clients -> Nat]
          /\ joined' \in [Clients -> Daemons \cup {NULL}]
      BY <2>1, <2>2, <3>1, <3>2
    <3>4. \A c \in Clients : /\ printed[c] <= received'[c] /\ received'[c] <= Len(queue'[c])
                             /\ Len(queue'[c]) <= printed[c] + HWM
      BY <2>1, <2>2, <3>1, <3>2
    <3> QED BY <1>t, <2>5, <3>2, <3>3, <3>4 DEF MessagesType, Leave
  <2> QED BY <1>9, <2>3, <2>4, <2>5
<1>10. CASE UNCHANGED vars
  BY <1>1, <1>10 DEF vars
<1> QED BY <1>1, <1>3, <1>4, <1>5, <1>7, <1>8, <1>9, <1>10
       DEF Next, Main, Library, StartPub, StartRep, Tick, Signal, Take, DrainEnd, ClosePub,
           CloseRep, Ask, Reach, Misdirected, Answer

(* A listener's events stay right.                                         *)
LEMMA NextHeard == IInv /\ [Next]_vars => HeardRight'
<1> SUFFICES ASSUME IInv, [Next]_vars PROVE HeardRight'
  OBVIOUS
<1>t. TypeOK /\ HeardRight /\ RouteOK
  BY DEF IInv
<1> USE DEF options, daemonVars, clientVars
<1>1. CASE \E d \in Daemons : Publish(d) /\ UNCHANGED port
  BY <1>t, <1>1, PublishKeeps
<1>2. CASE Shortened /\ UNCHANGED <<port, published>>
  BY <1>t, <1>2, ShortenedRight
<1>3. CASE UNCHANGED <<port, published, queue>>
  BY <1>t, <1>3 DEF HeardRight
<1>4. ASSUME NEW d \in Daemons,
             \/ Dispatch(d) \/ LingerLapses(d) \/ ExitInterrupted(d) \/ Abort(d)
             \/ \E c \in Clients : Handle(d, c)
      PROVE  HeardRight'
  <2>1. CASE Dispatch(d) \/ \E c \in Clients : Handle(d, c)
    BY <1>1, <1>3, <2>1 DEF Dispatch, Handle, Silent
  <2>2. CASE Cut(Unheard(d)) \/ Cut({c \in Clients : joined[c] = d})
    <3>1. Shortened
      BY <1>t, <2>2, CutShortens
    <3> QED BY <1>2, <1>3, <1>4, <2>1, <3>1 DEF LingerLapses, ExitInterrupted, Abort
  <2> QED BY <1>3, <1>4, <2>1, <2>2 DEF LingerLapses, ExitInterrupted, Abort
<1>5. ASSUME NEW k \in Clients, Leave(k) PROVE HeardRight'
  <2>1. queue[k] \in Seq(Daemons \X Nat) /\ printed[k] \in 0..Len(queue[k])
    BY <1>t, LenProperties DEF TypeOK
  <2>2. ASSUME NEW c \in Clients
        PROVE  /\ queue'[c] \in Seq(Daemons \X Nat) /\ Len(queue'[c]) <= Len(queue[c])
               /\ \A i \in 1..Len(queue'[c]) : queue'[c][i] = queue[c][i]
    <3>1. queue'[c] = IF c = k THEN SubSeq(queue[k], 1, printed[k]) ELSE queue[c]
      BY <1>t, <1>5 DEF Leave, TypeOK
    <3>2. queue[c] \in Seq(Daemons \X Nat) /\ Len(queue[c]) \in Nat
      BY <1>t, LenProperties DEF TypeOK
    <3> QED BY <2>1, <3>1, <3>2, Prefix
  <2>3. queue' \in [Clients -> Seq(Daemons \X Nat)]
    BY <1>t, <1>5, <2>2 DEF Leave, TypeOK
  <2> QED BY <1>2, <1>5, <2>2, <2>3 DEF Shortened, Leave
<1> QED BY <1>3, <1>4, <1>5 DEF Next, Main, Library, vars, StartPub, StartRep, Post, Tick,
       Signal, Take, DrainEnd, ClosePub, CloseRep, Exit, Ask, Reach, Misdirected, Answer,
       Join, Deliver, Hear

-----------------------------------------------------------------------------
(* Every step keeps requests and listeners with a daemon of their port.    *)
LEMMA NextRoute == ControlType /\ MessagesType /\ RouteOK /\ [Next]_vars => RouteOK'
<1> SUFFICES ASSUME ControlType, MessagesType, RouteOK, [Next]_vars PROVE RouteOK'
  OBVIOUS
<1> USE EventsAssumption DEF ControlType, RouteOK, options, clientVars
<1>1. port' = port /\ port \in [Daemons \cup Clients -> Nat]
      /\ joined \in [Clients -> Daemons \cup {NULL}]
  BY DEF MessagesType, Next, Main, Library, vars, StartPub, StartRep, Dispatch, Post, Tick,
         Signal, Take, DrainEnd, Handle, ClosePub, CloseRep, Exit, LingerLapses,
         ExitInterrupted, Abort, Ask, Reach, Misdirected, Answer, Join, Deliver, Hear, Leave
<1>2. CASE UNCHANGED <<step, at, joined>>
  BY <1>1, <1>2
<1>3. ASSUME NEW d \in Daemons, NEW c \in Clients, Take(d, c) \/ Handle(d, c)
      PROVE  RouteOK'
  BY <1>1, <1>3 DEF Take, Handle, Answered
<1>4. ASSUME NEW d \in Daemons,
             CloseRep(d) \/ Exit(d) \/ LingerLapses(d) \/ ExitInterrupted(d) \/ Abort(d)
      PROVE  RouteOK'
  BY <1>1, <1>4 DEF CloseRep, Exit, LingerLapses, ExitInterrupted, Abort, Lost, Cut
<1>5. ASSUME NEW c \in Clients, NEW d \in Daemons, Reach(c, d) PROVE RouteOK'
  <2>1. port[d] = port[c]
    BY <1>1, <1>5 DEF Reach, ServerPort
  <2> QED BY <1>1, <1>5, <2>1 DEF Reach
<1>6. ASSUME NEW c \in Clients, NEW d \in Daemons, Join(c, d) PROVE RouteOK'
  <2>1. at[c] \in Daemons /\ port[at[c]] = port[c]
    BY <1>6 DEF Join
  <2>2. port[d] \in Nat /\ port[at[c]] \in Nat /\ port[d] + 10001 = port[at[c]] + 10001
    BY <1>1, <1>6, <2>1 DEF Join, Address, EventPort
  <2>3. port[d] = port[c]
    BY <2>1, <2>2
  <2>4. joined' = [joined EXCEPT ![c] = d] /\ UNCHANGED <<step, at>>
    BY <1>6 DEF Join
  <2> QED BY <1>1, <2>3, <2>4
<1>7. ASSUME NEW c \in Clients, NEW d \in Daemons, Misdirected(c, d) PROVE RouteOK'
  BY <1>1, <1>7 DEF Misdirected
<1>8. ASSUME NEW c \in Clients, Ask(c) \/ Answer(c) \/ Leave(c) PROVE RouteOK'
  BY <1>1, <1>8 DEF Ask, Answer, Leave
<1> QED BY <1>2, <1>3, <1>4, <1>5, <1>6, <1>7, <1>8
       DEF Next, Main, Library, vars, StartPub, StartRep, Dispatch, Post, Tick, Signal,
           DrainEnd, ClosePub, Deliver, Hear

(* Every step keeps the sockets in step with the program; two daemons have *)
(* a PUB socket only on two ports.                                         *)
LEMMA NextSocket == ControlType /\ MessagesType /\ SocketOK /\ [Next]_vars => SocketOK'
<1> SUFFICES ASSUME ControlType, MessagesType, SocketOK, [Next]_vars PROVE SocketOK'
  OBVIOUS
<1>1. port' = port /\ port \in [Daemons \cup Clients -> Nat]
  BY DEF MessagesType, Next, Main, Library, vars, options, StartPub, StartRep, Dispatch, Post,
         Tick, Signal, Take, DrainEnd, Handle, ClosePub, CloseRep, Exit, LingerLapses,
         ExitInterrupted, Abort, Ask, Reach, Misdirected, Answer, Join, Deliver, Hear, Leave
<1> USE DEF ControlType, SocketOK, daemonVars
<1>2. CASE UNCHANGED <<pc, pub, rep>>
  BY <1>1, <1>2
<1>3. ASSUME NEW d \in Daemons, StartPub(d) PROVE SocketOK'
  <2>1. PICK free \in {~InUse(EventPort(port[d]))} :
          /\ pub' = [pub EXCEPT ![d] = IF free THEN "bound" ELSE "closed"]
          /\ pc' = [pc EXCEPT ![d] = IF free THEN "plugins" ELSE "exited"]
    BY <1>3 DEF StartPub, NoPub
  <2>2. rep' = rep /\ pc[d] = "off" /\ rep[d] # "bound"
    BY <1>3 DEF StartPub
  <2>3. free => \A e \in Daemons : pub[e] = "bound" => port[e] # port[d]
    BY <2>1 DEF InUse
  <2>4. rep[d] = "none"
    BY <2>2
  <2> QED BY <1>1, <2>1, <2>2, <2>3, <2>4
<1>4. ASSUME NEW d \in Daemons, StartRep(d) PROVE SocketOK'
  BY <1>1, <1>4 DEF StartRep
<1>5. ASSUME NEW d \in Daemons, Tick(d) \/ DrainEnd(d) \/ \E c \in Clients : Take(d, c) \/ Handle(d, c)
      PROVE  SocketOK'
  BY <1>1, <1>5 DEF Tick, DrainEnd, Take, Handle
<1>6. ASSUME NEW d \in Daemons, ClosePub(d) \/ CloseRep(d) \/ Exit(d) \/ ExitInterrupted(d)
      PROVE  SocketOK'
  BY <1>1, <1>6 DEF ClosePub, CloseRep, Exit, ExitInterrupted
<1>7. ASSUME NEW d \in Daemons, Abort(d) PROVE SocketOK'
  BY <1>1, <1>7 DEF Abort
<1> QED BY <1>2, <1>3, <1>4, <1>5, <1>6, <1>7
       DEF Next, Main, Library, vars, Dispatch, Post, Signal, LingerLapses, Ask, Reach,
           Misdirected, Answer, Join, Deliver, Hear, Leave

(* A start without a REP socket is one of the two collisions.              *)
LEMMA NextDeaf ==
  IInv /\ [Next]_vars =>
    \A d \in Daemons : rep[d] # "leaked" /\ rep'[d] = "leaked" =>
      \E e \in Daemons \ {d} :
        \/ port[e] + 1 = port[d] /\ pub[e] = "bound"
        \/ port[e] = port[d] /\ pc[e] = "close"
<1> SUFFICES ASSUME IInv, [Next]_vars, NEW d \in Daemons,
                    rep[d] # "leaked", rep'[d] = "leaked"
             PROVE  \E e \in Daemons \ {d} :
                      \/ port[e] + 1 = port[d] /\ pub[e] = "bound"
                      \/ port[e] = port[d] /\ pc[e] = "close"
  OBVIOUS
<1>1. ControlType /\ MessagesType /\ SocketOK
  BY Types DEF IInv
<1>2. StartRep(d)
  <2> USE <1>1 DEF ControlType, daemonVars
  <2>1. CASE \E e \in Daemons : StartRep(e)
    BY <2>1 DEF StartRep
  <2>2. CASE \E e \in Daemons : CloseRep(e) \/ Abort(e)
    BY <2>2 DEF CloseRep, Abort
  <2>3. CASE rep' = rep
    BY <2>3
  <2> QED BY <2>1, <2>2, <2>3
         DEF Next, Main, Library, vars, StartPub, Dispatch, Post, Tick, Signal, Take, DrainEnd,
             Handle, ClosePub, Exit, LingerLapses, ExitInterrupted, Ask, Reach, Misdirected,
             Answer, Join, Deliver, Hear, Leave
<1>3. pc[d] = "plugins" /\ rep[d] = "none" /\ pub[d] = "bound" /\ InUse(ServerPort(port[d]))
  BY <1>1, <1>2 DEF ControlType, StartRep, SocketOK
<1>4. PICK e \in Daemons :
        \/ pub[e] = "bound" /\ port[d] + 10000 = port[e] + 10001
        \/ rep[e] = "bound" /\ port[d] + 10000 = port[e] + 10000
  BY <1>3 DEF InUse, ServerPort, EventPort
<1>5. port[d] \in Nat /\ port[e] \in Nat
  BY <1>1 DEF MessagesType
<1>6. CASE pub[e] = "bound" /\ port[d] + 10000 = port[e] + 10001
  BY <1>5, <1>6
<1>7. CASE rep[e] = "bound" /\ port[d] + 10000 = port[e] + 10000
  <2>1. e # d /\ port[e] = port[d]
    BY <1>3, <1>5, <1>7
  <2>2. pub[e] # "bound"
    BY <1>1, <1>3, <2>1 DEF SocketOK
  <2>3. pc[e] = "close"
    BY <1>1, <1>7, <2>2 DEF SocketOK
  <2> QED BY <2>1, <2>3
<1> QED BY <1>4, <1>6, <1>7

-----------------------------------------------------------------------------
(* The invariant holds always.                                             *)
THEOREM EventsInvariant == Spec => []IInv
<1>1. IInv /\ [Next]_vars => IInv'
  BY Types, NextControl, NextMessages, NextHeard, NextRoute, NextSocket DEF IInv
<1> QED BY InitIInv, <1>1, PTL DEF Spec

(* Whatever programs are started on whatever ports, and whenever they end, *)
(* a listener prints the events of its own port, each once and in order    *)
(* (pubsub.c:34-37, gst_playd.c:204-243).                                  *)
THEOREM HeardRightHolds == Spec => []HeardRight
<1>1. IInv => HeardRight
  BY DEF IInv
<1> QED BY <1>1, EventsInvariant, PTL

(* Whatever else runs on the host, a daemon is deaf only because of one on *)
(* the port below, or of its predecessor between closing PUB and REP       *)
(* (gst_playd.c:298-312, 334-338).                                         *)
THEOREM DeafExplainedHolds == Spec => DeafExplained
<1>1. IInv /\ [Next]_vars =>
        [\A d \in Daemons : rep[d] # "leaked" /\ rep'[d] = "leaked" =>
           \E e \in Daemons \ {d} :
             \/ port[e] + 1 = port[d] /\ pub[e] = "bound"
             \/ port[e] = port[d] /\ pc[e] = "close"]_vars
  BY NextDeaf
<1> QED BY <1>1, EventsInvariant, PTL DEF Spec, DeafExplained

-----------------------------------------------------------------------------
(* The daemons as listeners see them.  What is between two places of a     *)
(* sequence is a sequence.                                                 *)
LEMMA Rest ==
  ASSUME NEW S, NEW q \in Seq(S), NEW p \in 0..Len(q), NEW n \in p..Len(q)
  PROVE  /\ SubSeq(q, p + 1, n) \in Seq(S) /\ Len(SubSeq(q, p + 1, n)) = n - p
         /\ \A i \in 1..n - p : SubSeq(q, p + 1, n)[i] = q[p + i]
<1>1. Len(q) \in Nat
  BY LenProperties
<1>2. \A i \in p + 1..n : q[i] \in S
  BY <1>1, ElementOfSeq
<1> QED BY <1>1, <1>2, SubSeqProperties

(* What becomes of the events a listener has heard and of those it has     *)
(* still to hear when one is added, ...                                    *)
LEMMA AddToRest ==
  ASSUME NEW S, NEW q \in Seq(S), NEW p \in 0..Len(q), NEW e \in S
  PROVE  /\ SubSeq(Append(q, e), p + 1, Len(Append(q, e)))
              = Append(SubSeq(q, p + 1, Len(q)), e)
         /\ SubSeq(Append(q, e), 1, p) = SubSeq(q, 1, p)
<1> DEFINE r == Append(q, e)
           s == SubSeq(r, p + 1, Len(r))
           t == Append(SubSeq(q, p + 1, Len(q)), e)
<1>1. /\ Len(q) \in Nat /\ r \in Seq(S) /\ Len(r) = Len(q) + 1
      /\ r[Len(q) + 1] = e /\ \A i \in 1..Len(q) : r[i] = q[i]
  BY LenProperties, AppendProperties
<1> HIDE DEF r
<1>2. p \in 0..Len(r) /\ Len(r) \in p..Len(r) /\ Len(q) \in p..Len(q)
  BY <1>1
<1>3. /\ s \in Seq(S) /\ Len(s) = Len(r) - p
      /\ \A i \in 1..Len(r) - p : s[i] = r[p + i]
  BY <1>1, <1>2, Rest
<1>4. /\ SubSeq(q, p + 1, Len(q)) \in Seq(S)
      /\ Len(SubSeq(q, p + 1, Len(q))) = Len(q) - p
      /\ \A i \in 1..Len(q) - p : SubSeq(q, p + 1, Len(q))[i] = q[p + i]
  BY <1>2, Rest
<1>5. /\ t \in Seq(S) /\ Len(t) = (Len(q) - p) + 1 /\ t[(Len(q) - p) + 1] = e
      /\ \A i \in 1..Len(q) - p : t[i] = q[p + i]
  BY <1>4, AppendProperties
<1> HIDE DEF s, t
<1>6. ASSUME NEW i \in 1..Len(s) PROVE s[i] = t[i]
  <2>1. s[i] = r[p + i] /\ i \in 1..(Len(q) - p) + 1
    BY <1>1, <1>3
  <2>2. CASE i = (Len(q) - p) + 1
    <3>1. p + i = Len(q) + 1
      BY <1>1, <2>2
    <3> QED BY <1>1, <1>5, <2>1, <2>2, <3>1
  <2>3. CASE i \in 1..Len(q) - p
    <3>1. p + i \in 1..Len(q)
      BY <1>1, <2>3
    <3> QED BY <1>1, <1>5, <2>1, <2>3, <3>1
  <2> QED BY <1>1, <2>1, <2>2, <2>3
<1>7. Len(s) = Len(t)
  BY <1>1, <1>3, <1>5
<1>8. s = t
  BY <1>3, <1>5, <1>6, <1>7, SeqEqual
<1>9. SubSeq(r, 1, p) = SubSeq(q, 1, p)
  <2>1. \A i \in 1..p : q[i] \in S /\ r[i] = q[i]
    BY <1>1, ElementOfSeq
  <2>2. /\ SubSeq(q, 1, p) \in Seq(S) /\ SubSeq(r, 1, p) \in Seq(S)
        /\ Len(SubSeq(q, 1, p)) = p /\ Len(SubSeq(r, 1, p)) = p
        /\ \A i \in 1..p : SubSeq(q, 1, p)[i] = q[i] /\ SubSeq(r, 1, p)[i] = r[i]
    BY <1>1, <2>1, SubSeqProperties
  <2> QED BY <2>1, <2>2, SeqEqual
<1> QED BY <1>8, <1>9 DEF r, s, t

(* ... when the first of the rest is heard, ...                            *)
LEMMA HearOfRest ==
  ASSUME NEW S, NEW q \in Seq(S), NEW p \in Nat, p < Len(q)
  PROVE  LET rest == SubSeq(q, p + 1, Len(q))
         IN  /\ rest # <<>> /\ Tail(rest) = SubSeq(q, (p + 1) + 1, Len(q))
             /\ SubSeq(q, 1, p + 1) = Append(SubSeq(q, 1, p), Head(rest))
<1> DEFINE rest == SubSeq(q, p + 1, Len(q))
<1>1. Len(q) \in Nat /\ p \in 0..Len(q) /\ Len(q) \in p..Len(q)
      /\ p + 1 \in 1..Len(q) /\ Len(q) \in p + 1..Len(q)
  BY LenProperties
<1>2. rest \in Seq(S) /\ Len(rest) = Len(q) - p
  BY <1>1, Rest
<1>3. rest # <<>>
  <2> HIDE DEF rest
  <2>1. Len(rest) # 0
    BY <1>1, <1>2
  <2> QED BY <2>1, EmptySeq
<1>4. Head(rest) = q[p + 1] /\ Tail(rest) = SubSeq(q, (p + 1) + 1, Len(q))
  BY <1>1, HeadTailOfSubSeq
<1>5. SubSeq(q, 1, p + 1) = Append(SubSeq(q, 1, p), q[p + 1])
  <2>1. 1 \in 1..Len(q) /\ p + 1 \in 1..Len(q) /\ (p + 1) - 1 = p
    BY <1>1
  <2>2. SubSeq(q, 1, p + 1) = SubSeq(q, 1, p) \o <<q[p + 1]>>
    BY <2>1, SubSeqRecursiveSecond
  <2>3. SubSeq(q, 1, p) \in Seq(S)
    BY <1>1, ElementOfSeq, SubSeqProperties
  <2>4. q[p + 1] \in S
    BY <1>1, ElementOfSeq
  <2> QED BY <2>2, <2>3, <2>4, AppendIsConcat
<1> QED BY <1>3, <1>4, <1>5

(* ... and when all behind the first n events are lost.                    *)
LEMMA CutOfRest ==
  ASSUME NEW S, NEW q \in Seq(S), NEW n \in 0..Len(q), NEW p \in 0..n
  PROVE  LET cut == SubSeq(q, 1, n)
         IN  /\ SubSeq(cut, p + 1, Len(cut)) = SubSeq(SubSeq(q, p + 1, Len(q)), 1, n - p)
             /\ SubSeq(cut, 1, p) = SubSeq(q, 1, p)
<1> DEFINE cut == SubSeq(q, 1, n)
           rest == SubSeq(q, p + 1, Len(q))
           s == SubSeq(cut, p + 1, n)
           t == SubSeq(rest, 1, n - p)
<1>1. Len(q) \in Nat /\ p \in 0..Len(q) /\ Len(q) \in p..Len(q) /\ n \in Nat
  BY LenProperties
<1>2. cut \in Seq(S) /\ Len(cut) = n /\ \A i \in 1..n : cut[i] = q[i]
  <2>1. \A i \in 1..n : q[i] \in S
    BY <1>1, ElementOfSeq
  <2> QED BY <1>1, <2>1, SubSeqProperties
<1>3. /\ rest \in Seq(S) /\ Len(rest) = Len(q) - p
      /\ \A i \in 1..Len(q) - p : rest[i] = q[p + i]
  BY <1>1, Rest
<1> HIDE DEF cut, rest
<1>4. s \in Seq(S) /\ Len(s) = n - p /\ \A i \in 1..n - p : s[i] = cut[p + i]
  <2>1. p \in 0..Len(cut) /\ n \in p..Len(cut)
    BY <1>1, <1>2
  <2> QED BY <1>2, <2>1, Rest
<1>5. t \in Seq(S) /\ Len(t) = n - p /\ \A i \in 1..n - p : t[i] = rest[i]
  <2>1. n - p \in Nat /\ \A i \in 1..n - p : i \in 1..Len(rest)
    BY <1>1, <1>3
  <2>2. \A i \in 1..n - p : rest[i] \in S
    BY <1>3, <2>1, ElementOfSeq
  <2> QED BY <2>1, <2>2, SubSeqProperties
<1>6. ASSUME NEW i \in 1..n - p PROVE s[i] = t[i]
  <2>1. p + i \in 1..n /\ i \in 1..Len(q) - p
    BY <1>1
  <2> QED BY <1>2, <1>3, <1>4, <1>5, <2>1
<1>7. s = t
  <2> HIDE DEF s, t
  <2> QED BY <1>4, <1>5, <1>6, SeqEqual
<1>8. SubSeq(cut, 1, p) = SubSeq(q, 1, p)
  <2>1. \A i \in 1..p : q[i] \in S /\ cut[i] = q[i]
    BY <1>1, <1>2, ElementOfSeq
  <2>2. /\ SubSeq(q, 1, p) \in Seq(S) /\ SubSeq(cut, 1, p) \in Seq(S)
        /\ Len(SubSeq(q, 1, p)) = p /\ Len(SubSeq(cut, 1, p)) = p
        /\ \A i \in 1..p : SubSeq(q, 1, p)[i] = q[i] /\ SubSeq(cut, 1, p)[i] = cut[i]
    BY <1>1, <2>1, SubSeqProperties
  <2> QED BY <2>1, <2>2, SeqEqual
<1> QED BY <1>2, <1>7, <1>8 DEF cut, rest

(* A step that these do not touch is no step of theirs.                    *)
LEMMA Unseen ==
  ASSUME UNCHANGED <<port, published, joined, queue, printed>>
  PROVE  UNCHANGED Listeners!vars
BY DEF Listeners!vars, Due, Heard

(* What is known of a listener's events.                                   *)
LEMMA EventsOf ==
  ASSUME TypeOK, NEW c \in Clients
  PROVE  /\ queue[c] \in Seq(Daemons \X Nat) /\ Len(queue[c]) \in Nat
         /\ received[c] \in 0..Len(queue[c]) /\ printed[c] \in 0..received[c]
         /\ printed[c] \in Nat /\ printed[c] \in 0..Len(queue[c])
         /\ HWM \in Nat /\ Len(queue[c]) - printed[c] <= HWM
         /\ Len(Due[c]) = Len(queue[c]) - printed[c] /\ Due[c] \in Seq(Daemons \X Nat)
<1>1. /\ queue[c] \in Seq(Daemons \X Nat) /\ Len(queue[c]) \in Nat
      /\ received[c] \in 0..Len(queue[c]) /\ printed[c] \in 0..received[c]
      /\ HWM \in Nat /\ Len(queue[c]) <= printed[c] + HWM
  BY EventsAssumption, LenProperties DEF TypeOK
<1>2. printed[c] \in 0..Len(queue[c]) /\ Len(queue[c]) \in printed[c]..Len(queue[c])
  BY <1>1
<1>3. Due[c] = SubSeq(queue[c], printed[c] + 1, Len(queue[c]))
  BY DEF Due
<1>4. Len(Due[c]) = Len(queue[c]) - printed[c] /\ Due[c] \in Seq(Daemons \X Nat)
  BY <1>1, <1>2, <1>3, Rest
<1>5. printed[c] \in Nat /\ Len(queue[c]) - printed[c] <= HWM
  BY <1>1
<1> QED BY <1>1, <1>2, <1>4, <1>5

(* Nothing is published before the programs start.                         *)
LEMMA InitFeed == Init => Listeners!Init
<1> SUFFICES ASSUME Init PROVE Listeners!Init
  OBVIOUS
<1>1. \A c \in Clients : queue[c] = <<>> /\ printed[c] = 0
  BY DEF Init
<1>2. SubSeq(<<>>, 0 + 1, Len(<<>>)) = <<>> /\ SubSeq(<<>>, 1, 0) = <<>>
  BY EmptySeq, SubSeqEmpty
<1>3. Due = [c \in Clients |-> <<>>] /\ Heard = [c \in Clients |-> <<>>]
  BY <1>1, <1>2 DEF Due, Heard
<1> QED BY <1>3 DEF Init, Listeners!Init

(* A daemon that publishes feeds those who are subscribed to it and not    *)
(* too far behind.                                                         *)
LEMMA PublishFeeds ==
  ASSUME TypeOK, NEW d \in Daemons, Publish(d), Spread(d),
         UNCHANGED <<port, joined, printed>>
  PROVE  Listeners!Emit(d)
<1> DEFINE e == <<d, published[d] + 1>>
           To(c) == joined[c] = d /\ Len(queue[c]) - printed[c] < HWM
<1>1. ASSUME NEW c \in Clients
      PROVE  /\ Due'[c] = IF joined[c] = d /\ Len(Due[c]) < HWM
                          THEN Append(Due[c], e) ELSE Due[c]
             /\ Heard'[c] = Heard[c]
  <2>1. /\ Due[c] = SubSeq(queue[c], printed[c] + 1, Len(queue[c]))
        /\ Due'[c] = SubSeq(queue'[c], printed[c] + 1, Len(queue'[c]))
        /\ Heard[c] = SubSeq(queue[c], 1, printed[c])
        /\ Heard'[c] = SubSeq(queue'[c], 1, printed[c])
    BY DEF Due, Heard
  <2>2. queue'[c] = IF To(c) THEN Append(queue[c], e) ELSE queue[c]
    BY DEF Spread
  <2>3. e \in Daemons \X Nat
    BY DEF TypeOK
  <2>4. /\ queue[c] \in Seq(Daemons \X Nat) /\ printed[c] \in 0..Len(queue[c])
        /\ Len(Due[c]) = Len(queue[c]) - printed[c]
    BY EventsOf
  <2> HIDE DEF e
  <2>5. CASE To(c)
    <3>1. /\ SubSeq(Append(queue[c], e), printed[c] + 1, Len(Append(queue[c], e)))
               = Append(SubSeq(queue[c], printed[c] + 1, Len(queue[c])), e)
          /\ SubSeq(Append(queue[c], e), 1, printed[c]) = SubSeq(queue[c], 1, printed[c])
      BY <2>3, <2>4, AddToRest
    <3>2. Due'[c] = Append(Due[c], e) /\ Heard'[c] = Heard[c]
      BY <2>1, <2>2, <2>5, <3>1
    <3>3. joined[c] = d /\ Len(Due[c]) < HWM
      BY <2>4, <2>5
    <3> QED BY <3>2, <3>3
  <2>6. CASE ~To(c)
    BY <2>1, <2>2, <2>4, <2>6
  <2> QED BY <2>5, <2>6
<1>2. Due' = [c \in Clients |-> IF joined[c] = d /\ Len(Due[c]) < HWM
                                THEN Append(Due[c], e) ELSE Due[c]]
  <2>1. Due' = [c \in Clients |-> Due'[c]]
    BY DEF Due
  <2> QED BY <1>1, <2>1
<1>3. Heard' = Heard
  <2>1. Heard' = [c \in Clients |-> Heard'[c]] /\ Heard = [c \in Clients |-> Heard[c]]
    BY DEF Heard
  <2> QED BY <1>1, <2>1
<1> QED BY <1>2, <1>3 DEF Publish, Listeners!Emit

(* One whose send a signal interrupts feeds nobody.                        *)
LEMMA PublishWastes ==
  ASSUME NEW d \in Daemons, Publish(d), Disturbed(d),
         UNCHANGED <<port, joined, queue, printed>>
  PROVE  Listeners!Waste(d)
BY DEF Publish, Due, Heard, Listeners!Waste

(* Listeners that lose their daemon keep what has come to them.            *)
LEMMA CutLoses ==
  ASSUME TypeOK, NEW d \in Daemons, NEW C \in SUBSET Clients, Cut(C),
         \A c \in C : joined[c] = d, UNCHANGED <<port, published, printed>>
  PROVE  \E kept \in [C -> 0..HWM] : Listeners!Lose(d, C, kept)
<1> DEFINE kept == [c \in C |-> received[c] - printed[c]]
<1>1. ASSUME NEW c \in Clients
      PROVE  /\ received[c] - printed[c] \in 0..HWM
             /\ received[c] - printed[c] <= Len(Due[c])
             /\ Due'[c] = IF c \in C THEN SubSeq(Due[c], 1, received[c] - printed[c])
                          ELSE Due[c]
             /\ Heard'[c] = Heard[c]
  <2>1. /\ Due[c] = SubSeq(queue[c], printed[c] + 1, Len(queue[c]))
        /\ Due'[c] = SubSeq(queue'[c], printed[c] + 1, Len(queue'[c]))
        /\ Heard[c] = SubSeq(queue[c], 1, printed[c])
        /\ Heard'[c] = SubSeq(queue'[c], 1, printed[c])
    BY DEF Due, Heard
  <2>2. queue'[c] = IF c \in C THEN SubSeq(queue[c], 1, received[c]) ELSE queue[c]
    BY DEF Cut
  <2>3. /\ queue[c] \in Seq(Daemons \X Nat) /\ Len(queue[c]) \in Nat
        /\ received[c] \in 0..Len(queue[c]) /\ printed[c] \in 0..received[c]
        /\ HWM \in Nat /\ Len(queue[c]) - printed[c] <= HWM
        /\ Len(Due[c]) = Len(queue[c]) - printed[c]
    BY EventsOf
  <2>6. received[c] - printed[c] \in 0..HWM /\ received[c] - printed[c] <= Len(Due[c])
    BY <2>3
  <2>4. CASE c \in C
    <3> DEFINE cut == SubSeq(queue[c], 1, received[c])
    <3>1. /\ SubSeq(cut, printed[c] + 1, Len(cut))
               = SubSeq(SubSeq(queue[c], printed[c] + 1, Len(queue[c])), 1,
                        received[c] - printed[c])
          /\ SubSeq(cut, 1, printed[c]) = SubSeq(queue[c], 1, printed[c])
      BY <2>3, CutOfRest
    <3>2. /\ Due'[c] = SubSeq(Due[c], 1, received[c] - printed[c])
          /\ Heard'[c] = Heard[c]
      BY <2>1, <2>2, <2>4, <3>1
    <3> QED BY <2>4, <2>6, <3>2
  <2>5. CASE c \notin C
    <3>1. Due'[c] = Due[c] /\ Heard'[c] = Heard[c]
      BY <2>1, <2>2, <2>5
    <3> QED BY <2>5, <2>6, <3>1
  <2> QED BY <2>4, <2>5
<1>2. kept \in [C -> 0..HWM] /\ \A c \in C : kept[c] <= Len(Due[c])
  BY <1>1
<1>3. Due' = [c \in Clients |-> IF c \in C THEN SubSeq(Due[c], 1, kept[c]) ELSE Due[c]]
  <2>1. Due' = [c \in Clients |-> Due'[c]]
    BY DEF Due
  <2> QED BY <1>1, <2>1
<1>4. Heard' = Heard
  <2>1. Heard' = [c \in Clients |-> Heard'[c]] /\ Heard = [c \in Clients |-> Heard[c]]
    BY DEF Heard
  <2> QED BY <1>1, <2>1
<1> HIDE DEF kept
<1>5. Listeners!Lose(d, C, kept)
  BY <1>2, <1>3, <1>4 DEF Cut, Listeners!Lose
<1> QED BY <1>2, <1>5

(* The exit of a daemon ends connections on which nothing is left.         *)
LEMMA ExitLoses ==
  ASSUME TypeOK, NEW d \in Daemons, Exit(d)
  PROVE  \E C \in SUBSET Clients : \E kept \in [C -> 0..HWM] : Listeners!Lose(d, C, kept)
<1> DEFINE C == {c \in Clients : joined[c] = d}
           kept == [c \in C |-> Len(Due[c])]
<1>1. ASSUME NEW c \in Clients
      PROVE  Len(Due[c]) \in 0..HWM /\ SubSeq(Due[c], 1, Len(Due[c])) = Due[c]
  <2>1. /\ Len(queue[c]) \in Nat /\ printed[c] \in 0..Len(queue[c]) /\ HWM \in Nat
        /\ Len(queue[c]) - printed[c] <= HWM
        /\ Len(Due[c]) = Len(queue[c]) - printed[c] /\ Due[c] \in Seq(Daemons \X Nat)
    BY EventsOf
  <2> QED BY <2>1, SubSeqFull
<1>2. kept \in [C -> 0..HWM] /\ \A c \in C : kept[c] <= Len(Due[c])
  BY <1>1
<1>3. Due' = Due /\ Heard' = Heard
  BY DEF Exit, Due, Heard
<1>4. Due = [c \in Clients |-> IF c \in C THEN SubSeq(Due[c], 1, kept[c]) ELSE Due[c]]
  <2>1. Due = [c \in Clients |-> Due[c]]
    BY DEF Due
  <2> QED BY <1>1, <2>1
<1>5. joined' = [c \in Clients |-> IF c \in C THEN NULL ELSE joined[c]]
  BY DEF Exit
<1>6. UNCHANGED <<port, published>> /\ \A c \in C : joined[c] = d
  BY DEF Exit, options
<1> HIDE DEF kept
<1>7. Listeners!Lose(d, C, kept)
  BY <1>2, <1>3, <1>4, <1>5, <1>6 DEF Listeners!Lose
<1> QED BY <1>2, <1>7

(* A listener subscribes to a daemon of its own port.                      *)
LEMMA JoinFollows ==
  ASSUME IInv, NEW c \in Clients, NEW d \in Daemons, Join(c, d)
  PROVE  Listeners!Follow(c, d)
<1>1. at[c] \in Daemons /\ port[at[c]] = port[c]
  BY EventsAssumption DEF IInv, TypeOK, RouteOK, Join
<1>2. port[d] \in Nat /\ port[at[c]] \in Nat /\ port[d] + 10001 = port[at[c]] + 10001
  BY <1>1 DEF IInv, TypeOK, Join, Address, EventPort
<1>3. port[d] = port[c]
  BY <1>1, <1>2
<1>4. Due' = Due /\ Heard' = Heard
  BY DEF Join, Due, Heard
<1> QED BY <1>3, <1>4 DEF Join, options, daemonVars, Listeners!Follow

(* What it prints is the next event that is due to it.                     *)
LEMMA HearHears ==
  ASSUME TypeOK, NEW k \in Clients, Hear(k)
  PROVE  Listeners!Hear(k)
<1>1. /\ printed' = [printed EXCEPT ![k] = printed[k] + 1] /\ queue' = queue
      /\ printed[k] < received[k] /\ UNCHANGED <<port, published, joined>>
  BY DEF Hear, HasEvent, options, daemonVars
<1>2. \A c \in Clients :
        /\ Due[c] = SubSeq(queue[c], printed[c] + 1, Len(queue[c]))
        /\ Due'[c] = SubSeq(queue[c], printed'[c] + 1, Len(queue[c]))
        /\ Heard[c] = SubSeq(queue[c], 1, printed[c])
        /\ Heard'[c] = SubSeq(queue[c], 1, printed'[c])
  BY <1>1 DEF Due, Heard
<1>3. \A c \in Clients : printed'[c] = IF c = k THEN printed[k] + 1 ELSE printed[c]
  BY <1>1 DEF TypeOK
<1>4. /\ queue[k] \in Seq(Daemons \X Nat) /\ printed[k] \in Nat
      /\ printed[k] < Len(queue[k])
  <2>1. /\ queue[k] \in Seq(Daemons \X Nat) /\ printed[k] \in Nat
        /\ Len(queue[k]) \in Nat /\ received[k] \in 0..Len(queue[k])
    BY EventsOf
  <2> QED BY <1>1, <2>1
<1>5. /\ Due[k] # <<>> /\ Tail(Due[k]) = Due'[k]
      /\ Heard'[k] = Append(Heard[k], Head(Due[k]))
  <2>1. LET rest == SubSeq(queue[k], printed[k] + 1, Len(queue[k]))
        IN  /\ rest # <<>> /\ Tail(rest) = SubSeq(queue[k], (printed[k] + 1) + 1, Len(queue[k]))
            /\ SubSeq(queue[k], 1, printed[k] + 1)
                 = Append(SubSeq(queue[k], 1, printed[k]), Head(rest))
    BY <1>4, HearOfRest
  <2> QED BY <1>2, <1>3, <2>1
<1>6. \A c \in Clients : c # k => Due'[c] = Due[c] /\ Heard'[c] = Heard[c]
  BY <1>2, <1>3
<1>7. /\ Due' = [Due EXCEPT ![k] = Tail(Due[k])]
      /\ Heard' = [Heard EXCEPT ![k] = Append(Heard[k], Head(Due[k]))]
  <2>1. /\ Due' = [c \in Clients |-> Due'[c]] /\ Due = [c \in Clients |-> Due[c]]
        /\ Heard' = [c \in Clients |-> Heard'[c]] /\ Heard = [c \in Clients |-> Heard[c]]
    BY DEF Due, Heard
  <2> QED BY <1>5, <1>6, <2>1
<1> QED BY <1>1, <1>5, <1>7 DEF Listeners!Hear

(* With the listener goes what it has not printed.                         *)
LEMMA LeaveLeaves ==
  ASSUME TypeOK, NEW k \in Clients, Leave(k)
  PROVE  Listeners!Leave(k)
<1>1. /\ queue' = [queue EXCEPT ![k] = SubSeq(queue[k], 1, printed[k])]
      /\ joined' = [joined EXCEPT ![k] = NULL]
      /\ UNCHANGED <<port, published, printed>>
  BY DEF Leave, options, daemonVars
<1>2. \A c \in Clients :
        /\ Due[c] = SubSeq(queue[c], printed[c] + 1, Len(queue[c]))
        /\ Due'[c] = SubSeq(queue'[c], printed[c] + 1, Len(queue'[c]))
        /\ Heard[c] = SubSeq(queue[c], 1, printed[c])
        /\ Heard'[c] = SubSeq(queue'[c], 1, printed[c])
  BY <1>1 DEF Due, Heard
<1>3. \A c \in Clients :
        queue'[c] = IF c = k THEN SubSeq(queue[k], 1, printed[k]) ELSE queue[c]
  BY <1>1 DEF TypeOK
<1>4. Due'[k] = <<>> /\ Heard'[k] = Heard[k]
  <2> DEFINE cut == SubSeq(queue[k], 1, printed[k])
  <2>1. /\ queue[k] \in Seq(Daemons \X Nat) /\ printed[k] \in 0..Len(queue[k])
        /\ printed[k] \in 0..printed[k]
    BY EventsOf
  <2>2. Len(cut) = printed[k] /\ SubSeq(cut, 1, printed[k]) = SubSeq(queue[k], 1, printed[k])
    BY <2>1, Prefix, CutOfRest
  <2>3. SubSeq(cut, printed[k] + 1, printed[k]) = <<>>
    BY <2>1, SubSeqEmpty
  <2> QED BY <1>2, <1>3, <2>2, <2>3
<1>5. \A c \in Clients : c # k => Due'[c] = Due[c] /\ Heard'[c] = Heard[c]
  BY <1>2, <1>3
<1>6. Due' = [Due EXCEPT ![k] = <<>>] /\ Heard' = Heard
  <2>1. /\ Due' = [c \in Clients |-> Due'[c]] /\ Due = [c \in Clients |-> Due[c]]
        /\ Heard' = [c \in Clients |-> Heard'[c]] /\ Heard = [c \in Clients |-> Heard[c]]
    BY DEF Due, Heard
  <2> QED BY <1>4, <1>5, <2>1
<1> QED BY <1>1, <1>6 DEF Listeners!Leave

(* Every step is one of Feed, or none that a listener can tell.            *)
LEMMA NextFeed == IInv /\ [Next]_vars => [Listeners!Next]_(Listeners!vars)
<1> SUFFICES ASSUME IInv, [Next]_vars
             PROVE  Listeners!Next \/ UNCHANGED Listeners!vars
  OBVIOUS
<1>t. TypeOK
  BY DEF IInv
<1> USE DEF options, daemonVars, clientVars
<1>1. CASE UNCHANGED <<port, published, joined, queue, printed>>
  BY <1>1, Unseen
<1>2. ASSUME NEW d \in Daemons, Dispatch(d) \/ \E c \in Clients : Handle(d, c)
      PROVE  Listeners!Next \/ UNCHANGED Listeners!vars
  <2>1. CASE Publish(d)
    <3>1. UNCHANGED <<port, joined, printed>>
      BY <1>2 DEF Dispatch, Handle
    <3>2. CASE Spread(d)
      BY <1>t, <2>1, <3>1, <3>2, PublishFeeds DEF Listeners!Next
    <3>3. CASE Disturbed(d) /\ UNCHANGED queue
      BY <2>1, <3>1, <3>3, PublishWastes DEF Listeners!Next
    <3> QED BY <2>1, <3>2, <3>3 DEF Publish
  <2>2. CASE Silent
    BY <1>1, <1>2, <2>2 DEF Dispatch, Handle, Silent
  <2> QED BY <1>2, <2>1, <2>2 DEF Dispatch, Handle
<1>3. ASSUME NEW d \in Daemons, LingerLapses(d) \/ ExitInterrupted(d) \/ Abort(d)
      PROVE  Listeners!Next \/ UNCHANGED Listeners!vars
  <2>1. ASSUME NEW C \in SUBSET Clients, \A c \in C : joined[c] = d, Cut(C)
        PROVE  Listeners!Next
    <3>1. UNCHANGED <<port, published, printed>>
      BY <1>3 DEF LingerLapses, ExitInterrupted, Abort
    <3>2. \E kept \in [C -> 0..HWM] : Listeners!Lose(d, C, kept)
      BY <1>t, <2>1, <3>1, CutLoses
    <3> QED BY <3>2 DEF Listeners!Next
  <2>2. CASE Cut(Unheard(d))
    BY <2>1, <2>2 DEF Unheard
  <2>3. CASE Cut({c \in Clients : joined[c] = d})
    BY <2>1, <2>3
  <2>4. CASE UNCHANGED <<joined, queue>>
    BY <1>1, <1>3, <2>4 DEF LingerLapses, ExitInterrupted, Abort
  <2> QED BY <1>3, <2>2, <2>3, <2>4 DEF LingerLapses, ExitInterrupted, Abort
<1>4. ASSUME NEW d \in Daemons, Exit(d) PROVE Listeners!Next
  BY <1>t, <1>4, ExitLoses DEF Listeners!Next
<1>5. ASSUME NEW c \in Clients, NEW d \in Daemons, Join(c, d) PROVE Listeners!Next
  BY <1>5, JoinFollows DEF Listeners!Next
<1>6. ASSUME NEW c \in Clients, Hear(c) \/ Leave(c) PROVE Listeners!Next
  BY <1>t, <1>6, HearHears, LeaveLeaves DEF Listeners!Next
<1> QED BY <1>1, <1>2, <1>3, <1>4, <1>5, <1>6
       DEF Next, Main, Library, vars, StartPub, StartRep, Post, Tick, Signal, Take, DrainEnd,
           ClosePub, CloseRep, Ask, Reach, Misdirected, Answer, Deliver

(* For any programs on any ports: a listener misses an event of the daemon *)
(* it is subscribed to only when its queue is full, or together with all   *)
(* others, when the daemon is one that signals may come to; and it loses   *)
(* those it was sent only with its connection, the last of them first      *)
(* (pubsub.c:71-80, gst_playd.c:334-339).                                  *)
THEOREM FeedKept == Spec => FeedSpec
<1> QED BY InitFeed, NextFeed, EventsInvariant, PTL DEF Spec, FeedSpec, Listeners!Spec
=============================================================================
