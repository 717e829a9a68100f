-------------------------------- MODULE Feed --------------------------------
(***************************************************************************)
(* What a listener may count on.  A daemon's events come to whoever        *)
(* follows it, in order and with none left out, unless the listener is too *)
(* far behind when one is published, or the event comes to nobody at all   *)
(* because the daemon is disturbed.  Only with its connection does a       *)
(* listener lose events, and then the newest.  It follows one daemon at a  *)
(* time, and only one of its own port.                                     *)
(***************************************************************************)
EXTENDS Integers, Sequences

CONSTANTS Daemons, Clients, HWM, NULL

VARIABLES
  disturbed,  \* the daemons that may fail to send an event; decided elsewhere
  port,       \* of each program
  published,  \* how many events each daemon has published
  follows,    \* the daemon a listener follows
  due,        \* the events it has still to hear, ...
  heard       \* ... and those it has heard

vars == <<port, published, follows, due, heard>>

Init ==
  /\ published = [d \in Daemons |-> 0]
  /\ follows = [c \in Clients |-> NULL]
  /\ due = [c \in Clients |-> <<>>] /\ heard = [c \in Clients |-> <<>>]

Follow(c, d) ==
  /\ follows[c] = NULL /\ port[d] = port[c]
  /\ follows' = [follows EXCEPT ![c] = d]
  /\ UNCHANGED <<port, published, due, heard>>

Emit(d) ==
  /\ published' = [published EXCEPT ![d] = @ + 1]
  /\ due' = [c \in Clients |->
       IF follows[c] = d /\ Len(due[c]) < HWM
       THEN Append(due[c], <<d, published[d] + 1>>) ELSE due[c]]
  /\ UNCHANGED <<port, follows, heard>>

(* An event that comes to nobody. *)
Waste(d) ==
  /\ d \in disturbed
  /\ published' = [published EXCEPT ![d] = @ + 1]
  /\ UNCHANGED <<port, follows, due, heard>>

Hear(c) ==
  /\ due[c] # <<>>
  /\ heard' = [heard EXCEPT ![c] = Append(@, Head(due[c]))]
  /\ due' = [due EXCEPT ![c] = Tail(@)]
  /\ UNCHANGED <<port, published, follows>>

(* The listeners in C lose daemon d, and each keeps so many events. *)
Lose(d, C, kept) ==
  /\ \A c \in C : follows[c] = d /\ kept[c] <= Len(due[c])
  /\ follows' = [c \in Clients |-> IF c \in C THEN NULL ELSE follows[c]]
  /\ due' = [c \in Clients |->
       IF c \in C THEN SubSeq(due[c], 1, kept[c]) ELSE due[c]]
  /\ UNCHANGED <<port, published, heard>>

Leave(c) ==
  /\ follows' = [follows EXCEPT ![c] = NULL]
  /\ due' = [due EXCEPT ![c] = <<>>]
  /\ UNCHANGED <<port, published, heard>>

Next ==
  \/ \E c \in Clients : Hear(c) \/ Leave(c)
  \/ \E d \in Daemons :
       \/ Emit(d) \/ Waste(d) \/ \E c \in Clients : Follow(c, d)
       \/ \E C \in SUBSET Clients : \E kept \in [C -> 0..HWM] : Lose(d, C, kept)

Spec == Init /\ [][Next]_vars
=============================================================================
