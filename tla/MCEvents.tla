------------------------------ MODULE MCEvents ------------------------------
(***************************************************************************)
(* A listener (ear) and a one-shot client (asker), and two daemons: one on *)
(* the listener's port, two on that or the next, so that it is a second    *)
(* daemon, a successor or a neighbour.                                     *)
(***************************************************************************)
EXTENDS Events

CONSTANTS one, two, ear, asker

MCDaemons == {one, two}
MCClients == {ear, asker}
MCPorts == [p \in MCDaemons \cup MCClients |-> IF p \in {two, asker} THEN {0, 1} ELSE {0}]
MCAsks == [c \in MCClients |->
  IF c = ear THEN {"PUBSUB"} ELSE {"PING", "QUIT", "TAGS"}]
MCPosts == [d \in MCDaemons |-> IF d = two THEN 2 ELSE 0]

(* Bounds: the asker is on the second daemon's port if it is on the next   *)
(* one, and asks for tags only there; and once a daemon has been asked to  *)
(* quit GStreamer is silent.                                               *)
MCInit ==
  /\ Init
  /\ port[asker] = 1 => port[two] = 1
  /\ asked[asker] = "TAGS" => port[asker] = 1

Bounded == \A d \in Daemons : quit[d] => posted'[d] = posted[d]

MCSpec == MCInit /\ [][Next /\ Bounded]_vars /\ Fairness
=============================================================================
