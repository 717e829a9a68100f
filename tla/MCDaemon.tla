------------------------------ MODULE MCDaemon ------------------------------
(***************************************************************************)
(* A client that plays a song, and one that stops it or asks for its tags; *)
(* a signal may end the daemon.  The hash gives all sources one id, so     *)
(* that a STOP finds two sources with its id when both plays came before.  *)
(***************************************************************************)
EXTENDS Daemon, TLC

CONSTANTS song, p1, p2, c1, c2

MCUris == {song}
MCAddrs == {p1, p2}
MCStreams == song :> <<"audio">>
MCWishes ==
  c1 :> {[op |-> "PLAY", what |-> song]}
  @@ c2 :> {[op |-> "STOP", what |-> 3], [op |-> "TAGS", what |-> song]}
MCHash == [x \in Uris \X Addrs \X (0..MaxClock) |-> 1]

(* Bounds: only the second client goes away, while nothing has asked the   *)
(* daemon to end; and a daemon that has handled a TAGS gets no PLAY.       *)
Bounded ==
  /\ gone' \subseteq {c2} /\ (signal' \/ quit' => gone' = {})
  /\ tagged' => log' = <<>>

MCSpec == DaemonInit /\ [][DaemonNext /\ Bounded]_daemonVars
=============================================================================
