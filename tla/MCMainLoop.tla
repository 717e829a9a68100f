----------------------------- MODULE MCMainLoop -----------------------------
(***************************************************************************)
(* Two clients with every kind of command.                                 *)
(***************************************************************************)
EXTENDS MainLoop

CONSTANTS c1, c2

(* Bound: only the second client goes away. *)
Bounded == gone' \subseteq {c2}

MCSpec == Init /\ [][Next /\ Bounded]_vars /\ Fairness
=============================================================================
