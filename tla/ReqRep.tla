------------------------------- MODULE ReqRep -------------------------------
(***************************************************************************)
(* What a client of gst_playd may count on.  A request gets one answer, to *)
(* the client that made it, with a verb its command allows; a request is   *)
(* lost only by a server that is going down, and a client that goes away   *)
(* takes its own request with it.                                          *)
(***************************************************************************)
CONSTANTS
  Clients,
  Commands,
  Verbs,    \* the verbs each command may be answered with
  NULL      \* no command

VARIABLES
  status,   \* of each client: "new", "asking", the verb it was last answered
            \* with, "lost" when its request was, or "gone"
  asked,    \* the command it waits for an answer to
  failing   \* the server may lose requests

vars == <<status, asked, failing>>

AllVerbs == UNION {Verbs[m] : m \in Commands}

Init ==
  /\ status = [c \in Clients |-> "new"]
  /\ asked = [c \in Clients |-> NULL]
  /\ failing = FALSE

Ask(c, m) ==
  /\ status[c] \in AllVerbs \cup {"new"}
  /\ status' = [status EXCEPT ![c] = "asking"]
  /\ asked' = [asked EXCEPT ![c] = m]
  /\ UNCHANGED failing

Answer(c, v) ==
  /\ status[c] = "asking" /\ v \in Verbs[asked[c]]
  /\ status' = [status EXCEPT ![c] = v]
  /\ asked' = [asked EXCEPT ![c] = NULL]
  /\ UNCHANGED failing

Leave(c) ==
  /\ status[c] # "gone"
  /\ status' = [status EXCEPT ![c] = "gone"]
  /\ asked' = [asked EXCEPT ![c] = NULL]
  /\ UNCHANGED failing

Fail ==
  /\ ~failing /\ failing' = TRUE
  /\ UNCHANGED <<status, asked>>

(* A failing server loses the requests of the clients in C. *)
Lose(C) ==
  /\ failing /\ \A c \in C : status[c] = "asking"
  /\ status' = [c \in Clients |-> IF c \in C THEN "lost" ELSE status[c]]
  /\ asked' = [c \in Clients |-> IF c \in C THEN NULL ELSE asked[c]]
  /\ UNCHANGED failing

Next ==
  \/ \E c \in Clients :
       \/ \E m \in Commands : Ask(c, m)
       \/ \E v \in AllVerbs : Answer(c, v)
       \/ Leave(c)
  \/ Fail
  \/ \E C \in SUBSET Clients : Lose(C)

Spec == Init /\ [][Next]_vars
=============================================================================
