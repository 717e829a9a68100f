----------------------------- MODULE SourceSet -----------------------------
(***************************************************************************)
(* What the playback plugin promises its clients.  A PLAY adds a source    *)
(* and answers with its id; a STOP takes out the newest source that has    *)
(* the id, and is answered OK only then; unloading the plugin takes out    *)
(* the sources one by one, the newest first.                               *)
(***************************************************************************)
EXTENDS Naturals, FiniteSetsExt, Sequences

CONSTANT Ids

VARIABLES
  issued,   \* the ids given out so far: source k got issued[k]
  heard,    \* the sources in the mix
  answer,   \* the last answer a client got
  closing   \* the plugin is being unloaded

vars == <<issued, heard, answer, closing>>

Init ==
  /\ issued = <<>> /\ heard = {} /\ closing = FALSE
  /\ answer = [op |-> "none", verb |-> "OK", id |-> 0]

Play(id) ==
  /\ ~closing
  /\ issued' = Append(issued, id)
  /\ heard' = heard \cup {Len(issued) + 1}
  /\ answer' = [op |-> "PLAY", verb |-> "OK", id |-> id]
  /\ UNCHANGED closing

WithId(id) == {k \in heard : issued[k] = id}

Stop(id) ==
  /\ ~closing /\ WithId(id) # {}
  /\ heard' = heard \ {Max(WithId(id))}
  /\ answer' = [op |-> "STOP", verb |-> "OK", id |-> id]
  /\ UNCHANGED <<issued, closing>>

Refuse(id) ==
  /\ ~closing /\ WithId(id) = {}
  /\ answer' = [op |-> "STOP", verb |-> "FAIL", id |-> 0]
  /\ UNCHANGED <<issued, heard, closing>>

Close ==
  /\ ~closing /\ closing' = TRUE
  /\ UNCHANGED <<issued, heard, answer>>

Unload ==
  /\ closing /\ heard # {}
  /\ heard' = heard \ {Max(heard)}
  /\ UNCHANGED <<issued, answer, closing>>

Next ==
  \/ \E id \in Ids : Play(id) \/ Stop(id) \/ Refuse(id)
  \/ Close \/ Unload

Spec == Init /\ [][Next]_vars
=============================================================================
