------------------------------ MODULE Jukebox ------------------------------
(***************************************************************************)
(* What its clients may count on together.  Each PLAY and STOP takes       *)
(* effect at one moment between the request and the answer, all of it and  *)
(* once, as SourceSet says, and the client gets the answer to what it      *)
(* asked; requests are lost only by a daemon that is unloading the plugin. *)
(***************************************************************************)
EXTENDS SourceSet

CONSTANTS
  Clients,
  Wishes,    \* what each may ask for: PLAY or STOP, and what
  IdModulus, \* the parameter of a STOP is cut to an id
  NULL       \* no answer

VARIABLES
  titles,  \* what each source plays
  stage,   \* of each client: "idle", "asked", "done" or "lost"
  wish,    \* what it asks for
  got      \* the answer made for it

clientVars == <<stage, wish, got>>
setVars == <<vars, titles>>

Start ==
  /\ Init /\ titles = <<>>
  /\ stage = [c \in Clients |-> "idle"]
  /\ wish = [c \in Clients |-> NULL] /\ got = [c \in Clients |-> NULL]

Ask(c, w) ==
  /\ stage[c] = "idle" /\ w \in Wishes[c]
  /\ stage' = [stage EXCEPT ![c] = "asked"]
  /\ wish' = [wish EXCEPT ![c] = w]
  /\ UNCHANGED <<got, setVars>>

Do(c) ==
  /\ stage[c] = "asked"
  /\ \/ /\ wish[c].op = "PLAY"
        /\ \E id \in Ids : Play(id)
        /\ titles' = Append(titles, wish[c].what)
     \/ /\ wish[c].op = "STOP"
        /\ Stop(wish[c].what % IdModulus) \/ Refuse(wish[c].what % IdModulus)
        /\ UNCHANGED titles
  /\ stage' = [stage EXCEPT ![c] = "done"]
  /\ got' = [got EXCEPT ![c] = answer']
  /\ UNCHANGED wish

(* The answer comes to the client, if it is still there.                   *)
Return(c) ==
  /\ stage[c] = "done"
  /\ stage' = [stage EXCEPT ![c] = "idle"]
  /\ wish' = [wish EXCEPT ![c] = NULL] /\ got' = [got EXCEPT ![c] = NULL]
  /\ UNCHANGED setVars

(* The requests or answers of the clients in C are lost.                   *)
Lose(C) ==
  /\ closing /\ \A c \in C : stage[c] \in {"asked", "done"}
  /\ stage' = [c \in Clients |-> IF c \in C THEN "lost" ELSE stage[c]]
  /\ got' = [c \in Clients |-> IF c \in C THEN NULL ELSE got[c]]
  /\ UNCHANGED <<wish, setVars>>

Ending == (Close \/ Unload) /\ UNCHANGED <<titles, clientVars>>

Step ==
  \/ \E c \in Clients : Do(c) \/ Return(c) \/ \E w \in Wishes[c] : Ask(c, w)
  \/ \E C \in SUBSET Clients : Lose(C)
  \/ Ending

Service == Start /\ [][Step]_<<setVars, clientVars>>
=============================================================================
