-------------------------------- MODULE Tags --------------------------------
(***************************************************************************)
(* A TAGS request (op_tags_parse and on_new_pad_tags in                    *)
(* src/src/operations/play.c, src/src/gst-util.c).  It builds a pipeline   *)
(* of its own, whose streaming threads post messages on its bus and        *)
(* announce pads; the main thread takes the messages off the bus one by    *)
(* one, collects the tags, and answers at the first message that is not    *)
(* of tags.  Nobody takes the pipeline down, so its threads go on after    *)
(* the answer.                                                             *)
(***************************************************************************)
EXTENDS Integers, Sequences

CONSTANTS
  Pads,      \* the pads the decoder announces, each in a thread of its own
  Values,    \* values of tags: [type |-> a type, n |-> which of its values]
  TagLists,  \* what TAG messages carry: functions from tags to their values
  MaxPosts,  \* bound on the messages posted
  NULL       \* no pad

ASSUME TagsAssumption ==
  /\ NULL \notin Pads /\ MaxPosts \in Nat
  /\ \A l \in TagLists : \A t \in DOMAIN l : l[t] \in Seq(Values)

VARIABLES
  pc,      \* the main thread: "build", "pop", "done"
  fate,    \* "running", or "aborted"
  posted,  \* all messages that were posted on the bus, ...
  taken,   \* ... of which the main thread has taken this many
  table,   \* tag_table: from <<tag, index>> to text
  reply,   \* the verb of the answer, and the table it shows
  saw,     \* what each pad's callback saw of the sink: "none" before it ran,
           \* "free" or "linked"
  peer     \* the pad the sink is linked to

handler == <<pc, taken, table, reply>>
vars == <<pc, fate, posted, taken, table, reply, saw, peer>>

Empty == [k \in {} |-> NULL]

Init ==
  /\ pc = "build" /\ fate = "running"
  /\ posted = <<>> /\ taken = 0
  /\ table = Empty
  /\ reply = [verb |-> "none", tags |-> Empty]
  /\ saw = [p \in Pads |-> "none"] /\ peer = NULL

-----------------------------------------------------------------------------
(* The streaming threads.  on_new_pad_tags first looks whether the sink is *)
(* linked, and links it only then.  Mutant: it links it whatever it saw.   *)
AnyPad(p) == saw[p] # "none"

WillLink(p) == saw[p] = "free"

PadAdded(p) ==
  /\ pc # "build" /\ fate = "running" /\ saw[p] = "none"
  /\ saw' = [saw EXCEPT ![p] = IF peer = NULL THEN "free" ELSE "linked"]
  /\ UNCHANGED <<handler, fate, posted, peer>>

(* The sink takes any format, but only one pad: g_error is for the second. *)
PadLink(p) ==
  /\ fate = "running" /\ WillLink(p) /\ peer # p
  /\ IF peer = NULL THEN peer' = p /\ UNCHANGED fate
                    ELSE fate' = "aborted" /\ UNCHANGED peer
  /\ UNCHANGED <<handler, posted, saw>>

(* ASYNC_DONE says that the sink has data, for which it must be linked.    *)
Post(m) ==
  /\ pc # "build" /\ fate = "running" /\ Len(posted) < MaxPosts
  /\ m.type = "ASYNC_DONE" => peer # NULL
  /\ posted' = Append(posted, m)
  /\ UNCHANGED <<handler, fate, saw, peer>>

Messages ==
  {[type |-> "TAG", tags |-> l] : l \in TagLists}
    \cup {[type |-> t, tags |-> Empty] : t \in {"ASYNC_DONE", "ERROR"}}

-----------------------------------------------------------------------------
(* tag_to_hash_table: a value as text.  "%lu64" writes 64 behind the       *)
(* number, "%f" rounds (n counts tenths of a millionth) and a value of any *)
(* type not provided for is given as the name of its type.                 *)
TextOf(v) ==
  CASE v.type = "uint"   -> <<"number", v.n>>
    [] v.type = "uint64" -> <<"number", 100 * v.n + 64>>
    [] v.type = "double" -> <<"fraction", (v.n + 5) \div 10>>
    [] v.type = "other"  -> <<"type", 0>>
    [] OTHER -> <<v.type, v.n>>

(* The entries a list makes: one for each value of each tag. *)
Keys(l) == UNION {{t} \X (0..Len(l[t]) - 1) : t \in DOMAIN l}

(* Mutant: what is in the table stays. *)
FirstKept(l) ==
  [k \in DOMAIN table \cup Keys(l) |->
     IF k \in DOMAIN table THEN table[k] ELSE TextOf(l[k[1]][k[2] + 1])]

Entered(l) ==
  [k \in DOMAIN table \cup Keys(l) |->
     IF k \in Keys(l) THEN TextOf(l[k[1]][k[2] + 1]) ELSE table[k]]

Build ==
  /\ pc = "build" /\ fate = "running"
  /\ pc' = "pop"
  /\ UNCHANGED <<fate, posted, taken, table, reply, saw, peer>>

(* Mutant: only ASYNC_DONE ends the loop. *)
UntilDone(m) == m.type # "ASYNC_DONE"

Continues(m) == m.type = "TAG"

Pop ==
  /\ pc = "pop" /\ fate = "running" /\ taken < Len(posted)
  /\ taken' = taken + 1

(* gsu_tags_to_hash_table *)
TakeTag ==
  /\ Pop /\ Continues(posted[taken + 1])
  /\ table' = Entered(posted[taken + 1].tags)
  /\ UNCHANGED <<pc, fate, posted, reply, saw, peer>>

(* An error is answered with the tags there are, if there are any.         *)
(* Mutant: it is answered FAIL in any case.                                *)
FailOnError(m) == IF m.type = "ERROR" THEN "FAIL" ELSE "OK"

Verb(m) == IF m.type = "ERROR" /\ DOMAIN table = {} THEN "FAIL" ELSE "OK"

TakeEnd ==
  /\ Pop /\ ~Continues(posted[taken + 1])
  /\ pc' = "done"
  /\ reply' = [verb |-> Verb(posted[taken + 1]), tags |-> table]
  /\ UNCHANGED <<fate, posted, table, saw, peer>>

Handler == Build \/ TakeTag \/ TakeEnd

Next ==
  \/ Handler
  \/ \E p \in Pads : PadAdded(p) \/ PadLink(p)
  \/ \E m \in Messages : Post(m)

(* The main thread takes its next step when it has one; the streaming      *)
(* threads need not do anything.                                           *)
Spec == Init /\ [][Next]_vars /\ WF_vars(Handler)

-----------------------------------------------------------------------------
Texts == {TextOf(v) : v \in Values}
AllKeys == UNION {Keys(l) : l \in TagLists}

TypeOK ==
  /\ pc \in {"build", "pop", "done"} /\ fate \in {"running", "aborted"}
  /\ posted \in Seq(Messages) /\ taken \in 0..Len(posted)
  /\ DOMAIN table \subseteq AllKeys
  /\ \A k \in DOMAIN table : table[k] \in Texts
  /\ reply.verb \in {"none", "OK", "FAIL"}
  /\ saw \in [Pads -> {"none", "free", "linked"}] /\ peer \in Pads \cup {NULL}

IsTag(m) == m.type = "TAG"
Has(j, k) == IsTag(posted[j]) /\ k \in Keys(posted[j].tags)
TextAt(j, k) == TextOf(posted[j].tags[k[1]][k[2] + 1])

(* However the tags are spread over messages, the table has for each tag   *)
(* and index what the last message that had it said, and leaves out none   *)
(* (gst-util.c:28-64).  A later, shorter list of values thus leaves the    *)
(* rest of an earlier one in place.                                        *)
LastListWins ==
  /\ \A k \in DOMAIN table : \E j \in 1..taken :
       Has(j, k) /\ table[k] = TextAt(j, k) /\ \A i \in j + 1..taken : ~Has(i, k)
  /\ \A j \in 1..taken, k \in AllKeys : Has(j, k) => k \in DOMAIN table

(* The answer is made at the first message that is not of tags, from all   *)
(* the tags before it; it is FAIL only if that message is an error and     *)
(* there were no tags (play.c:276-307).                                    *)
AnsweredAtEnd ==
  /\ \A j \in 1..taken : IsTag(posted[j]) <=> (j < taken \/ pc # "done")
  /\ pc = "done" =>
       /\ taken > 0
       /\ reply.tags = table
       /\ reply.verb = "FAIL" <=>
            /\ posted[taken].type = "ERROR"
            /\ \A j \in 1..taken, k \in AllKeys : ~Has(j, k)

(* The abort in on_new_pad_tags takes two threads that saw the sink free,  *)
(* of which one has linked it: pads announced one after the other, however *)
(* many, never abort the daemon (play.c:245-249).                          *)
AbortNeedsRace ==
  fate = "aborted" => \E p, q \in Pads :
    p # q /\ saw[p] = "free" /\ saw[q] = "free" /\ peer = q

(* What TLAPS proves inductive. *)
IInv ==
  /\ TypeOK /\ LastListWins /\ AnsweredAtEnd /\ AbortNeedsRace
  /\ peer # NULL => saw[peer] = "free"

(* Once the pipeline has posted an end, the request is answered, whatever  *)
(* else is posted (unless a streaming thread aborts the process).          *)
Ended == \E j \in 1..Len(posted) : ~IsTag(posted[j])

Answered == (pc = "pop" /\ Ended) ~> (pc = "done" \/ fate = "aborted")
=============================================================================
