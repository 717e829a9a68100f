----------------------------- MODULE TagsProofs -----------------------------
(***************************************************************************)
(* The TAGS request for any tags, values, number of messages and pads:     *)
(* what the table holds, what the answer is made from, and what it takes   *)
(* for the abort in its callback.                                          *)
(***************************************************************************)
EXTENDS Tags, SequenceTheorems, TLAPS

LEMMA KeysInAll ==
  ASSUME NEW m \in Messages
  PROVE  /\ m.type \in {"TAG", "ASYNC_DONE", "ERROR"}
         /\ IsTag(m) => m.tags \in TagLists /\ Keys(m.tags) \subseteq AllKeys
BY DEF Messages, IsTag, AllKeys

(* The text that a list has for an entry is the text of a value.           *)
LEMMA TextInTexts ==
  ASSUME NEW l \in TagLists, NEW k \in Keys(l)
  PROVE  TextOf(l[k[1]][k[2] + 1]) \in Texts
<1>1. PICK t \in DOMAIN l : k \in {t} \X (0..Len(l[t]) - 1)
  BY DEF Keys
<1>2. l[t] \in Seq(Values)
  BY TagsAssumption
<1>3. k[1] = t /\ k[2] \in 0..Len(l[t]) - 1
  BY <1>1
<1>4. k[2] + 1 \in 1..Len(l[t])
  BY <1>2, <1>3
<1>5. l[t][k[2] + 1] \in Values
  BY <1>2, <1>4
<1> QED BY <1>3, <1>5 DEF Texts

(* The invariant holds when a request starts.                              *)
LEMMA InitIInv == Init => IInv
<1> SUFFICES ASSUME Init PROVE IInv
  OBVIOUS
<1>1. DOMAIN Empty = {} /\ posted = <<>> /\ Len(posted) = 0 /\ taken = 0
  BY DEF Init, Empty
<1>2. TypeOK
  BY <1>1 DEF Init, TypeOK
<1>3. LastListWins /\ AnsweredAtEnd
  BY <1>1 DEF Init, LastListWins, AnsweredAtEnd
<1> QED BY <1>2, <1>3, TagsAssumption DEF Init, IInv, AbortNeedsRace

(* A message more on the bus changes nothing of those taken.               *)
LEMMA PostKeeps ==
  ASSUME IInv, NEW m \in Messages, Post(m)
  PROVE  IInv'
<1>1. posted \in Seq(Messages) /\ taken \in 0..Len(posted)
  BY DEF IInv, TypeOK
<1>2. /\ posted' \in Seq(Messages) /\ taken' \in 0..Len(posted')
      /\ \A j \in 1..taken : posted'[j] = posted[j]
  BY <1>1 DEF Post, handler
<1>3. \A j \in 1..taken : \A k : (Has(j, k)' <=> Has(j, k)) /\ TextAt(j, k)' = TextAt(j, k)
  BY <1>2 DEF Has, TextAt
<1>4. TypeOK'
  BY <1>2 DEF IInv, TypeOK, Post, handler
<1>5. LastListWins'
  <2>1. LastListWins /\ taken' = taken /\ table' = table
    BY DEF IInv, Post, handler
  <2>2. \A j \in 1..taken : j + 1..taken \subseteq 1..taken
    BY <1>1
  <2> QED BY <1>3, <2>1, <2>2 DEF LastListWins
<1>6. AnsweredAtEnd'
  <2>1. AnsweredAtEnd /\ taken' = taken /\ table' = table /\ reply' = reply /\ pc' = pc
    BY DEF IInv, Post, handler
  <2>2. \A j \in 1..taken : IsTag(posted'[j]) <=> IsTag(posted[j])
    BY <1>2
  <2>3. CASE pc # "done"
    BY <2>1, <2>2, <2>3 DEF AnsweredAtEnd
  <2>4. CASE pc = "done"
    <3>1. taken \in 1..taken
      BY <1>1, <2>1, <2>4 DEF AnsweredAtEnd
    <3> QED BY <1>2, <1>3, <2>1, <2>2, <2>4, <3>1 DEF AnsweredAtEnd
  <2> QED BY <2>3, <2>4
<1> QED BY <1>4, <1>5, <1>6 DEF IInv, AbortNeedsRace, Post

(* A message of tags: its entries replace what was there.                  *)
LEMMA TakeTagKeeps ==
  ASSUME IInv, TakeTag
  PROVE  IInv'
<1> DEFINE l == posted[taken + 1].tags
<1>1. /\ posted \in Seq(Messages) /\ taken \in 0..Len(posted) /\ taken < Len(posted)
      /\ pc = "pop" /\ pc' = "pop" /\ posted' = posted /\ taken' = taken + 1
      /\ table' = Entered(l) /\ posted[taken + 1].type = "TAG"
  BY DEF IInv, TypeOK, TakeTag, Pop, Continues
<1>2. posted[taken + 1] \in Messages /\ taken + 1 \in 1..Len(posted)
  BY <1>1
<1>3. l \in TagLists /\ Keys(l) \subseteq AllKeys /\ IsTag(posted[taken + 1])
  BY <1>1, <1>2, KeysInAll DEF IsTag
<1>4. DOMAIN table' = DOMAIN table \cup Keys(l)
  BY <1>1 DEF Entered
<1>5. \A k \in DOMAIN table' :
        table'[k] = IF k \in Keys(l) THEN TextOf(l[k[1]][k[2] + 1]) ELSE table[k]
  BY <1>1 DEF Entered
<1>6. TypeOK'
  <2>1. \A k \in DOMAIN table' : table'[k] \in Texts
    BY <1>3, <1>4, <1>5, TextInTexts DEF IInv, TypeOK
  <2>2. DOMAIN table' \subseteq AllKeys
    BY <1>3, <1>4 DEF IInv, TypeOK
  <2> QED BY <1>1, <1>2, <2>1, <2>2 DEF IInv, TypeOK, TakeTag
<1>7. \A j, k : (Has(j, k)' <=> Has(j, k)) /\ TextAt(j, k)' = TextAt(j, k)
  BY <1>1 DEF Has, TextAt
<1>8. \A k : Has(taken + 1, k) <=> k \in Keys(l)
  BY <1>3 DEF Has
<1>9. LastListWins'
  <2>1. LastListWins
    BY DEF IInv
  <2>2. ASSUME NEW k \in DOMAIN table'
        PROVE  \E j \in 1..taken + 1 :
                 /\ Has(j, k) /\ table'[k] = TextAt(j, k)
                 /\ \A i \in j + 1..taken + 1 : ~Has(i, k)
    <3>1. CASE k \in Keys(l)
      <4>1. Has(taken + 1, k) /\ table'[k] = TextAt(taken + 1, k)
        BY <1>5, <1>8, <3>1 DEF TextAt
      <4>2. taken + 1 \in 1..taken + 1 /\ (taken + 1) + 1..taken + 1 = {}
        BY <1>2, <1>1
      <4> QED BY <4>1, <4>2
    <3>2. CASE k \notin Keys(l)
      <4>1. k \in DOMAIN table /\ table'[k] = table[k]
        BY <1>4, <1>5, <3>2
      <4>2. PICK j \in 1..taken : /\ Has(j, k) /\ table[k] = TextAt(j, k)
                                  /\ \A i \in j + 1..taken : ~Has(i, k)
        BY <2>1, <4>1 DEF LastListWins
      <4>3. j \in 1..taken + 1 /\ \A i \in j + 1..taken + 1 : i \in j + 1..taken \/ i = taken + 1
        BY <1>1
      <4> QED BY <1>8, <3>2, <4>1, <4>2, <4>3
    <3> QED BY <3>1, <3>2
  <2>3. ASSUME NEW j \in 1..taken + 1, NEW k \in AllKeys, Has(j, k)
        PROVE  k \in DOMAIN table'
    <3>1. j \in 1..taken \/ j = taken + 1
      BY <1>1
    <3> QED BY <1>4, <1>8, <2>1, <2>3, <3>1 DEF LastListWins
  <2>4. taken' = taken + 1 /\ AllKeys' = AllKeys
    BY <1>1 DEF AllKeys
  <2> QED BY <1>7, <2>2, <2>3, <2>4 DEF LastListWins
<1>10. AnsweredAtEnd'
  <2>1. \A j \in 1..taken : IsTag(posted[j])
    BY <1>1 DEF IInv, AnsweredAtEnd
  <2>2. \A j \in 1..taken + 1 : IsTag(posted[j])
    <3>1. \A j \in 1..taken + 1 : j \in 1..taken \/ j = taken + 1
      BY <1>1
    <3> QED BY <1>3, <2>1, <3>1
  <2> QED BY <1>1, <2>2 DEF AnsweredAtEnd
<1> QED BY <1>6, <1>9, <1>10 DEF IInv, AbortNeedsRace, TakeTag

(* Any other message: the answer is made of what the table holds.          *)
LEMMA TakeEndKeeps ==
  ASSUME IInv, TakeEnd
  PROVE  IInv'
<1>1. /\ posted \in Seq(Messages) /\ taken \in 0..Len(posted) /\ taken < Len(posted)
      /\ pc = "pop" /\ pc' = "done" /\ posted' = posted /\ taken' = taken + 1
      /\ table' = table /\ posted[taken + 1].type # "TAG"
      /\ reply' = [verb |-> Verb(posted[taken + 1]), tags |-> table]
  BY DEF IInv, TypeOK, TakeEnd, Pop, Continues
<1>2. ~IsTag(posted[taken + 1]) /\ \A k : ~Has(taken + 1, k)
  BY <1>1 DEF IsTag, Has
<1>3. \A j \in 1..taken + 1 : j \in 1..taken \/ j = taken + 1
  BY <1>1
<1>4. \A j, k : (Has(j, k)' <=> Has(j, k)) /\ TextAt(j, k)' = TextAt(j, k)
  BY <1>1 DEF Has, TextAt
<1>5. TypeOK'
  BY <1>1 DEF IInv, TypeOK, TakeEnd, Verb
<1>6. LastListWins /\ DOMAIN table \subseteq AllKeys
  BY DEF IInv, TypeOK
<1>7. LastListWins'
  <2>1. ASSUME NEW k \in DOMAIN table
        PROVE  \E j \in 1..taken + 1 :
                 /\ Has(j, k) /\ table[k] = TextAt(j, k)
                 /\ \A i \in j + 1..taken + 1 : ~Has(i, k)
    <3>1. PICK j \in 1..taken : /\ Has(j, k) /\ table[k] = TextAt(j, k)
                                /\ \A i \in j + 1..taken : ~Has(i, k)
      BY <1>6 DEF LastListWins
    <3>2. j \in 1..taken + 1 /\ \A i \in j + 1..taken + 1 : i \in j + 1..taken \/ i = taken + 1
      BY <1>1
    <3> QED BY <1>2, <3>1, <3>2
  <2>2. \A j \in 1..taken + 1, k \in AllKeys : Has(j, k) => k \in DOMAIN table
    BY <1>2, <1>3, <1>6 DEF LastListWins
  <2>3. taken' = taken + 1 /\ table' = table /\ AllKeys' = AllKeys
    BY <1>1 DEF AllKeys
  <2> QED BY <1>4, <2>1, <2>2, <2>3 DEF LastListWins
<1>8. AnsweredAtEnd'
  <2>1. \A j \in 1..taken : IsTag(posted[j])
    BY <1>1 DEF IInv, AnsweredAtEnd
  <2>2. \A j \in 1..taken + 1 : IsTag(posted[j]) <=> j < taken + 1
    BY <1>1, <1>2, <1>3, <2>1
  <2>3. DOMAIN table = {} <=> \A j \in 1..taken + 1, k \in AllKeys : ~Has(j, k)
    <3>1. ASSUME NEW k \in DOMAIN table
          PROVE  \E j \in 1..taken + 1 : k \in AllKeys /\ Has(j, k)
      <4>1. PICK j \in 1..taken : Has(j, k)
        BY <1>6 DEF LastListWins
      <4>2. j \in 1..taken + 1
        BY <1>1
      <4> QED BY <1>6, <4>1, <4>2
    <3> QED BY <1>2, <1>3, <1>6, <3>1 DEF LastListWins
  <2>4. reply'.tags = table' /\ taken' > 0
    BY <1>1
  <2>5. reply'.verb = "FAIL" <=> posted[taken + 1].type = "ERROR" /\ DOMAIN table = {}
    BY <1>1 DEF Verb
  <2>6. taken' = taken + 1 /\ posted' = posted /\ AllKeys' = AllKeys /\ pc' = "done"
    BY <1>1 DEF AllKeys
  <2> QED BY <1>4, <2>2, <2>3, <2>4, <2>5, <2>6 DEF AnsweredAtEnd
<1> QED BY <1>5, <1>7, <1>8 DEF IInv, AbortNeedsRace, TakeEnd

(* Steps that leave the messages and the table alone.                      *)
LEMMA TagsKeep ==
  ASSUME LastListWins, AnsweredAtEnd, UNCHANGED <<posted, taken, table, reply>>,
         pc' = pc \/ (pc # "done" /\ pc' # "done")
  PROVE  LastListWins' /\ AnsweredAtEnd'
BY DEF LastListWins, AnsweredAtEnd, Has, TextAt, IsTag, AllKeys

(* Every step keeps the inductive invariant.                               *)
LEMMA NextIInv == IInv /\ [Next]_vars => IInv'
<1> SUFFICES ASSUME IInv, [Next]_vars PROVE IInv'
  OBVIOUS
<1>1. CASE Build
  BY <1>1, TagsKeep DEF IInv, TypeOK, AbortNeedsRace, Build
<1>2. ASSUME NEW p \in Pads, PadAdded(p) PROVE IInv'
  <2>1. LastListWins' /\ AnsweredAtEnd'
    BY <1>2, TagsKeep DEF IInv, PadAdded, handler
  <2>2. TypeOK' /\ AbortNeedsRace' /\ (peer' # NULL => saw'[peer'] = "free")
    BY <1>2 DEF IInv, TypeOK, AbortNeedsRace, PadAdded, handler
  <2> QED BY <2>1, <2>2 DEF IInv
<1>3. ASSUME NEW p \in Pads, PadLink(p) PROVE IInv'
  <2>1. LastListWins' /\ AnsweredAtEnd'
    BY <1>3, TagsKeep DEF IInv, PadLink, handler
  <2>2. saw[p] = "free" /\ saw' = saw /\ peer # p /\ (peer = NULL \/ saw[peer] = "free")
    BY <1>3 DEF IInv, PadLink, WillLink
  <2>3. TypeOK' /\ AbortNeedsRace' /\ (peer' # NULL => saw'[peer'] = "free")
    BY <1>3, <2>2 DEF IInv, TypeOK, AbortNeedsRace, PadLink, handler
  <2> QED BY <2>1, <2>3 DEF IInv
<1>4. CASE UNCHANGED vars
  <2>1. LastListWins' /\ AnsweredAtEnd'
    BY <1>4, TagsKeep DEF IInv, vars
  <2> QED BY <1>4, <2>1 DEF IInv, TypeOK, AbortNeedsRace, vars
<1> QED BY <1>1, <1>2, <1>3, <1>4, PostKeeps, TakeTagKeeps, TakeEndKeeps DEF Next, Handler

(* The invariant holds in every state of a TAGS request.                   *)
THEOREM Invariance == Spec => []IInv
<1> QED BY InitIInv, NextIInv, PTL DEF Spec

(* The table has for each entry what the last message that had it said     *)
(* (gst-util.c:28-64).                                                     *)
THEOREM LastWins == Spec => []LastListWins
<1>1. IInv => LastListWins
  BY DEF IInv
<1> QED BY <1>1, Invariance, PTL

(* The answer is made at the first message that is not of tags, from all   *)
(* tags before it (play.c:276-307).                                        *)
THEOREM AnswerComplete == Spec => []AnsweredAtEnd
<1>1. IInv => AnsweredAtEnd
  BY DEF IInv
<1> QED BY <1>1, Invariance, PTL

(* Only two pads that are announced at once can abort the daemon           *)
(* (play.c:245-249).                                                       *)
THEOREM AbortIsRace == Spec => []AbortNeedsRace
<1>1. IInv => AbortNeedsRace
  BY DEF IInv
<1> QED BY <1>1, Invariance, PTL
=============================================================================
