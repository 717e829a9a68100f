-------------------------- MODULE TableTextProofs ---------------------------
(***************************************************************************)
(* For every table of any size: the buffer of util_hash_table_as_string is *)
(* large enough, as what the second pass prints is what the first has      *)
(* measured; what it prints is the whole table; and from it, each entry    *)
(* can be told again.                                                      *)
(***************************************************************************)
EXTENDS TableText, SequenceLemmas, FiniteSetTheorems, TLAPS

LEMMA EntryType ==
  ASSUME NEW t \in Tables, table = t, NEW k \in DOMAIN t
  PROVE  /\ Entry(k) \in Seq(Chars) /\ EntryLength(k) \in Nat
         /\ Len(Entry(k)) = EntryLength(k)
<1> DEFINE key == KeyText(k)
<1>1. k.tag \in Seq(Chars) /\ k.index \in Seq(Chars) /\ t[k] \in Seq(Chars)
  <2>1. Digits \cup Others \cup {"underscore"} \subseteq Chars /\ Digits \subseteq Chars
    BY DEF Chars
  <2>2. /\ k.tag \in Seq(Digits \cup Others \cup {"underscore"}) /\ k.index \in Seq(Digits)
        /\ t[k] \in Seq(Chars)
    BY TableAssumption DEF Texts
  <2>3. k.tag \in Seq(Chars)
    BY <2>1, <2>2, SeqMonotonic
  <2>4. k.index \in Seq(Chars)
    BY <2>1, <2>2, SeqMonotonic
  <2> QED BY <2>2, <2>3, <2>4
<1>2. key \in Seq(Chars) /\ Len(key) \in Nat
  <2>1. <<"underscore">> \in Seq(Chars)
    BY DEF Chars
  <2>2. k.tag \o <<"underscore">> \in Seq(Chars)
    BY <1>1, <2>1, ConcatProperties
  <2>3. (k.tag \o <<"underscore">>) \o k.index \in Seq(Chars)
    BY <1>1, <2>2, ConcatProperties
  <2> QED BY <2>3, LenProperties DEF KeyText
<1>3. <<"newline">> \in Seq(Chars) /\ Len(<<"newline">>) = 1
  BY DEF Chars
<1>4. Len(key \o <<"newline">>) = Len(key) + 1 /\ key \o <<"newline">> \in Seq(Chars)
  BY <1>2, <1>3
<1>5. Len(key \o <<"newline">> \o t[k]) = Len(key) + 1 + Len(t[k])
      /\ key \o <<"newline">> \o t[k] \in Seq(Chars) /\ Len(t[k]) \in Nat
  BY <1>1, <1>2, <1>4
<1> HIDE DEF key
<1>6. /\ Len(key \o <<"newline">> \o t[k] \o <<"newline">>) = Len(key) + 1 + Len(t[k]) + 1
      /\ key \o <<"newline">> \o t[k] \o <<"newline">> \in Seq(Chars)
  BY <1>3, <1>5
<1>7. Entry(k) = key \o <<"newline">> \o t[k] \o <<"newline">>
      /\ EntryLength(k) = Len(key) + Len(t[k]) + 2
  BY DEF Entry, EntryLength, key
<1> QED BY <1>2, <1>5, <1>6, <1>7

(* The lengths of the first n entries of the walk, added up by f.          *)
Adds(f, n) ==
  /\ f \in [0..n -> Nat] /\ f[0] = 0
  /\ \A i \in 0..n - 1 : f[i + 1] = f[i] + EntryLength(order[i + 1])
  /\ \A i, j \in 0..n : i <= j => f[i] <= f[j]

(* The inductive invariant: the passes walk the same entries, the first    *)
(* has added up those behind it, and the second has printed those.         *)
Walks ==
  /\ pc \in {"measure", "print", "reply", "read"}
  /\ table \in Tables /\ order \in Seq(DOMAIN table) /\ at \in 0..Len(order)

Sized ==
  /\ pc = "measure" => \E f : Adds(f, at) /\ bufsize = 4 + f[at]
  /\ pc # "measure" =>
       /\ \E f : Adds(f, Len(order)) /\ bufsize = 4 + f[Len(order)] /\ iter = f[at]
       /\ Len(buf) = bufsize

SizeInv == Walks /\ Sized

LEMMA InitSizeInv == Init => SizeInv
<1> SUFFICES ASSUME Init PROVE SizeInv
  OBVIOUS
<1>1. IsFiniteSet(DOMAIN table) /\ Cardinality(DOMAIN table) \in Nat
  BY TableAssumption, FS_CardinalityType DEF Init
<1>2. order \in Seq(DOMAIN table)
  BY <1>1 DEF Init, SetToSeqs
<1>3. Walks
  BY <1>2 DEF Init, Walks
<1>4. Adds([i \in 0..0 |-> 0], 0)
  BY DEF Adds
<1>5. Sized
  <2> DEFINE g == [i \in 0..0 |-> 0]
  <2>1. Adds(g, at) /\ bufsize = 4 + g[at] /\ pc = "measure"
    BY <1>4 DEF Init
  <2> QED BY <2>1 DEF Sized
<1> QED BY <1>3, <1>5 DEF SizeInv

(* Measuring an entry keeps the invariant of the sizes.                    *)
LEMMA MeasureKeeps ==
  ASSUME SizeInv, Measure
  PROVE  SizeInv'
<1>1. /\ table' = table /\ order' = order /\ pc = "measure" /\ pc' = "measure"
      /\ at \in 0..Len(order) /\ at < Len(order) /\ at' = at + 1
      /\ table \in Tables /\ order \in Seq(DOMAIN table)
  BY DEF SizeInv, Walks, Measure
<1>2. order[at + 1] \in DOMAIN table
  BY <1>1
<1> DEFINE n == EntryLength(order[at + 1])
<1>3. n \in Nat
  BY <1>1, <1>2, EntryType
<1>4. PICK f : Adds(f, at) /\ bufsize = 4 + f[at]
  BY <1>1 DEF SizeInv, Sized
<1> HIDE DEF n
<1> DEFINE g == [i \in 0..at + 1 |-> IF i = at + 1 THEN f[at] + n ELSE f[i]]
<1>5. Adds(g, at + 1)
  <2>1. f \in [0..at -> Nat] /\ at \in Nat /\ \A i \in 0..at : f[i] <= f[at]
    BY <1>1, <1>4 DEF Adds
  <2>2. g \in [0..at + 1 -> Nat] /\ g[0] = 0
    BY <1>3, <1>4, <2>1 DEF Adds
  <2>3. \A i \in 0..at : g[i] = f[i]
    BY <2>1
  <2>4. g[at + 1] = f[at] + n
    BY <2>1
  <2>5. ASSUME NEW i \in 0..at PROVE g[i + 1] = g[i] + EntryLength(order[i + 1])
    <3>1. CASE i = at
      BY <2>3, <2>4, <3>1 DEF n
    <3>2. CASE i # at
      BY <1>4, <2>1, <2>3, <3>2 DEF Adds
    <3> QED BY <3>1, <3>2
  <2>6. ASSUME NEW i \in 0..at + 1, NEW j \in 0..at + 1, i <= j PROVE g[i] <= g[j]
    <3>1. CASE j = at + 1
      BY <1>3, <2>1, <2>3, <2>4, <3>1
    <3>2. CASE j # at + 1
      BY <1>4, <2>1, <2>3, <2>6, <3>2 DEF Adds
    <3> QED BY <3>1, <3>2
  <2> HIDE DEF g
  <2> QED BY <2>1, <2>2, <2>5, <2>6 DEF Adds
<1>6. bufsize' = 4 + g[at + 1]
  <2>1. bufsize' = bufsize + n
    BY DEF Measure, n
  <2>2. f[at] \in Nat /\ g[at + 1] = f[at] + n
    BY <1>1, <1>4 DEF Adds
  <2> QED BY <1>3, <1>4, <2>1, <2>2
<1> HIDE DEF g
<1>7. PICK h : Adds(h, at + 1) /\ bufsize' = 4 + h[at + 1]
  BY <1>5, <1>6
<1>8. Adds(h, at)'
  BY <1>1, <1>7 DEF Adds, EntryLength
<1> QED BY <1>1, <1>7, <1>8 DEF SizeInv, Walks, Sized

(* So does making the buffer, which fits what was measured.                *)
LEMMA AllocateKeeps ==
  ASSUME SizeInv, Allocate
  PROVE  SizeInv'
<1>1. /\ table' = table /\ order' = order /\ bufsize' = bufsize /\ at = Len(order)
      /\ pc = "measure" /\ pc' = "print" /\ at' = 0 /\ iter' = 0
      /\ buf' = [i \in 1..bufsize |-> "nul"]
      /\ table \in Tables /\ order \in Seq(DOMAIN table)
  BY DEF SizeInv, Walks, Allocate
<1>2. PICK f : Adds(f, Len(order)) /\ bufsize = 4 + f[Len(order)]
  BY <1>1 DEF SizeInv, Sized
<1>3. Len(order) \in Nat /\ bufsize \in Nat /\ f[0] = 0
  BY <1>1, <1>2 DEF Adds
<1>4. Len(buf') = bufsize'
  BY <1>1, <1>3
<1>5. Adds(f, Len(order))'
  BY <1>1, <1>2 DEF Adds, EntryLength
<1> QED BY <1>1, <1>2, <1>3, <1>4, <1>5 DEF SizeInv, Walks, Sized

(* There is room for an entry and the NUL behind it, as the entries up to  *)
(* it are no longer than all of them.                                      *)
LEMMA WriteKeeps ==
  ASSUME SizeInv, Write
  PROVE  SizeInv'
<1>1. /\ table' = table /\ order' = order /\ bufsize' = bufsize
      /\ pc = "print" /\ pc' = "print" /\ at < Len(order) /\ at' = at + 1
      /\ at \in 0..Len(order) /\ table \in Tables /\ order \in Seq(DOMAIN table)
  BY DEF SizeInv, Walks, Write
<1>2. order[at + 1] \in DOMAIN table
  BY <1>1
<1> DEFINE n == EntryLength(order[at + 1])
<1>3. n \in Nat /\ Len(Entry(order[at + 1])) = n
  BY <1>1, <1>2, EntryType
<1>4. PICK f : Adds(f, Len(order)) /\ bufsize = 4 + f[Len(order)] /\ iter = f[at]
  BY <1>1 DEF SizeInv, Sized
<1>5. Len(buf) = bufsize
  BY <1>1 DEF SizeInv, Sized
<1>6. f[at + 1] = f[at] + n /\ f[at + 1] <= f[Len(order)]
  <2>1. at \in 0..Len(order) - 1 /\ at + 1 \in 0..Len(order) /\ Len(order) \in 0..Len(order)
    BY <1>1
  <2> QED BY <1>4, <2>1 DEF Adds
<1>7. f[at] \in Nat /\ f[Len(order)] \in Nat
  BY <1>1, <1>4 DEF Adds
<1>8. iter' = f[at + 1]
  BY <1>3, <1>4, <1>6 DEF Write, Advance
<1>9. Len(buf') = bufsize'
  <2> DEFINE line == Entry(order[at + 1]) \o <<"nul">>
  <2>1. Len(line) = n + 1
    <3>1. Entry(order[at + 1]) \in Seq(Chars)
      BY <1>1, <1>2, EntryType
    <3> QED BY <1>3, <3>1
  <2>2. iter + Len(line) <= Len(buf) /\ Len(buf) \in Nat
    BY <1>3, <1>4, <1>5, <1>6, <1>7, <2>1
  <2> HIDE DEF line
  <2>3. buf' = [i \in 1..Len(buf) |-> IF i - iter \in DOMAIN line THEN line[i - iter] ELSE buf[i]]
    <3>1. ~(iter + Len(line) > Len(buf))
      BY <1>3, <1>4, <1>7, <2>1, <2>2
    <3> QED BY <3>1 DEF Write, Written, line
  <2> QED BY <1>1, <1>5, <2>2, <2>3
<1>10. Adds(f, Len(order))'
  BY <1>1, <1>4 DEF Adds, EntryLength
<1> QED BY <1>1, <1>4, <1>8, <1>9, <1>10 DEF SizeInv, Walks, Sized

(* Every step keeps the invariant of the sizes.                            *)
LEMMA NextSizeInv == SizeInv /\ [Next]_vars => SizeInv'
<1> SUFFICES ASSUME SizeInv, [Next]_vars PROVE SizeInv'
  OBVIOUS
<1>1. CASE Reply \/ Read \/ UNCHANGED vars
  <2>1. /\ UNCHANGED <<table, order, at, bufsize, buf, iter>>
        /\ pc' \in {"measure", "print", "reply", "read"}
        /\ pc' = "measure" <=> pc = "measure"
    BY <1>1 DEF SizeInv, Walks, Reply, Read, vars
  <2>2. \A f, n : Adds(f, n)' <=> Adds(f, n)
    BY <2>1 DEF Adds, EntryLength
  <2> QED BY <2>1, <2>2 DEF SizeInv, Walks, Sized
<1> QED BY <1>1, MeasureKeeps, AllocateKeeps, WriteKeeps DEF Next

(* Whatever the table, nothing is printed past the end of the buffer, the  *)
(* terminating NUL included (utility.c:86-112).                            *)
THEOREM Fits == Spec => []NothingPastEnd
<1>1. SizeInv => NothingPastEnd
  BY DEF SizeInv, Sized, NothingPastEnd
<1> QED BY <1>1, InitSizeInv, NextSizeInv, PTL DEF Spec

-----------------------------------------------------------------------------
(* Lines' recursive function.                                              *)
LineUp(f, t) ==
  /\ f[0] = <<>>
  /\ \A i \in 1..Len(t) : f[i] = WithChar(f[i - 1], t[i])

LEMMA WithCharType ==
  ASSUME NEW S, NEW ls \in Seq(Seq(S)), NEW c \in S
  PROVE  /\ WithChar(ls, c) \in Seq(Seq(S)) /\ WithChar(ls, c) # <<>>
         /\ Last(WithChar(ls, c)) \in Seq(S) /\ Last(WithChar(ls, c)) # <<>>
         /\ Last(Last(WithChar(ls, c))) = c
<1> DEFINE V == Seq(S)  new == ls = <<>> \/ Last(Last(ls)) = "newline"
           a == IF new THEN ls ELSE Front(ls)
           b == IF new THEN <<c>> ELSE Append(Last(ls), c)
<1>1. WithChar(ls, c) = Append(a, b)
  BY DEF WithChar
<1>2. a \in Seq(V) /\ b \in V /\ b # <<>> /\ Last(b) = c
  <2>1. CASE new
    <3>1. <<c>> \in Seq(S) /\ Len(<<c>>) = 1 /\ <<c>>[1] = c /\ <<c>> # <<>>
      OBVIOUS
    <3> QED BY <2>1, <3>1 DEF Last
  <2>2. CASE ~new
    <3>1. Last(ls) \in V /\ Front(ls) \in Seq(V)
      BY <2>2, FrontLast
    <3>2. Last(ls) \in Seq(S)
      BY <3>1
    <3> DEFINE l == Last(ls)
    <3> HIDE DEF l
    <3>3. l \in Seq(S)
      BY <3>2 DEF l
    <3>4. Append(l, c) \in Seq(S) /\ Append(l, c) # <<>> /\ Last(Append(l, c)) = c
      BY <3>3, LastOfAppend
    <3>5. a = Front(ls) /\ b = Append(l, c)
      BY <2>2 DEF l
    <3> QED BY <3>1, <3>4, <3>5
  <2> QED BY <2>1, <2>2
<1> HIDE DEF a, b, V
<1>3. Append(a, b) \in Seq(V) /\ Append(a, b) # <<>> /\ Last(Append(a, b)) = b
  BY <1>2, LastOfAppend
<1> QED BY <1>1, <1>2, <1>3 DEF V

(* Lines follows such a function.                                          *)
LEMMA LinesIs ==
  ASSUME NEW S, NEW t \in Seq(S)
  PROVE  \E f \in [0..Len(t) -> Seq(Seq(S))] : LineUp(f, t) /\ Lines(t) = f[Len(t)]
<1> DEFINE n == Len(t)  V == Seq(Seq(S))
           step == [p \in V \X (1..n) |-> WithChar(p[1], t[p[2]])]
           P(f) == f = [i \in 0..n |-> IF i = 0 THEN <<>> ELSE WithChar(f[i - 1], t[i])]
           upTo == CHOOSE f : P(f)
<1>1. n \in Nat /\ \A i \in 1..n : t[i] \in S
  BY LenProperties, ElementOfSeq
<1>2. \A v \in V, i \in 1..n : WithChar(v, t[i]) \in V
  BY <1>1, WithCharType
<1>3. <<>> \in V
  BY EmptySeq
<1>4. \A v \in V, i \in 1..n : step[<<v, i>>] = WithChar(v, t[i])
  OBVIOUS
<1> DEFINE b == <<>>
<1>5. PICK f : f \in [0..n -> V] /\ Recurs(f, b, step, n)
  <2> HIDE DEF step, V, b
  <2>1. \A v \in V, i \in 1..n : step[<<v, i>>] \in V
    BY <1>2, <1>4
  <2>2. b \in V
    BY <1>3 DEF b
  <2>3. n \in Nat
    BY <1>1
  <2> QED BY <2>1, <2>2, <2>3, Recursion
<1> HIDE DEF step, V
<1>6. \A i \in 1..n : f[i] = WithChar(f[i - 1], t[i])
  <2> TAKE i \in 1..n
  <2>1. f[i - 1] \in V
    BY <1>5
  <2> QED BY <1>4, <1>5, <2>1 DEF Recurs
<1>7. P(f)
  <2>1. \A i \in 0..n : f[i] = IF i = 0 THEN <<>> ELSE WithChar(f[i - 1], t[i])
    BY <1>5, <1>6 DEF Recurs
  <2>2. f = [i \in 0..n |-> f[i]]
    BY <1>5
  <2> QED BY <2>1, <2>2
<1>8. P(upTo)
  BY <1>7
<1>9. /\ upTo = [i \in 0..n |-> upTo[i]] /\ upTo[0] = <<>>
      /\ \A i \in 1..n : upTo[i] = WithChar(upTo[i - 1], t[i])
  <2> HIDE DEF upTo
  <2>1. /\ upTo = [i \in 0..n |-> upTo[i]]
        /\ \A i \in 0..n : upTo[i] = IF i = 0 THEN <<>> ELSE WithChar(upTo[i - 1], t[i])
    BY <1>8
  <2> QED BY <1>1, <2>1
<1>10. Lines(t) = upTo[n]
  BY DEF Lines
<1> HIDE DEF upTo
<1>11. \A i \in 0..n : upTo[i] = f[i]
  <2>1. upTo[0] = f[0] /\ \A i \in 1..n : upTo[i - 1] = f[i - 1] => upTo[i] = f[i]
    BY <1>5, <1>6, <1>9 DEF Recurs
  <2> QED BY <1>1, <2>1, SameRecursion
<1>12. n \in 0..n
  BY <1>1
<1> QED BY <1>5, <1>6, <1>10, <1>11, <1>12 DEF LineUp, V, Recurs

(* Thus the lines of a text grow with it.                                  *)
LEMMA LinesEmpty == Lines(<<>>) = <<>>
<1>1. PICK h : LineUp(h, <<>>) /\ Lines(<<>>) = h[0]
  <2>1. <<>> \in Seq({}) /\ Len(<<>>) = 0
    BY EmptySeq
  <2> QED BY <2>1, LinesIs
<1> QED BY <1>1 DEF LineUp

(* So lines can be followed character by character.                        *)
LEMMA LinesStep ==
  ASSUME NEW S, NEW t \in Seq(S), NEW c \in S
  PROVE  /\ Lines(t) \in Seq(Seq(S))
         /\ Lines(Append(t, c)) = WithChar(Lines(t), c)
<1> DEFINE tc == Append(t, c)  n == Len(t)
<1>1. n \in Nat /\ tc \in Seq(S) /\ Len(tc) = n + 1 /\ tc[n + 1] = c
      /\ \A i \in 1..n : tc[i] = t[i]
  BY LenProperties, AppendProperties
<1>2. PICK f : f \in [0..n -> Seq(Seq(S))] /\ LineUp(f, t) /\ Lines(t) = f[n]
  BY LinesIs
<1> HIDE DEF tc
<1>3. PICK g : LineUp(g, tc) /\ Lines(tc) = g[n + 1]
  BY <1>1, LinesIs
<1>4. f[0] = g[0] /\ \A i \in 1..n : f[i - 1] = g[i - 1] => f[i] = g[i]
  <2>1. \A i \in 1..n : i \in 1..n + 1
    BY <1>1
  <2>2. \A i \in 1..n : g[i] = WithChar(g[i - 1], t[i])
    BY <1>1, <1>3, <2>1 DEF LineUp
  <2> QED BY <1>2, <1>3, <2>2 DEF LineUp
<1>5. f[n] = g[n]
  <2>1. n \in Nat
    BY <1>1
  <2>2. \A i \in 0..n : f[i] = g[i]
    BY <1>4, <2>1, SameRecursion
  <2> QED BY <2>1, <2>2
<1>6. g[n + 1] = WithChar(g[n], c)
  <2>1. n + 1 \in 1..n + 1 /\ (n + 1) - 1 = n
    BY <1>1
  <2>2. g[n + 1] = WithChar(g[(n + 1) - 1], tc[n + 1])
    BY <1>1, <1>3, <2>1 DEF LineUp
  <2> QED BY <1>1, <2>1, <2>2
<1>7. f[n] \in Seq(Seq(S))
  BY <1>1, <1>2
<1> QED BY <1>2, <1>3, <1>5, <1>6, <1>7 DEF tc

(* Lines are sequences over the same characters.                           *)
LEMMA LinesType ==
  ASSUME NEW S, NEW t \in Seq(S)
  PROVE  Lines(t) \in Seq(Seq(S))
<1>1. PICK f : f \in [0..Len(t) -> Seq(Seq(S))] /\ Lines(t) = f[Len(t)]
  BY LinesIs
<1>2. Len(t) \in 0..Len(t)
  BY LenProperties
<1> QED BY <1>1, <1>2

(* The last line ends where the text does.                                 *)
LEMMA LinesLast ==
  ASSUME NEW S, NEW t \in Seq(S), t # <<>>
  PROVE  /\ Lines(t) \in Seq(Seq(S)) /\ Lines(t) # <<>>
         /\ Last(Lines(t)) # <<>> /\ Last(Last(Lines(t))) = Last(t)
<1>1. PICK f \in Seq(S), c \in S : t = Append(f, c)
  BY SequenceEmptyOrAppend
<1>2. Lines(f) \in Seq(Seq(S)) /\ Lines(t) = WithChar(Lines(f), c)
  BY <1>1, LinesStep
<1>3. Last(t) = c
  BY <1>1, LastOfAppend
<1> DEFINE ls == Lines(f)
<1> HIDE DEF ls
<1>4. /\ WithChar(ls, c) \in Seq(Seq(S)) /\ WithChar(ls, c) # <<>>
      /\ Last(WithChar(ls, c)) # <<>> /\ Last(Last(WithChar(ls, c))) = c
  <2>1. ls \in Seq(Seq(S))
    BY <1>2 DEF ls
  <2> QED BY <2>1, WithCharType
<1> QED BY <1>2, <1>3, <1>4 DEF ls

(* A text that begins a line has its lines wherever it is.                 *)
Ended(t) == t = <<>> \/ Last(t) = "newline"

LEMMA LinesJoin ==
  ASSUME NEW S, NEW s \in Seq(S), NEW t \in Seq(S), Ended(s)
  PROVE  Lines(s \o t) = Lines(s) \o Lines(t)
<1> DEFINE V == Seq(S)  h(n) == SubSeq(t, 1, n)
           T == {n \in Nat : n <= Len(t) => Lines(s \o h(n)) = Lines(s) \o Lines(h(n))}
<1>1. Lines(s) \in Seq(V)
  BY LinesType
<1>2. 0 \in T
  <2>1. h(0) = <<>> /\ s \o <<>> = s /\ Lines(<<>>) = <<>>
    <3>1. h(0) = <<>>
      BY SubSeqEmpty
    <3> QED BY <3>1, ConcatEmptySeq, LinesEmpty
  <2> DEFINE ls == Lines(s)
  <2> HIDE DEF ls, V
  <2>2. ls \o <<>> = ls
    BY <1>1, ConcatEmptySeq DEF ls
  <2>3. Lines(s \o h(0)) = Lines(s) \o Lines(h(0))
    BY <2>1, <2>2 DEF ls
  <2> QED BY <2>3
<1>3. ASSUME NEW n \in Nat, n \in T PROVE n + 1 \in T
  <2>1. ASSUME n < Len(t) PROVE Lines(s \o h(n + 1)) = Lines(s) \o Lines(h(n + 1))
    <3> DEFINE c == t[n + 1]  a == Lines(s)  b == Lines(h(n))
    <3>1. h(n) \in Seq(S) /\ h(n + 1) = Append(h(n), c) /\ c \in S /\ Len(h(n)) = n
      BY <2>1, OneMore
    <3>2. n <= Len(t)
      BY <2>1, LenProperties
    <3>3. Lines(s \o h(n)) = a \o b
      BY <1>3, <3>2
    <3>4. s \o h(n) \in Seq(S) /\ s \o h(n + 1) = Append(s \o h(n), c)
      <4>1. AppendsTo(s, h(n), c)
        BY <3>1, AppendToConcat
      <4>2. Append(s \o h(n), c) = s \o Append(h(n), c)
        BY <4>1 DEF AppendsTo
      <4>3. s \o h(n) \in Seq(S)
        BY <3>1, ConcatProperties
      <4> HIDE DEF h, c
      <4> QED BY <3>1, <4>2, <4>3
    <3>5. Lines(s \o h(n + 1)) = WithChar(a \o b, c)
      BY <3>1, <3>3, <3>4, LinesStep
    <3>6. Lines(h(n + 1)) = WithChar(b, c) /\ b \in Seq(V)
      BY <3>1, LinesStep
    <3>7. CASE n = 0
      <4>1. h(n) = <<>>
        BY <3>1, <3>7, EmptySeq
      <4>2. b = <<>> /\ a \o b = a
        <5>1. b = <<>>
          BY <4>1, LinesEmpty
        <5> HIDE DEF a, V
        <5>2. a \o <<>> = a
          BY <1>1, ConcatEmptySeq DEF a
        <5> QED BY <5>1, <5>2
      <4>3. a = <<>> \/ Last(Last(a)) = "newline"
        <5>1. s = <<>> => a = <<>>
          BY LinesEmpty
        <5>2. s # <<>> => Last(Last(a)) = Last(s)
          BY LinesLast
        <5> QED BY <5>1, <5>2 DEF Ended
      <4>4. WithChar(a, c) = Append(a, <<c>>) /\ WithChar(b, c) = <<<<c>>>>
        <5> HIDE DEF a, b, c
        <5>1. WithChar(a, c) = Append(a, <<c>>)
          BY <4>3 DEF WithChar
        <5>2. WithChar(b, c) = Append(<<>>, <<c>>)
          BY <4>2 DEF WithChar
        <5> QED BY <5>1, <5>2
      <4>5. Append(a, <<c>>) = a \o <<<<c>>>>
        <5>1. <<c>> \in V
          BY <3>1
        <5> HIDE DEF a, V
        <5> QED BY <1>1, <5>1, AppendIsConcat DEF a
      <4> QED BY <3>5, <3>6, <4>2, <4>4, <4>5
    <3>8. CASE n # 0
      <4>1. h(n) # <<>>
        BY <3>1, <3>8, EmptySeq
      <4>2. b # <<>>
        BY <3>1, <4>1, LinesLast
      <4> HIDE DEF a, b, c, h
      <4>3. a \o b # <<>> /\ Last(a \o b) = Last(b) /\ Front(a \o b) = a \o Front(b)
        <5>1. a \in Seq(V)
          BY <1>1 DEF a
        <5> HIDE DEF V
        <5> QED BY <3>6, <4>2, <5>1, LastOfConcat
      <4>4. CASE Last(Last(b)) = "newline"
        <5>1. WithChar(a \o b, c) = Append(a \o b, <<c>>) /\ WithChar(b, c) = Append(b, <<c>>)
          BY <4>2, <4>3, <4>4 DEF WithChar
        <5>2. <<c>> \in V /\ a \in Seq(V)
          BY <1>1, <3>1 DEF a
        <5> HIDE DEF V
        <5>3. AppendsTo(a, b, <<c>>)
          BY <3>6, <5>2, AppendToConcat
        <5>4. Append(a \o b, <<c>>) = a \o Append(b, <<c>>)
          BY <5>3 DEF AppendsTo
        <5> QED BY <3>5, <3>6, <5>1, <5>4 DEF a
      <4>5. CASE Last(Last(b)) # "newline"
        <5> DEFINE l == Append(Last(b), c)  f == Front(b)
        <5>1. WithChar(a \o b, c) = Append(a \o f, l) /\ WithChar(b, c) = Append(f, l)
          BY <4>2, <4>3, <4>5 DEF WithChar
        <5>2. f \in Seq(V) /\ l \in V /\ a \in Seq(V)
          <6>1. Last(b) \in Seq(S) /\ Front(b) \in Seq(V)
            BY <3>6, <4>2, FrontLast
          <6> QED BY <1>1, <3>1, <6>1, AppendProperties DEF a
        <5> HIDE DEF V, f, l
        <5>3. AppendsTo(a, f, l)
          BY <5>2, AppendToConcat
        <5>4. Append(a \o f, l) = a \o Append(f, l)
          BY <5>3 DEF AppendsTo
        <5> QED BY <3>5, <3>6, <5>1, <5>4 DEF a
      <4> QED BY <4>4, <4>5
    <3> QED BY <3>7, <3>8
  <2> HIDE DEF h
  <2>2. n + 1 <= Len(t) => Lines(s \o h(n + 1)) = Lines(s) \o Lines(h(n + 1))
    <3>1. Len(t) \in Nat
      BY LenProperties
    <3> QED BY <2>1, <3>1
  <2> QED BY <2>2
<1> HIDE DEF T
<1>4. Len(t) \in T
  <2>1. Len(t) \in Nat
    BY LenProperties
  <2> QED BY <1>2, <1>3, <2>1, Induction
<1>5. h(Len(t)) = t
  BY SubSeqFull
<1>6. Lines(s \o h(Len(t))) = Lines(s) \o Lines(h(Len(t)))
  <2>1. Len(t) <= Len(t)
    BY LenProperties
  <2> HIDE DEF h
  <2> QED BY <1>4, <2>1 DEF T
<1> QED BY <1>5, <1>6

(* A text without a line end, or with one at its end, is one line.         *)
LEMMA LineAlone ==
  ASSUME NEW S, NEW t \in Seq(S), t # <<>>, \A i \in 1..Len(t) - 1 : t[i] # "newline"
  PROVE  Lines(t) = <<t>>
<1> DEFINE h(n) == SubSeq(t, 1, n)
           T == {n \in Nat : n > 0 /\ n <= Len(t) => Lines(h(n)) = <<h(n)>>}
<1>1. Len(t) \in Nat /\ Len(t) > 0
  BY EmptySeq, LenProperties
<1>2. 0 \in T
  OBVIOUS
<1>3. ASSUME NEW n \in Nat, n \in T PROVE n + 1 \in T
  <2>1. ASSUME n < Len(t) PROVE Lines(h(n + 1)) = <<h(n + 1)>>
    <3> DEFINE c == t[n + 1]
    <3>1. h(n) \in Seq(S) /\ h(n + 1) = Append(h(n), c) /\ c \in S /\ Len(h(n)) = n
      BY <2>1, OneMore
    <3>2. Lines(h(n + 1)) = WithChar(Lines(h(n)), c)
      BY <3>1, LinesStep
    <3>3. CASE n = 0
      <4>1. h(n) = <<>> /\ Lines(<<>>) = <<>>
        BY <3>1, <3>3, EmptySeq, LinesEmpty
      <4>2. WithChar(<<>>, c) = <<<<c>>>> /\ Append(<<>>, c) = <<c>>
        BY DEF WithChar
      <4> HIDE DEF h, c
      <4> QED BY <3>1, <3>2, <4>1, <4>2
    <3>4. CASE n # 0
      <4>1. Lines(h(n)) = <<h(n)>>
        <5>1. n > 0 /\ n <= Len(t)
          BY <1>1, <2>1, <3>4
        <5> HIDE DEF h
        <5> QED BY <1>3, <5>1
      <4>2. Last(h(n)) # "newline"
        <5>1. Last(h(n)) = h(n)[n]
          BY <3>1 DEF Last
        <5>2. h(n)[n] = t[n]
          <6>1. \A i \in 1..n : t[i] \in S
            BY <1>1, <2>1, ElementOfSeq
          <6>2. \A i \in 1..n - 1 + 1 : SubSeq(t, 1, n)[i] = t[1 + i - 1]
            BY <6>1, SubSeqProperties
          <6>3. n \in 1..n - 1 + 1 /\ 1 + n - 1 = n
            BY <3>4
          <6> QED BY <6>2, <6>3
        <5>3. n \in 1..Len(t) - 1
          BY <1>1, <2>1, <3>4
        <5> QED BY <5>1, <5>2, <5>3
      <4> DEFINE hn == h(n)
      <4> HIDE DEF hn, c
      <4>3. Last(<<hn>>) = hn /\ Front(<<hn>>) = <<>> /\ <<hn>> # <<>>
        <5>1. Len(<<hn>>) = 1 /\ SubSeq(<<hn>>, 1, 0) = <<>>
          BY SubSeqEmpty
        <5> QED BY <5>1 DEF Last, Front
      <4>4. WithChar(<<hn>>, c) = Append(<<>>, Append(hn, c))
        BY <4>2, <4>3 DEF WithChar, hn
      <4>5. Append(<<>>, Append(hn, c)) = <<Append(hn, c)>>
        OBVIOUS
      <4> QED BY <3>1, <3>2, <4>1, <4>4, <4>5 DEF hn
    <3> QED BY <3>3, <3>4
  <2> HIDE DEF h
  <2>2. n + 1 > 0 /\ n + 1 <= Len(t) => Lines(h(n + 1)) = <<h(n + 1)>>
    BY <1>1, <2>1
  <2> QED BY <2>2
<1> HIDE DEF T
<1>4. Len(t) \in T
  BY <1>1, <1>2, <1>3, Induction
<1>5. h(Len(t)) = t
  BY SubSeqFull
<1> HIDE DEF h
<1>6. Lines(h(Len(t))) = <<h(Len(t))>>
  BY <1>1, <1>4 DEF T
<1> QED BY <1>5, <1>6

-----------------------------------------------------------------------------
(* What the second pass has printed when it has done n entries.            *)
Entries == [i \in DOMAIN order |-> Entry(order[i])]

Text(n) == Joined(Entries, n)

LEMMA EntriesType ==
  ASSUME Walks
  PROVE  /\ Len(order) \in Nat /\ DOMAIN order = 1..Len(order)
         /\ \A i \in 1..Len(order) : /\ order[i] \in DOMAIN table
                                     /\ Entries[i] = Entry(order[i])
                                     /\ Entries[i] \in Seq(Chars)
<1>1. Len(order) \in Nat /\ DOMAIN order = 1..Len(order) /\ table \in Tables
      /\ \A i \in 1..Len(order) : order[i] \in DOMAIN table
  BY LenProperties, ElementOfSeq DEF Walks
<1>2. \A k \in DOMAIN table : Entry(k) \in Seq(Chars)
  BY <1>1, EntryType
<1> QED BY <1>1, <1>2 DEF Entries

(* What is printed is a text.                                              *)
LEMMA TextType ==
  ASSUME Walks, NEW n \in 0..Len(order)
  PROVE  Text(n) \in Seq(Chars) /\ Len(Text(n)) \in Nat
<1>1. n \in Nat /\ \A i \in 1..n : Entries[i] \in Seq(Chars)
  BY EntriesType
<1>2. Text(n) \in Seq(Chars)
  BY <1>1, JoinedType DEF Text
<1> QED BY <1>2, LenProperties

(* The text with the next entry.                                           *)
LEMMA TextStep ==
  ASSUME Walks, NEW n \in Nat, n < Len(order)
  PROVE  Text(n + 1) = Text(n) \o Entry(order[n + 1])
<1>1. \A i \in 1..n + 1 : Entries[i] \in Seq(Chars)
  BY EntriesType
<1>2. Entries[n + 1] = Entry(order[n + 1])
  BY EntriesType
<1> QED BY <1>1, <1>2, JoinedStep DEF Text

(* The text is in the buffer as far as iter, and the rest is NULs; then    *)
(* the client has it, behind the line that says OK.                        *)
Printed ==
  /\ buf \in Seq(Chars \cup {"nul"}) /\ iter = Len(Text(at))
  /\ \A i \in 1..Len(buf) : buf[i] = IF i <= iter THEN Text(at)[i] ELSE "nul"

TextInv ==
  /\ SizeInv
  /\ order \in SetToSeqs(DOMAIN table)
  /\ pc = "measure" => buf = <<>> /\ iter = 0
  /\ pc # "measure" => Printed
  /\ pc \in {"reply", "read"} =>
       at = Len(order) /\ answer = <<"O", "K", "newline">> \o Text(Len(order))
  /\ pc = "read" => result = Understood(Tail(Lines(answer)))

(* There is room for at least the four characters the count begins with.   *)
LEMMA Room ==
  ASSUME SizeInv
  PROVE  /\ bufsize \in Nat /\ bufsize >= 4
         /\ pc # "measure" => iter \in 0..bufsize - 4 /\ Len(buf) = bufsize
<1>1. at \in 0..Len(order) /\ Len(order) \in Nat
  BY LenProperties DEF SizeInv, Walks
<1>2. CASE pc = "measure"
  <2>1. PICK f : Adds(f, at) /\ bufsize = 4 + f[at]
    BY <1>2 DEF SizeInv, Sized
  <2>2. f[at] \in Nat
    BY <1>1, <2>1 DEF Adds
  <2> QED BY <1>2, <2>1, <2>2
<1>3. CASE pc # "measure"
  <2>1. PICK f : Adds(f, Len(order)) /\ bufsize = 4 + f[Len(order)] /\ iter = f[at]
    BY <1>3 DEF SizeInv, Sized
  <2>2. f[at] \in Nat /\ f[Len(order)] \in Nat /\ f[at] <= f[Len(order)]
    BY <1>1, <2>1 DEF Adds
  <2>3. Len(buf) = bufsize
    BY <1>3 DEF SizeInv, Sized
  <2> QED BY <2>1, <2>2, <2>3
<1> QED BY <1>2, <1>3

(* The entries depend on the table and its order alone.                    *)
LEMMA SameEntries ==
  ASSUME table' = table, order' = order
  PROVE  Entries' = Entries
BY DEF Entries, Entry, KeyText

(* Nothing is printed at first.                                            *)
LEMMA InitTextInv == Init => TextInv
BY InitSizeInv DEF Init, TextInv

(* A new buffer has the text of no entry.                                  *)
LEMMA AllocatePrints ==
  ASSUME TextInv, SizeInv', Allocate
  PROVE  TextInv'
<1>1. /\ table' = table /\ order' = order /\ pc' = "print" /\ at' = 0 /\ iter' = 0
      /\ buf' = [i \in 1..bufsize |-> "nul"] /\ bufsize \in Nat
  BY Room DEF Allocate, TextInv
<1>2. Text(at)' = <<>>
  <2>1. Text(0) = <<>>
    BY JoinedZero DEF Text
  <2>2. Text(at)' = Text(0)
    BY <1>1, SameEntries DEF Text
  <2> QED BY <2>1, <2>2
<1>3. Len(buf') = bufsize /\ \A i \in 1..bufsize : buf'[i] = "nul"
  BY <1>1
<1>4. buf' \in Seq(Chars \cup {"nul"})
  BY <1>1
<1>5. Printed'
  <2>1. Len(<<>>) = 0
    OBVIOUS
  <2> QED BY <1>1, <1>2, <1>3, <1>4, <2>1 DEF Printed
<1> QED BY <1>1, <1>5 DEF TextInv

(* Printing an entry behind the text makes it the text of one more.        *)
LEMMA WritePrints ==
  ASSUME TextInv, SizeInv', Write
  PROVE  TextInv'
<1>1. /\ table' = table /\ order' = order /\ pc = "print" /\ pc' = "print" /\ at < Len(order)
      /\ at' = at + 1 /\ at \in Nat /\ Walks /\ at \in 0..Len(order) /\ at + 1 \in 0..Len(order)
  BY EntriesType DEF Write, TextInv, SizeInv, Walks
<1> DEFINE e == Entry(order[at + 1])  line == e \o <<"nul">>  u == Text(at)  v == Text(at + 1)
<1>2. e \in Seq(Chars) /\ Len(e) \in Nat
  <2>1. at + 1 \in 1..Len(order)
    BY <1>1, EntriesType
  <2> QED BY <1>1, <2>1, EntriesType, LenProperties
<1>3. v = u \o e /\ u \in Seq(Chars) /\ Len(u) \in Nat
  BY <1>1, TextStep, TextType
<1>4. iter = Len(u) /\ iter' = Len(u) + Len(e)
      /\ buf \in Seq(Chars \cup {"nul"}) /\ Len(buf) \in Nat
      /\ \A i \in 1..Len(buf) : buf[i] = IF i <= iter THEN u[i] ELSE "nul"
  BY <1>1, LenProperties DEF TextInv, Printed, Write, Advance
<1>5. Len(buf) = bufsize /\ Len(buf') = bufsize' /\ bufsize' = bufsize /\ iter' <= bufsize - 4
  <2>1. Len(buf') = bufsize' /\ iter' \in 0..bufsize' - 4
    <3>1. (SizeInv => (pc # "measure" => iter \in 0..bufsize - 4 /\ Len(buf) = bufsize))'
      BY Room, PTL
    <3> QED BY <1>1, <3>1
  <2> QED BY <1>1, <2>1, Room DEF TextInv, Write
<1>6. Text(at)' = v
  BY <1>1, SameEntries DEF Text
<1>7. Len(line) = Len(e) + 1 /\ \A j \in 1..Len(e) + 1 : line[j] = IF j <= Len(e) THEN e[j] ELSE "nul"
  BY <1>2
<1>8. buf' = [i \in 1..Len(buf) |-> IF i - iter \in DOMAIN line THEN line[i - iter] ELSE buf[i]]
  <2>1. ~(iter + Len(line) > Len(buf))
    BY <1>2, <1>3, <1>4, <1>5, <1>7, Room DEF TextInv
  <2> HIDE DEF line, e
  <2> QED BY <2>1 DEF Write, Written, line, e
<1>9. Len(v) = Len(u) + Len(e) /\ \A i \in 1..Len(u) + Len(e) :
        v[i] = IF i <= Len(u) THEN u[i] ELSE e[i - Len(u)]
  <2> HIDE DEF e, u, v
  <2> QED BY <1>2, <1>3
<1> HIDE DEF e, u, v
<1>10. ASSUME NEW i \in 1..Len(buf)
       PROVE  buf'[i] = IF i <= Len(v) THEN v[i] ELSE "nul"
  <2>1. buf'[i] = IF i - Len(u) \in 1..Len(e) + 1 THEN line[i - Len(u)] ELSE buf[i]
    BY <1>2, <1>4, <1>7, <1>8
  <2> HIDE DEF line
  <2>2. CASE i <= Len(u)
    <3>1. buf'[i] = u[i]
      BY <1>3, <1>4, <2>1, <2>2
    <3> QED BY <1>2, <1>3, <1>9, <2>2, <3>1
  <2>3. CASE i > Len(u) /\ i <= Len(u) + Len(e)
    <3>1. i - Len(u) \in 1..Len(e) + 1 /\ i - Len(u) <= Len(e)
      BY <1>2, <1>3, <2>3
    <3>2. buf'[i] = e[i - Len(u)]
      BY <1>7, <2>1, <3>1
    <3> QED BY <1>2, <1>3, <1>9, <2>3, <3>2
  <2>4. CASE i > Len(u) + Len(e)
    <3>1. buf'[i] = "nul"
      BY <1>2, <1>3, <1>4, <1>7, <2>1, <2>4
    <3> QED BY <1>2, <1>3, <1>9, <2>4, <3>1
  <2> QED BY <1>2, <1>3, <1>4, <2>2, <2>3, <2>4
<1>11. buf' \in Seq(Chars \cup {"nul"})
  <2>1. \A i \in 1..Len(v) : v[i] \in Chars
    <3>1. v \in Seq(Chars)
      BY <1>1, TextType DEF v
    <3> QED BY <3>1, ElementOfSeq
  <2>2. \A i \in 1..Len(buf) : buf'[i] \in Chars \cup {"nul"}
    <3> TAKE i \in 1..Len(buf)
    <3>1. i \in Nat /\ i >= 1 /\ Len(v) \in Nat
      BY <1>2, <1>3, <1>4, <1>9
    <3>2. i <= Len(v) => v[i] \in Chars
      BY <2>1, <3>1
    <3> QED BY <1>10, <3>2
  <2>3. buf' \in [1..Len(buf) -> Chars \cup {"nul"}]
    BY <1>8, <2>2
  <2> QED BY <1>4, <2>3, SeqDef
<1>12. Printed'
  <2>1. /\ iter' = Len(Text(at)') /\ Len(buf') = Len(buf)
        /\ \A i \in 1..Len(buf) : buf'[i] = IF i <= iter' THEN (Text(at)')[i] ELSE "nul"
    BY <1>4, <1>5, <1>6, <1>9, <1>10
  <2> QED BY <1>11, <2>1 DEF Printed
<1>13. (order \in SetToSeqs(DOMAIN table))'
  BY <1>1 DEF TextInv
<1> QED BY <1>1, <1>12, <1>13 DEF TextInv

(* The string ends at the NUL behind the text.                             *)
LEMMA StringIsText ==
  ASSUME TextInv, pc # "measure"
  PROVE  String(buf) = Text(at)
<1>1. Printed /\ Walks
  BY DEF TextInv, SizeInv
<1>2. Len(buf) \in Nat /\ iter + 1 \in 1..Len(buf) /\ iter \in Nat
  BY Room DEF TextInv
<1> DEFINE u == Text(at)
<1>3. u \in Seq(Chars) /\ Len(u) = iter
  BY <1>1, TextType DEF Printed, Walks
<1>4. /\ buf[iter + 1] = "nul" /\ \A i \in 1..iter : i \in 1..Len(buf) /\ buf[i] = u[i]
      /\ buf \in Seq(Chars \cup {"nul"})
  BY <1>1, <1>2 DEF Printed
<1> HIDE DEF u
<1>5. \A i \in 1..iter : u[i] \in Chars
  BY <1>3, ElementOfSeq
<1>6. \A i \in 1..(iter + 1) - 1 : buf[i] # "nul"
  <2>1. (iter + 1) - 1 = iter
    BY <1>2
  <2>2. "nul" \notin Chars
    BY TableAssumption
  <2> QED BY <1>4, <1>5, <2>1, <2>2
<1>7. First(buf, "nul") = iter + 1
  <2> DEFINE n == iter + 1
  <2>1. n \in 1..Len(buf) /\ buf[n] = "nul" /\ \A i \in 1..n - 1 : buf[i] # "nul"
    BY <1>2, <1>4, <1>6
  <2> HIDE DEF n
  <2>2. First(buf, "nul") = n
    BY <1>2, <2>1, FirstAt
  <2> QED BY <2>2 DEF n
<1>8. String(buf) = SubSeq(buf, 1, iter)
  <2>1. (iter + 1) - 1 = iter
    BY <1>2
  <2>2. String(buf) = SubSeq(buf, 1, First(buf, "nul") - 1)
    BY DEF String, First, SelectInSeq
  <2> QED BY <1>7, <2>1, <2>2
<1>9. /\ SubSeq(buf, 1, iter) \in Seq(Chars) /\ Len(SubSeq(buf, 1, iter)) = iter
      /\ \A i \in 1..iter : SubSeq(buf, 1, iter)[i] = u[i]
  <2>1. \A i \in 1..iter : buf[i] \in Chars
    BY <1>4, <1>5
  <2>2. /\ SubSeq(buf, 1, iter) \in Seq(Chars)
        /\ Len(SubSeq(buf, 1, iter)) = IF 1 <= iter THEN iter - 1 + 1 ELSE 0
        /\ \A i \in 1..iter - 1 + 1 : SubSeq(buf, 1, iter)[i] = buf[1 + i - 1]
    BY <1>2, <2>1, SubSeqProperties
  <2> QED BY <1>2, <1>4, <2>2
<1>10. SubSeq(buf, 1, iter) = u
  BY <1>3, <1>9, SeqEqual
<1> QED BY <1>8, <1>10 DEF u

(* Every step keeps the invariant of the text.                             *)
LEMMA NextTextInv == TextInv /\ [Next]_vars => TextInv'
<1> SUFFICES ASSUME TextInv, [Next]_vars PROVE TextInv'
  OBVIOUS
<1>1. SizeInv'
  BY NextSizeInv DEF TextInv
<1>2. CASE Measure
  BY <1>1, <1>2 DEF TextInv, Measure
<1>3. CASE Allocate
  BY <1>1, <1>3, AllocatePrints
<1>4. CASE Write
  BY <1>1, <1>4, WritePrints
<1>5. CASE Reply
  <2>1. /\ UNCHANGED <<table, order, at, bufsize, buf, iter, result>>
        /\ pc = "print" /\ pc' = "reply" /\ at = Len(order)
        /\ answer' = <<"O", "K", "newline">> \o String(buf)
    BY <1>5 DEF Reply
  <2>2. String(buf) = Text(Len(order))
    BY <2>1, StringIsText
  <2>3. Printed' /\ Text(Len(order))' = Text(Len(order))
    BY <2>1, SameEntries DEF TextInv, Printed, Text
  <2> QED BY <1>1, <2>1, <2>2, <2>3 DEF TextInv
<1>6. CASE Read
  <2>1. /\ UNCHANGED <<table, order, at, bufsize, buf, iter, answer>>
        /\ pc = "reply" /\ pc' = "read" /\ result' = Understood(Tail(Lines(answer)))
    BY <1>6 DEF Read
  <2>2. Printed' /\ Text(Len(order))' = Text(Len(order))
    BY <2>1, SameEntries DEF TextInv, Printed, Text
  <2> QED BY <1>1, <2>1, <2>2 DEF TextInv
<1>7. CASE UNCHANGED vars
  <2>1. UNCHANGED <<pc, table, order, at, bufsize, buf, iter, answer, result>>
    BY <1>7 DEF vars
  <2>2. (Printed' <=> Printed) /\ Text(Len(order))' = Text(Len(order))
    BY <2>1, SameEntries DEF Printed, Text
  <2> QED BY <1>1, <2>1, <2>2 DEF TextInv
<1> QED BY <1>2, <1>3, <1>4, <1>5, <1>6, <1>7 DEF Next

(* The buffer holds characters of the table and NULs, and printing goes on *)
(* at a position within it (utility.c:86-112).                             *)
THEOREM TypeCorrect == Spec => []TypeOK
<1>1. TextInv => TypeOK
  <2> SUFFICES ASSUME TextInv PROVE TypeOK
    OBVIOUS
  <2>1. bufsize \in Nat /\ bufsize >= 4 /\ (pc # "measure" => iter \in 0..bufsize - 4)
    BY Room DEF TextInv
  <2>2. iter \in 0..bufsize - 1
    BY <2>1 DEF TextInv
  <2>3. buf \in Seq(Chars \cup {"nul"})
    BY EmptySeq DEF TextInv, Printed
  <2> QED BY <2>1, <2>2, <2>3 DEF TextInv, TypeOK, SizeInv, Walks
<1> QED BY <1>1, InitTextInv, NextTextInv, PTL DEF Spec

(* No NUL stands between the entries of the string in the buffer, and none *)
(* is cut, for any table and order (utility.c:98-112).                     *)
THEOREM WholeTable == Spec => []StringIsTable
<1>1. TextInv => StringIsTable
  <2> SUFFICES ASSUME TextInv, pc = "print", at = Len(order)
               PROVE  String(buf) = FlattenSeq([i \in DOMAIN order |-> Entry(order[i])])
    BY DEF StringIsTable
  <2>1. String(buf) = Text(Len(order))
    BY StringIsText
  <2>2. [i \in 1..Len(order) |-> Entries[i]] = [i \in DOMAIN order |-> Entry(order[i])]
    BY EntriesType DEF TextInv, SizeInv, Entries
  <2> QED BY <2>1, <2>2 DEF Text, Joined
<1> QED BY <1>1, InitTextInv, NextTextInv, PTL DEF Spec

-----------------------------------------------------------------------------
(* A text with the line end that the table prints behind it.               *)
Closed(t) == t \o <<"newline">>

Plain(t) == \A i \in 1..Len(t) : t[i] # "newline"

LEMMA ClosedIs ==
  ASSUME NEW S, "newline" \in S, NEW t \in Seq(S)
  PROVE  /\ Closed(t) \in Seq(S) /\ Closed(t) # <<>> /\ Ended(Closed(t))
         /\ Last(Closed(t)) = "newline" /\ Front(Closed(t)) = t
         /\ Len(t) \in Nat /\ Len(Closed(t)) = Len(t) + 1
         /\ Closed(t)[Len(t) + 1] = "newline"
         /\ \A i \in 1..Len(t) : Closed(t)[i] = t[i]
<1>1. Closed(t) = Append(t, "newline")
  BY AppendIsConcat DEF Closed
<1> DEFINE a == Append(t, "newline")
<1>2. /\ a \in Seq(S) /\ a # <<>> /\ Last(a) = "newline" /\ Front(a) = t
      /\ Len(a) = Len(t) + 1 /\ a[Len(t) + 1] = "newline"
      /\ \A i \in 1..Len(t) : a[i] = t[i]
  BY LastOfAppend, AppendProperties
<1>3. Len(t) \in Nat
  BY LenProperties
<1> HIDE DEF a
<1>4. a = Closed(t)
  BY <1>1 DEF a
<1> QED BY <1>2, <1>3, <1>4 DEF Ended

(* A text without a line end, closed by one, is one line.                  *)
LEMMA ClosedLine ==
  ASSUME NEW S, "newline" \in S, NEW t \in Seq(S), Plain(t)
  PROVE  Lines(Closed(t)) = <<Closed(t)>>
<1> DEFINE c == Closed(t)
<1>1. /\ c \in Seq(S) /\ c # <<>> /\ Len(t) \in Nat /\ Len(c) = Len(t) + 1
      /\ \A i \in 1..Len(t) : c[i] = t[i]
  BY ClosedIs
<1> HIDE DEF c
<1>2. \A i \in 1..Len(c) - 1 : c[i] # "newline"
  BY <1>1 DEF Plain
<1>3. Lines(c) = <<c>>
  BY <1>1, <1>2, LineAlone
<1> QED BY <1>3 DEF c

(* A line end in the text makes more than one line of it.                  *)
LEMMA ClosedLines ==
  ASSUME NEW S, "newline" \in S, NEW t \in Seq(S)
  PROVE  /\ Lines(Closed(t)) \in Seq(Seq(S)) /\ Len(Lines(Closed(t))) \in Nat
         /\ Len(Lines(Closed(t))) >= 1
         /\ ~Plain(t) => Len(Lines(Closed(t))) >= 2
<1> DEFINE V == Seq(S)
<1>1. ASSUME NEW u \in Seq(S), u # <<>>
      PROVE  Lines(u) \in Seq(V) /\ Len(Lines(u)) \in Nat /\ Len(Lines(u)) >= 1
  <2> DEFINE l == Lines(u)
  <2>1. l \in Seq(V) /\ l # <<>>
    BY <1>1, LinesLast
  <2> HIDE DEF l, V
  <2>2. Len(l) \in Nat \ {0}
    BY <2>1, EmptySeq
  <2> QED BY <2>1, <2>2 DEF l
<1>2. Closed(t) \in Seq(S) /\ Closed(t) # <<>> /\ Len(t) \in Nat
  BY ClosedIs
<1>3. ASSUME NEW i \in 1..Len(t), t[i] = "newline" PROVE Len(Lines(Closed(t))) >= 2
  <2> DEFINE a == SubSeq(t, 1, i)  b == Closed(SubSeq(t, i + 1, Len(t)))
  <2>1. a \in Seq(S) /\ Len(a) = i /\ a[i] = "newline"
    <3>1. i - 1 \in Nat /\ i - 1 < Len(t) /\ (i - 1) + 1 = i
      BY <1>2
    <3>2. /\ SubSeq(t, 1, i - 1) \in Seq(S) /\ Len(SubSeq(t, 1, i - 1)) = i - 1
          /\ SubSeq(t, 1, (i - 1) + 1) = Append(SubSeq(t, 1, i - 1), t[(i - 1) + 1])
          /\ t[(i - 1) + 1] \in S
      BY <3>1, OneMore
    <3>3. a = Append(SubSeq(t, 1, i - 1), t[i]) /\ t[i] \in S
      BY <3>1, <3>2
    <3>4. Len(a) = (i - 1) + 1 /\ a[(i - 1) + 1] = t[i] /\ a \in Seq(S)
      BY <3>2, <3>3, AppendProperties
    <3> QED BY <1>3, <3>1, <3>4
  <2>2. a # <<>> /\ Ended(a)
    BY <2>1, EmptySeq DEF Ended, Last
  <2>3. SubSeq(t, i + 1, Len(t)) \in Seq(S)
    <3>1. \A j \in i + 1..Len(t) : t[j] \in S
      <4> TAKE j \in i + 1..Len(t)
      <4>1. j \in 1..Len(t)
        BY <1>2
      <4> QED BY <4>1, ElementOfSeq
    <3> QED BY <1>2, <3>1, SubSeqProperties
  <2>4. b \in Seq(S) /\ b # <<>>
    BY <2>3, ClosedIs
  <2>5. Closed(t) = a \o b
    <3>1. a \o SubSeq(t, i + 1, Len(t)) = t
      <4>1. 1 \in 1..Len(t) + 1 /\ i \in 1 - 1..Len(t) /\ Len(t) \in i..Len(t)
        BY <1>2
      <4>2. a \o SubSeq(t, i + 1, Len(t)) = SubSeq(t, 1, Len(t))
        BY <4>1, ConcatAdjacentSubSeq
      <4> QED BY <4>2, SubSeqFull
    <3> DEFINE r == SubSeq(t, i + 1, Len(t))
    <3> HIDE DEF a, r
    <3>2. r \in Seq(S) /\ <<"newline">> \in Seq(S)
      BY <2>3 DEF r
    <3>3. (a \o r) \o <<"newline">> = a \o (r \o <<"newline">>)
      BY <2>1, <3>2, ConcatAssociative
    <3> QED BY <3>1, <3>3 DEF Closed, r
  <2>6. Lines(Closed(t)) = Lines(a) \o Lines(b)
    <3> HIDE DEF a, b
    <3> QED BY <2>1, <2>2, <2>4, <2>5, LinesJoin
  <2>7. Lines(a) \in Seq(V) /\ Len(Lines(a)) \in Nat /\ Len(Lines(a)) >= 1
    BY <1>1, <2>1, <2>2
  <2>8. Lines(b) \in Seq(V) /\ Len(Lines(b)) \in Nat /\ Len(Lines(b)) >= 1
    BY <1>1, <2>4
  <2> HIDE DEF a, b
  <2> DEFINE la == Lines(a)  lb == Lines(b)
  <2> HIDE DEF la, lb, V
  <2>9. Len(la \o lb) = Len(la) + Len(lb)
    BY <2>7, <2>8, ConcatProperties DEF la, lb
  <2> QED BY <2>6, <2>7, <2>8, <2>9 DEF la, lb
<1> QED BY <1>1, <1>2, <1>3 DEF Plain

-----------------------------------------------------------------------------
(* The key of an entry is a line, and the tag is found in it: the digits   *)
(* behind its last underscore are the index, whatever the tag has in it.   *)
Named(k) ==
  /\ k.tag \in Seq(Digits \cup Others \cup {"underscore"})
  /\ k.index \in Seq(Digits) /\ k.index # <<>>

LEMMA TagOfKey ==
  ASSUME NEW a \in Seq(Digits \cup Others \cup {"underscore"}), NEW b \in Seq(Digits), b # <<>>,
         NEW bar \in Seq(Chars), Len(bar) = 1, bar[1] = "underscore"
  PROVE  /\ (a \o bar) \o b \in Seq(Chars) /\ Plain((a \o bar) \o b)
         /\ Matches((a \o bar) \o b) = {Len(a) + 1} /\ Tag((a \o bar) \o b) = a
<1> DEFINE m == Len(a)  n == Len(b)
<1>1. /\ "underscore" \notin Digits /\ "newline" \notin Digits \cup Others \cup {"underscore"}
      /\ Digits \cup Others \cup {"underscore"} \subseteq Chars /\ Digits \subseteq Chars
  BY TableAssumption DEF Chars
<1>2. a \in Seq(Chars)
  BY <1>1, SeqMonotonic
<1>3. b \in Seq(Chars)
  BY <1>1, SeqMonotonic
<1>4. /\ m \in Nat /\ n \in Nat /\ n # 0
      /\ \A i \in 1..m : a[i] \in Digits \cup Others \cup {"underscore"}
      /\ \A i \in 1..n : b[i] \in Digits
      /\ m = Len(a) /\ n = Len(b)
  <2>1. Len(a) \in Nat /\ Len(b) \in Nat /\ Len(b) # 0
    BY EmptySeq, LenProperties
  <2>2. \A i \in 1..Len(a) : a[i] \in Digits \cup Others \cup {"underscore"}
    BY ElementOfSeq
  <2>3. \A i \in 1..Len(b) : b[i] \in Digits
    BY ElementOfSeq
  <2> QED BY <2>1, <2>2, <2>3
<1> DEFINE key == (a \o bar) \o b
<1> HIDE DEF m, n
<1>5. /\ a \o bar \in Seq(Chars) /\ Len(a \o bar) = m + 1
      /\ \A i \in 1..m + 1 : (a \o bar)[i] = IF i <= m THEN a[i] ELSE bar[i - m]
  <2>1. /\ a \o bar \in Seq(Chars) /\ Len(a \o bar) = Len(a) + Len(bar)
        /\ \A i \in 1..Len(a) + Len(bar) :
             (a \o bar)[i] = IF i <= Len(a) THEN a[i] ELSE bar[i - Len(a)]
    BY <1>2, ConcatProperties
  <2> QED BY <2>1 DEF m
<1>6. /\ key \in Seq(Chars) /\ Len(key) = m + 1 + n
      /\ \A i \in 1..m + 1 + n : key[i] = IF i <= m + 1 THEN (a \o bar)[i] ELSE b[i - (m + 1)]
  <2> DEFINE ab == a \o bar
  <2>1. ab \in Seq(Chars) /\ Len(ab) = m + 1
    BY <1>5
  <2> HIDE DEF ab
  <2>2. /\ ab \o b \in Seq(Chars) /\ Len(ab \o b) = Len(ab) + Len(b)
        /\ \A i \in 1..Len(ab) + Len(b) : (ab \o b)[i] = IF i <= Len(ab) THEN ab[i] ELSE b[i - Len(ab)]
    BY <1>3, <2>1, ConcatProperties
  <2> QED BY <1>4, <2>1, <2>2 DEF ab
<1> HIDE DEF key
<1>7. \A i \in 1..m : key[i] = a[i]
  <2> TAKE i \in 1..m
  <2>1. i \in 1..m + 1 /\ i \in 1..m + 1 + n /\ i <= m /\ i <= m + 1
    BY <1>4
  <2> QED BY <1>5, <1>6, <2>1
<1>8. key[m + 1] = "underscore"
  <2>1. m + 1 \in 1..m + 1 /\ m + 1 \in 1..m + 1 + n /\ ~(m + 1 <= m) /\ (m + 1) - m = 1
    BY <1>4
  <2> QED BY <1>4, <1>5, <1>6, <2>1
<1>9. \A i \in m + 2..m + 1 + n : key[i] \in Digits
  <2> TAKE i \in m + 2..m + 1 + n
  <2>1. i \in 1..m + 1 + n /\ ~(i <= m + 1) /\ i - (m + 1) \in 1..n
    BY <1>4
  <2> QED BY <1>4, <1>6, <2>1
<1>10. Plain(key)
  <2>1. \A i \in 1..m + 1 + n : i \in 1..m \/ i = m + 1 \/ i \in m + 2..m + 1 + n
    BY <1>4
  <2>2. \A i \in 1..m + 1 + n : key[i] # "newline"
    BY <1>1, <1>4, <1>7, <1>8, <1>9, <2>1
  <2> QED BY <1>6, <2>2 DEF Plain
<1>11. Matches(key) = {m + 1}
  <2>0. DOMAIN key = 1..m + 1 + n
    BY <1>6, LenProperties
  <2>1. m + 1 \in Matches(key)
    <3>1. m + 1 \in 1..m + 1 + n /\ (m + 1) + 1 \in m + 2..m + 1 + n
          /\ (m + 1) + 1 \in 1..m + 1 + n /\ (m + 1) + 1 = m + 2
      BY <1>4
    <3> QED BY <1>6, <1>8, <1>9, <2>0, <3>1 DEF Matches
  <2>2. ASSUME NEW i \in Matches(key) PROVE i = m + 1
    <3>1. i \in 1..m + 1 + n /\ key[i] = "underscore" /\ \A j \in i + 1..m + 1 + n : key[j] \in Digits
      BY <1>6, <2>0, <2>2 DEF Matches
    <3>2. ~(i <= m)
      <4>1. i <= m => m + 1 \in i + 1..m + 1 + n
        BY <1>4, <3>1
      <4> QED BY <1>1, <1>8, <3>1, <4>1
    <3>3. i \notin m + 2..m + 1 + n
      BY <1>1, <1>9, <3>1
    <3> QED BY <1>4, <3>1, <3>2, <3>3
  <2> QED BY <2>1, <2>2
<1>12. Tag(key) = a
  <2>1. Underscore(key) = m + 1
    BY <1>11 DEF Underscore
  <2>2. Tag(key) = SubSeq(key, 1, m)
    <3>1. (m + 1) - 1 = m
      BY <1>4
    <3> QED BY <2>1, <3>1 DEF Tag
  <2>3. \A i \in 1..m : key[i] \in Chars
    BY <1>1, <1>4, <1>7
  <2>4. /\ SubSeq(key, 1, m) \in Seq(Chars)
        /\ Len(SubSeq(key, 1, m)) = IF 1 <= m THEN m - 1 + 1 ELSE 0
        /\ \A i \in 1..m - 1 + 1 : SubSeq(key, 1, m)[i] = key[1 + i - 1]
    BY <1>4, <2>3, SubSeqProperties
  <2> DEFINE t == SubSeq(key, 1, m)
  <2>5. t \in Seq(Chars) /\ Len(t) = m /\ \A i \in 1..m : t[i] = a[i]
    BY <1>4, <1>7, <2>4
  <2> HIDE DEF t
  <2>6. t = a
    BY <1>2, <1>4, <2>5, SeqEqual
  <2> QED BY <2>2, <2>6 DEF t
<1> QED BY <1>6, <1>10, <1>11, <1>12 DEF m, key

(* The line of a key is known as one, and gives the tag.                   *)
LEMMA KeyLine ==
  ASSUME NEW k, Named(k)
  PROVE  /\ KeyText(k) \in Seq(Chars) /\ Plain(KeyText(k))
         /\ Key(Closed(KeyText(k))) = KeyText(k)
         /\ Matches(KeyText(k)) # {} /\ Tag(KeyText(k)) = k.tag
<1> DEFINE key == KeyText(k)
<1>1. key \in Seq(Chars) /\ Plain(key) /\ Matches(key) # {} /\ Tag(key) = k.tag
  <2> DEFINE bar == <<"underscore">>
  <2>1. bar \in Seq(Chars) /\ Len(bar) = 1 /\ bar[1] = "underscore"
    BY DEF Chars
  <2> HIDE DEF key, bar
  <2>3. key = (k.tag \o bar) \o k.index
    BY DEF KeyText, key, bar
  <2>2. /\ key \in Seq(Chars) /\ Plain(key)
        /\ Matches(key) = {Len(k.tag) + 1} /\ Tag(key) = k.tag
    BY <2>1, <2>3, TagOfKey DEF Named
  <2> QED BY <2>2
<1> HIDE DEF key
<1>2. Key(Closed(key)) = key
  <2>1. "newline" \in Chars
    BY DEF Chars
  <2>2. Last(Closed(key)) = "newline" /\ Front(Closed(key)) = key
    BY <1>1, <2>1, ClosedIs
  <2> QED BY <2>2 DEF Key
<1> QED BY <1>1, <1>2 DEF key

(* chomp gives the value back, unless the value ends with a CR, which is   *)
(* then taken too.                                                         *)
LEMMA ChompClosed ==
  ASSUME NEW v \in Seq(Chars)
  PROVE  /\ (v # <<>> => Last(v) # "cr") => Chomp(Closed(v)) = v
         /\ ~(v # <<>> => Last(v) # "cr") => Len(Chomp(Closed(v))) = Len(v) - 1
<1> DEFINE c == Closed(v)  n == Len(v)
<1>1. "newline" \in Chars
  BY DEF Chars
<1>2. /\ c \in Seq(Chars) /\ n \in Nat /\ Len(c) = n + 1 /\ c[n + 1] = "newline"
      /\ Front(c) = v /\ \A i \in 1..n : c[i] = v[i]
  BY <1>1, ClosedIs
<1>3. v # <<>> <=> n >= 1
  BY <1>2, EmptySeq
<1>4. Last(v) = v[n]
  BY DEF Last
<1>5. Front(c) = SubSeq(c, 1, n)
  <2>1. Len(c) - 1 = n
    BY <1>2
  <2> HIDE DEF c
  <2> QED BY <2>1 DEF Front
<1> HIDE DEF c
<1>6. CASE n >= 1 /\ v[n] = "cr"
  <2>1. c[n] = "cr" /\ (n + 1) - 1 = n /\ (n + 1) - 2 = n - 1
    BY <1>2, <1>6
  <2>2. Chomp(c) = SubSeq(c, 1, n - 1)
    BY <1>2, <1>6, <2>1 DEF Chomp
  <2>3. Len(SubSeq(c, 1, n - 1)) = n - 1
    <3>1. n - 1 \in Nat /\ n - 1 < Len(c)
      BY <1>2, <1>6
    <3> QED BY <1>2, <3>1, OneMore
  <2> QED BY <1>3, <1>4, <1>6, <2>2, <2>3 DEF c
<1>7. CASE ~(n >= 1 /\ v[n] = "cr")
  <2>1. ~(n + 1 >= 2 /\ c[(n + 1) - 1] = "cr")
    BY <1>2, <1>7
  <2>2. Chomp(c) = SubSeq(c, 1, n)
    <3>1. (n + 1) - 1 = n /\ n + 1 >= 1
      BY <1>2
    <3> QED BY <1>2, <2>1, <3>1 DEF Chomp
  <2> QED BY <1>2, <1>3, <1>4, <1>5, <1>7, <2>2 DEF c
<1> QED BY <1>6, <1>7

-----------------------------------------------------------------------------
(* Collected's recursive function; the dictionaries of tags in T with      *)
(* values in W.                                                            *)
Collects(f, tags, values, n) ==
  /\ f[0] = <<>>
  /\ \A i \in 1..n : f[i] = Added(f[i - 1], tags[i], values[i])

Dicts(T, W) == UNION {[D -> Seq(W)] : D \in SUBSET T}

LEMMA DictIs ==
  ASSUME NEW T, NEW W
  PROVE  /\ <<>> \in Dicts(T, W)
         /\ \A d \in Dicts(T, W) :
              /\ DOMAIN d \subseteq T /\ d = [t \in DOMAIN d |-> d[t]]
              /\ \A t \in DOMAIN d : d[t] \in Seq(W)
<1>1. <<>> \in [{} -> Seq(W)]
  OBVIOUS
<1>2. {} \in SUBSET T
  OBVIOUS
<1>3. <<>> \in Dicts(T, W)
  BY <1>1, <1>2 DEF Dicts
<1> QED BY <1>3 DEF Dicts

(* A dictionary with one more value is a dictionary.                       *)
LEMMA AddedType ==
  ASSUME NEW T, NEW W, NEW d \in Dicts(T, W), NEW t \in T, NEW v \in W
  PROVE  Added(d, t, v) \in Dicts(T, W)
<1> DEFINE D == DOMAIN d \cup {t}
           val(x) == IF x # t THEN d[x]
                     ELSE Append(IF t \in DOMAIN d THEN d[t] ELSE <<>>, v)
<1>1. DOMAIN d \subseteq T /\ \A x \in DOMAIN d : d[x] \in Seq(W)
  BY DictIs
<1>2. Added(d, t, v) = [x \in D |-> val(x)]
  BY DEF Added
<1>3. \A x \in D : val(x) \in Seq(W)
  <2>1. ASSUME NEW s \in Seq(W) PROVE Append(s, v) \in Seq(W)
    BY AppendProperties
  <2>2. <<>> \in Seq(W)
    BY EmptySeq
  <2> QED BY <1>1, <2>1, <2>2
<1>4. [x \in D |-> val(x)] \in [D -> Seq(W)] /\ D \in SUBSET T
  BY <1>1, <1>3
<1>5. [x \in D |-> val(x)] \in Dicts(T, W)
  <2> HIDE DEF D, val
  <2> QED BY <1>4 DEF Dicts
<1> QED BY <1>2, <1>5

(* The n tags and values of a call.                                         *)
Paired(tags, values, n, T, W) ==
  /\ n \in Nat /\ Len(tags) = n
  /\ \A i \in 1..n : tags[i] \in T /\ values[i] \in W

LEMMA CollectedIs ==
  ASSUME NEW T, NEW W, NEW n, NEW tags, NEW values, Paired(tags, values, n, T, W)
  PROVE  \E f : /\ f \in [0..n -> Dicts(T, W)] /\ Collects(f, tags, values, n)
                /\ Collected(tags, values) = f[n]
<1> DEFINE V == Dicts(T, W)
           step == [p \in V \X (1..n) |-> Added(p[1], tags[p[2]], values[p[2]])]
           P(f) == f = [i \in 0..n |-> IF i = 0 THEN <<>> ELSE Added(f[i - 1], tags[i], values[i])]
           upTo == CHOOSE f : P(f)
           b == <<>>
<1>0. n \in Nat /\ \A i \in 1..n : tags[i] \in T /\ values[i] \in W
  BY DEF Paired
<1>1. \A d \in V, i \in 1..n : Added(d, tags[i], values[i]) \in V
  BY <1>0, AddedType
<1>2. b \in V
  BY DictIs
<1>3. \A d \in V, i \in 1..n : step[<<d, i>>] = Added(d, tags[i], values[i])
  OBVIOUS
<1>4. PICK f : f \in [0..n -> V] /\ Recurs(f, b, step, n)
  <2> HIDE DEF step, V, b
  <2>1. \A d \in V, i \in 1..n : step[<<d, i>>] \in V
    BY <1>1, <1>3
  <2> QED BY <1>0, <1>2, <2>1, Recursion
<1> HIDE DEF step, V
<1>5. \A i \in 1..n : f[i] = Added(f[i - 1], tags[i], values[i])
  <2> TAKE i \in 1..n
  <2>1. f[i - 1] \in V
    BY <1>0, <1>4
  <2> QED BY <1>3, <1>4, <2>1 DEF Recurs
<1>6. P(f)
  <2>1. \A i \in 0..n : f[i] = IF i = 0 THEN <<>> ELSE Added(f[i - 1], tags[i], values[i])
    BY <1>0, <1>4, <1>5 DEF Recurs
  <2>2. f = [i \in 0..n |-> f[i]]
    BY <1>4
  <2> QED BY <2>1, <2>2
<1>7. P(upTo)
  BY <1>6
<1>8. upTo[0] = <<>> /\ \A i \in 1..n : upTo[i] = Added(upTo[i - 1], tags[i], values[i])
  <2> HIDE DEF upTo
  <2>1. \A i \in 0..n : upTo[i] = IF i = 0 THEN <<>> ELSE Added(upTo[i - 1], tags[i], values[i])
    BY <1>7
  <2> QED BY <1>0, <2>1
<1>9. Collected(tags, values) = upTo[n]
  BY DEF Collected, Paired
<1> HIDE DEF upTo
<1>10. \A i \in 0..n : upTo[i] = f[i]
  <2>1. upTo[0] = f[0] /\ \A i \in 1..n : upTo[i - 1] = f[i - 1] => upTo[i] = f[i]
    BY <1>0, <1>4, <1>5, <1>8 DEF Recurs
  <2> QED BY <1>0, <2>1, SameRecursion
<1>11. n \in 0..n
  BY <1>0
<1> QED BY <1>4, <1>5, <1>9, <1>10, <1>11 DEF Collects, V, Recurs

(* A dictionary has a place for each value that was put in it.             *)
Places(d) == UNION {{<<t, i>> : i \in 1..Len(d[t])} : t \in DOMAIN d}

LEMMA PlacesIs ==
  ASSUME NEW d, NEW t, NEW i
  PROVE  <<t, i>> \in Places(d) <=> t \in DOMAIN d /\ i \in 1..Len(d[t])
BY DEF Places

(* It has one place more.                                                  *)
LEMMA AddedPlaces ==
  ASSUME NEW T, NEW W, NEW d \in Dicts(T, W), NEW t \in T, NEW v \in W
  PROVE  \E x : x \notin Places(d) /\ Places(Added(d, t, v)) = Places(d) \cup {x}
<1> DEFINE e == Added(d, t, v)  s == IF t \in DOMAIN d THEN d[t] ELSE <<>>
           n == Len(s)  x == <<t, n + 1>>
<1>1. /\ DOMAIN e = DOMAIN d \cup {t} /\ \A y \in DOMAIN d \ {t} : e[y] = d[y]
      /\ e[t] = Append(s, v)
  BY DEF Added
<1>2. s \in Seq(W)
  BY DictIs, EmptySeq
<1> HIDE DEF e, s
<1>3. n \in Nat /\ Len(e[t]) = n + 1
  BY <1>1, <1>2, AppendProperties, LenProperties
<1>4. t \notin DOMAIN d => n = 0
  BY EmptySeq DEF s
<1>5. t \in DOMAIN d => Len(d[t]) = n
  BY DEF s
<1> HIDE DEF n
<1>6. x \notin Places(d)
  <2>1. t \in DOMAIN d => n + 1 \notin 1..Len(d[t])
    BY <1>3, <1>5
  <2> QED BY <2>1, PlacesIs
<1>7. \A y, i : <<y, i>> \in Places(e) <=> <<y, i>> \in Places(d) \/ <<y, i>> = x
  <2> TAKE y, i
  <2>1. <<y, i>> \in Places(e) <=> y \in DOMAIN e /\ i \in 1..Len(e[y])
    BY PlacesIs
  <2>2. <<y, i>> \in Places(d) <=> y \in DOMAIN d /\ i \in 1..Len(d[y])
    BY PlacesIs
  <2>3. CASE y # t
    BY <1>1, <2>1, <2>2, <2>3
  <2>4. CASE y = t
    <3>1. <<y, i>> \in Places(e) <=> i \in 1..n + 1
      BY <1>1, <1>3, <2>1, <2>4
    <3>2. <<y, i>> \in Places(d) <=> i \in 1..n
      BY <1>3, <1>4, <1>5, <2>2, <2>4
    <3>3. <<y, i>> = x <=> i = n + 1
      BY <2>4
    <3> HIDE DEF x
    <3> QED BY <1>3, <3>1, <3>2, <3>3
  <2> QED BY <2>3, <2>4
<1>8. ASSUME NEW p \in Places(e) PROVE p \in Places(d) \cup {x}
  <2>1. PICK y, i : p = <<y, i>>
    BY <1>8 DEF Places
  <2> QED BY <1>7, <1>8, <2>1
<1>9. ASSUME NEW p \in Places(d) PROVE p \in Places(e)
  <2>1. PICK y, i : p = <<y, i>>
    BY <1>9 DEF Places
  <2> QED BY <1>7, <1>9, <2>1
<1>10. x \in Places(e)
  BY <1>7
<1>11. Places(e) = Places(d) \cup {x}
  BY <1>8, <1>9, <1>10
<1> QED BY <1>6, <1>11 DEF e

(* A reading has as many places as there were values.                      *)
LEMMA CollectedPlaces ==
  ASSUME NEW T, NEW W, NEW n, NEW tags, NEW values, Paired(tags, values, n, T, W)
  PROVE  Cardinality(Places(Collected(tags, values))) = n
<1>1. PICK f : /\ f \in [0..n -> Dicts(T, W)] /\ Collects(f, tags, values, n)
               /\ Collected(tags, values) = f[n]
  BY CollectedIs
<1>0. n \in Nat /\ \A i \in 1..n : tags[i] \in T /\ values[i] \in W
  BY DEF Paired
<1> DEFINE G == {m \in Nat : m <= n => /\ IsFiniteSet(Places(f[m]))
                                       /\ Cardinality(Places(f[m])) = m}
<1>2. 0 \in G
  <2>1. Places(f[0]) = {}
    BY <1>1 DEF Collects, Places
  <2> QED BY <2>1, FS_EmptySet
<1>3. ASSUME NEW m \in Nat, m \in G PROVE m + 1 \in G
  <2>1. ASSUME m + 1 <= n
        PROVE  IsFiniteSet(Places(f[m + 1])) /\ Cardinality(Places(f[m + 1])) = m + 1
    <3>1. m + 1 \in 1..n /\ (m + 1) - 1 = m /\ m \in 0..n /\ m <= n
      BY <1>0, <2>1
    <3>2. f[m + 1] = Added(f[m], tags[m + 1], values[m + 1])
      <4>1. f[m + 1] = Added(f[(m + 1) - 1], tags[m + 1], values[m + 1])
        BY <1>1, <3>1 DEF Collects
      <4> QED BY <3>1, <4>1
    <3>3. f[m] \in Dicts(T, W) /\ tags[m + 1] \in T /\ values[m + 1] \in W
      BY <1>0, <1>1, <3>1
    <3>4. PICK x : x \notin Places(f[m]) /\ Places(f[m + 1]) = Places(f[m]) \cup {x}
      BY <3>2, <3>3, AddedPlaces
    <3>5. IsFiniteSet(Places(f[m])) /\ Cardinality(Places(f[m])) = m
      BY <1>3, <3>1
    <3> QED BY <3>4, <3>5, FS_AddElement
  <2> QED BY <2>1
<1> HIDE DEF G
<1>4. n \in G
  BY <1>0, <1>2, <1>3, Induction
<1> QED BY <1>0, <1>1, <1>4 DEF G

-----------------------------------------------------------------------------
(* Which of its tag's values the i-th is: how many up to it have the tag.  *)
Upto(tags, i, t) == {j \in 1..i : tags[j] = t}
Count(tags, i, t) == Cardinality(Upto(tags, i, t))

LEMMA CountStep ==
  ASSUME NEW tags, NEW m \in Nat, NEW t
  PROVE  /\ IsFiniteSet(Upto(tags, m, t)) /\ Count(tags, m, t) \in Nat
         /\ Count(tags, 0, t) = 0
         /\ tags[m + 1] = t => Count(tags, m + 1, t) = Count(tags, m, t) + 1
         /\ tags[m + 1] # t => Count(tags, m + 1, t) = Count(tags, m, t)
<1> DEFINE U == Upto(tags, m, t)  V == Upto(tags, m + 1, t)
<1>1. IsFiniteSet(U)
  <2>1. IsFiniteSet(1..m) /\ U \subseteq 1..m
    BY FS_Interval DEF Upto
  <2> HIDE DEF U
  <2> QED BY <2>1, FS_Subset
<1>2. Upto(tags, 0, t) = {}
  BY DEF Upto
<1>3. tags[m + 1] = t => V = U \cup {m + 1}
  BY DEF Upto
<1>4. tags[m + 1] # t => V = U
  BY DEF Upto
<1>5. m + 1 \notin U
  BY DEF Upto
<1> HIDE DEF U, V
<1>6. Cardinality(U) \in Nat /\ Cardinality(U \cup {m + 1}) = Cardinality(U) + 1
  BY <1>1, <1>5, FS_CardinalityType, FS_AddElement
<1>7. Count(tags, m, t) = Cardinality(U) /\ Count(tags, m + 1, t) = Cardinality(V)
  BY DEF Count, U, V
<1>8. Count(tags, 0, t) = 0
  BY <1>2, FS_EmptySet DEF Count
<1> QED BY <1>1, <1>3, <1>4, <1>6, <1>7, <1>8 DEF U

(* No two of a tag's have the same place.                                  *)
LEMMA CountOrder ==
  ASSUME NEW tags, NEW m \in Nat, NEW i \in 1..m
  PROVE  /\ Count(tags, i, tags[i]) \in 1..Count(tags, m, tags[i])
         /\ \A j \in 1..m : tags[j] = tags[i] /\ Count(tags, j, tags[j]) = Count(tags, i, tags[i])
                           => j = i
<1> DEFINE t == tags[i]
<1>1. ASSUME NEW a \in 1..m, NEW b \in 1..m, a < b, tags[b] = t
      PROVE  Count(tags, a, t) # Count(tags, b, t)
  <2> DEFINE A == Upto(tags, a, t)  B == Upto(tags, b, t)
  <2>1. IsFiniteSet(B)
    BY CountStep
  <2>2. A \subseteq B /\ b \in B /\ b \notin A
    BY <1>1 DEF Upto
  <2> HIDE DEF A, B
  <2>3. Cardinality(B) # Cardinality(A)
    BY <2>1, <2>2, FS_Subset
  <2> QED BY <2>3 DEF Count, A, B
<1>2. Count(tags, i, t) \in 1..Count(tags, m, t)
  <2> DEFINE A == Upto(tags, i, t)  B == Upto(tags, m, t)
  <2>1. IsFiniteSet(A) /\ IsFiniteSet(B) /\ A \subseteq B /\ i \in A
    <3>1. IsFiniteSet(A) /\ IsFiniteSet(B)
      BY CountStep
    <3> QED BY <3>1 DEF Upto
  <2> HIDE DEF A, B
  <2>2. Cardinality(A) <= Cardinality(B) /\ Cardinality(A) # 0
    BY <2>1, FS_Subset, FS_EmptySet
  <2>3. Cardinality(A) \in Nat /\ Cardinality(B) \in Nat
    BY <2>1, FS_CardinalityType
  <2>4. Cardinality(A) \in 1..Cardinality(B)
    BY <2>2, <2>3
  <2> QED BY <2>4 DEF Count, A, B
<1>3. ASSUME NEW j \in 1..m, tags[j] = t, Count(tags, j, t) = Count(tags, i, t)
      PROVE  j = i
  <2>1. ~(j < i) /\ ~(i < j)
    BY <1>1, <1>3
  <2> QED BY <2>1
<1> QED BY <1>2, <1>3

(* A value is where its place is among those of its tag, and a tag has no  *)
(* more than its values.                                                   *)
ValuesIn(d, tags, values, m) ==
  /\ DOMAIN d = {tags[i] : i \in 1..m}
  /\ \A t \in DOMAIN d : Len(d[t]) = Count(tags, m, t)
  /\ \A i \in 1..m : d[tags[i]][Count(tags, i, tags[i])] = values[i]

LEMMA AddedValues ==
  ASSUME NEW T, NEW W, NEW d \in Dicts(T, W), NEW m \in Nat, NEW tags, NEW values,
         tags[m + 1] \in T, values[m + 1] \in W, ValuesIn(d, tags, values, m)
  PROVE  ValuesIn(Added(d, tags[m + 1], values[m + 1]), tags, values, m + 1)
<1> DEFINE t == tags[m + 1]  v == values[m + 1]  e == Added(d, t, v)
           s == IF t \in DOMAIN d THEN d[t] ELSE <<>>
           c(i, x) == Count(tags, i, x)
<1>1. /\ DOMAIN e = DOMAIN d \cup {t} /\ \A y \in DOMAIN d \ {t} : e[y] = d[y]
      /\ e[t] = Append(s, v)
  BY DEF Added
<1>2. s \in Seq(W)
  BY DictIs, EmptySeq
<1>3. /\ DOMAIN d = {tags[i] : i \in 1..m}
      /\ \A x \in DOMAIN d : Len(d[x]) = c(m, x)
      /\ \A i \in 1..m : d[tags[i]][c(i, tags[i])] = values[i]
  BY DEF ValuesIn
<1>4. \A x : /\ c(m, x) \in Nat
             /\ t = x => c(m + 1, x) = c(m, x) + 1
             /\ t # x => c(m + 1, x) = c(m, x)
  BY CountStep
<1>5. Len(s) = c(m, t)
  <2>1. CASE t \in DOMAIN d
    BY <1>3, <2>1
  <2>2. CASE t \notin DOMAIN d
    <3>1. Upto(tags, m, t) = {}
      BY <1>3, <2>2 DEF Upto
    <3>2. c(m, t) = 0
      BY <3>1, FS_EmptySet DEF Count
    <3> QED BY <2>2, <3>2, EmptySeq
  <2> QED BY <2>1, <2>2
<1>6. /\ Len(e[t]) = c(m, t) + 1 /\ e[t][c(m, t) + 1] = v
      /\ \A p \in 1..c(m, t) : e[t][p] = s[p]
  <2> HIDE DEF s, e
  <2>1. v \in W
    OBVIOUS
  <2> HIDE DEF t, v
  <2>2. /\ Len(Append(s, v)) = Len(s) + 1 /\ Append(s, v)[Len(s) + 1] = v
        /\ \A p \in 1..Len(s) : Append(s, v)[p] = s[p]
    BY <1>2, <2>1, AppendProperties
  <2> HIDE DEF c
  <2> QED BY <1>1, <1>5, <2>2
<1>7. \A i \in 1..m : c(i, tags[i]) \in 1..c(m, tags[i])
  BY CountOrder
<1>8. DOMAIN e = {tags[i] : i \in 1..m + 1}
  <2>1. 1..m + 1 = 1..m \cup {m + 1}
    OBVIOUS
  <2> HIDE DEF e
  <2> QED BY <1>1, <1>3, <2>1
<1> HIDE DEF e
<1>9. ASSUME NEW x \in DOMAIN e PROVE Len(e[x]) = c(m + 1, x)
  <2> HIDE DEF s
  <2>1. CASE x = t
    BY <1>4, <1>6, <2>1
  <2>2. CASE x # t
    BY <1>1, <1>3, <1>4, <2>2
  <2> QED BY <2>1, <2>2
<1>10. ASSUME NEW i \in 1..m + 1 PROVE e[tags[i]][c(i, tags[i])] = values[i]
  <2>1. CASE i = m + 1
    BY <1>4, <1>6, <2>1
  <2>2. CASE i # m + 1
    <3>1. i \in 1..m
      BY <2>2
    <3>2. d[tags[i]][c(i, tags[i])] = values[i] /\ tags[i] \in DOMAIN d
      BY <1>3, <3>1
    <3>3. c(i, tags[i]) \in 1..c(m, tags[i])
      BY <1>7, <3>1
    <3>4. CASE tags[i] = t
      <4>1. s = d[t]
        BY <3>2, <3>4
      <4> HIDE DEF s, c, t
      <4> QED BY <1>6, <3>2, <3>3, <3>4, <4>1
    <3>5. CASE tags[i] # t
      <4> HIDE DEF s, c, t
      <4> QED BY <1>1, <3>2, <3>5
    <3> QED BY <3>4, <3>5
  <2> QED BY <2>1, <2>2
<1> QED BY <1>8, <1>9, <1>10 DEF ValuesIn, e

LEMMA CollectedValues ==
  ASSUME NEW T, NEW W, NEW n, NEW tags, NEW values, Paired(tags, values, n, T, W)
  PROVE  ValuesIn(Collected(tags, values), tags, values, n)
<1>1. PICK f : /\ f \in [0..n -> Dicts(T, W)] /\ Collects(f, tags, values, n)
               /\ Collected(tags, values) = f[n]
  BY CollectedIs
<1>0. n \in Nat /\ \A i \in 1..n : tags[i] \in T /\ values[i] \in W
  BY DEF Paired
<1> DEFINE G == {m \in Nat : m <= n => ValuesIn(f[m], tags, values, m)}
<1>2. 0 \in G
  BY <1>1 DEF Collects, ValuesIn
<1>3. ASSUME NEW m \in Nat, m \in G PROVE m + 1 \in G
  <2>1. ASSUME m + 1 <= n PROVE ValuesIn(f[m + 1], tags, values, m + 1)
    <3>1. m + 1 \in 1..n /\ (m + 1) - 1 = m /\ m \in 0..n /\ m <= n
      BY <1>0, <2>1
    <3>2. f[m + 1] = Added(f[m], tags[m + 1], values[m + 1])
      <4>1. f[m + 1] = Added(f[(m + 1) - 1], tags[m + 1], values[m + 1])
        BY <1>1, <3>1 DEF Collects
      <4> QED BY <3>1, <4>1
    <3>3. f[m] \in Dicts(T, W) /\ tags[m + 1] \in T /\ values[m + 1] \in W
      BY <1>0, <1>1, <3>1
    <3>4. ValuesIn(f[m], tags, values, m)
      BY <1>3, <3>1
    <3> QED BY <3>2, <3>3, <3>4, AddedValues
  <2> QED BY <2>1
<1> HIDE DEF G
<1>4. n \in G
  BY <1>0, <1>2, <1>3, Induction
<1> QED BY <1>0, <1>1, <1>4 DEF G

-----------------------------------------------------------------------------
(* The keys and the values of the walk.                                    *)
LEMMA EntryOf ==
  ASSUME Walks, NEW i \in 1..Len(order)
  PROVE  /\ order[i] \in DOMAIN table /\ Named(order[i]) /\ table[order[i]] \in Seq(Chars)
         /\ KeyText(order[i]) \in Seq(Chars)
<1>1. table \in Tables /\ order[i] \in DOMAIN table
  BY EntriesType DEF Walks
<1>2. Named(order[i]) /\ table[order[i]] \in Seq(Chars)
  BY <1>1, TableAssumption DEF Named, Texts
<1> QED BY <1>1, <1>2, KeyLine

KeyLineOf(i) == Closed(KeyText(order[i]))

ValueLineOf(i) == Closed(table[order[i]])

(* An entry is two lines, if its value is one.                             *)
LEMMA EntryLines ==
  ASSUME Walks, NEW i \in 1..Len(order)
  PROVE  /\ Lines(Entry(order[i])) = <<KeyLineOf(i)>> \o Lines(ValueLineOf(i))
         /\ KeyLineOf(i) \in Seq(Chars) /\ ValueLineOf(i) \in Seq(Chars)
         /\ Entry(order[i]) # <<>> /\ Ended(Entry(order[i]))
<1> DEFINE k == KeyText(order[i])  v == table[order[i]]  nl == <<"newline">>
<1>1. k \in Seq(Chars) /\ v \in Seq(Chars) /\ Plain(k) /\ "newline" \in Chars
  BY EntryOf, KeyLine DEF Chars
<1>2. nl \in Seq(Chars)
  BY <1>1
<1>3. Entry(order[i]) = ((k \o nl) \o v) \o nl
  BY DEF Entry
<1> HIDE DEF k, v, nl
<1>4. k \o nl \in Seq(Chars)
  BY <1>1, <1>2, ConcatProperties
<1>5. Entry(order[i]) = Closed(k) \o Closed(v)
  <2> DEFINE kn == k \o nl
  <2> HIDE DEF kn
  <2>1. (kn \o v) \o nl = kn \o (v \o nl)
    BY <1>1, <1>2, <1>4, ConcatAssociative DEF kn
  <2> QED BY <1>3, <2>1 DEF Closed, kn, nl
<1>6. Closed(k) \in Seq(Chars) /\ Ended(Closed(k))
  BY <1>1, ClosedIs
<1>7. Closed(v) \in Seq(Chars) /\ Closed(v) # <<>> /\ Last(Closed(v)) = "newline"
  BY <1>1, ClosedIs
<1>8. Lines(Closed(k)) = <<Closed(k)>>
  BY <1>1, ClosedLine
<1>9. Lines(Closed(k) \o Closed(v)) = <<Closed(k)>> \o Lines(Closed(v))
  <2> DEFINE a == Closed(k)  b == Closed(v)
  <2> HIDE DEF a, b
  <2>1. Lines(a \o b) = Lines(a) \o Lines(b)
    BY <1>6, <1>7, LinesJoin DEF a, b
  <2> QED BY <1>8, <2>1 DEF a, b
<1>10. Closed(k) \o Closed(v) # <<>> /\ Last(Closed(k) \o Closed(v)) = "newline"
  <2> DEFINE a == Closed(k)  b == Closed(v)
  <2> HIDE DEF a, b
  <2>1. a \in Seq(Chars) /\ b \in Seq(Chars) /\ b # <<>>
    BY <1>6, <1>7 DEF a, b
  <2>2. a \o b # <<>> /\ Last(a \o b) = Last(b)
    BY <2>1, LastOfConcat
  <2> QED BY <1>7, <2>2 DEF a, b
<1>11. KeyLineOf(i) = Closed(k) /\ ValueLineOf(i) = Closed(v)
  BY DEF KeyLineOf, ValueLineOf, k, v
<1> QED BY <1>5, <1>6, <1>7, <1>9, <1>10, <1>11 DEF Ended

(* The text ends with a line end, if there is any.                         *)
LEMMA TextEnded ==
  ASSUME Walks, NEW n \in 0..Len(order)
  PROVE  Ended(Text(n))
<1>1. CASE n = 0
  BY <1>1, JoinedZero DEF Text, Ended
<1>2. CASE n # 0
  <2> DEFINE m == n - 1  a == Text(m)  b == Entry(order[m + 1])
  <2>1. m \in Nat /\ m < Len(order) /\ m + 1 = n /\ m \in 0..Len(order) /\ m + 1 \in 1..Len(order)
    BY <1>2, EntriesType
  <2>2. Text(m + 1) = a \o b
    BY <2>1, TextStep
  <2>3. a \in Seq(Chars)
    BY <2>1, TextType
  <2>4. b \in Seq(Chars) /\ b # <<>> /\ Ended(b)
    BY <2>1, EntriesType, EntryLines
  <2>5. Text(n) = a \o b
    BY <2>1, <2>2
  <2> HIDE DEF a, b, m
  <2>6. Last(a \o b) = Last(b)
    BY <2>3, <2>4, LastOfConcat
  <2> QED BY <2>4, <2>5, <2>6 DEF Ended
<1> QED BY <1>1, <1>2

TextLines(n) == Lines(Text(n))

(* The lines of the text with the next entry.                              *)
LEMMA TextLinesStep ==
  ASSUME Walks, NEW n \in Nat, n < Len(order)
  PROVE  /\ TextLines(n) \in Seq(Seq(Chars))
         /\ TextLines(n + 1) = TextLines(n) \o (<<KeyLineOf(n + 1)>> \o Lines(ValueLineOf(n + 1)))
<1> DEFINE a == Text(n)  b == Entry(order[n + 1])
<1>1. n \in 0..Len(order) /\ n + 1 \in 1..Len(order)
  BY EntriesType
<1>2. a \in Seq(Chars) /\ Ended(a) /\ Text(n + 1) = a \o b
  BY <1>1, TextType, TextEnded, TextStep
<1>3. b \in Seq(Chars) /\ Lines(b) = <<KeyLineOf(n + 1)>> \o Lines(ValueLineOf(n + 1))
  BY <1>1, EntriesType, EntryLines
<1>4. TextLines(n) = Lines(a)
  BY DEF TextLines
<1> HIDE DEF a, b
<1>5. Lines(a \o b) = Lines(a) \o Lines(b) /\ Lines(a) \in Seq(Seq(Chars))
  BY <1>2, <1>3, LinesJoin, LinesType
<1> QED BY <1>2, <1>3, <1>4, <1>5 DEF TextLines

PlainValue(i) == Plain(table[order[i]])

(* There are two lines for each entry, and more if a value has a line end. *)
LEMMA TwoLinesEach ==
  ASSUME Walks, NEW n \in 0..Len(order)
  PROVE  /\ TextLines(n) \in Seq(Seq(Chars)) /\ Len(TextLines(n)) \in Nat
         /\ Len(TextLines(n)) >= 2 * n
         /\ Len(TextLines(n)) = 2 * n => \A i \in 1..n : PlainValue(i)
<1> DEFINE L(m) == /\ TextLines(m) \in Seq(Seq(Chars)) /\ Len(TextLines(m)) \in Nat
                   /\ Len(TextLines(m)) >= 2 * m
                   /\ Len(TextLines(m)) = 2 * m => \A i \in 1..m : PlainValue(i)
           T == {m \in Nat : m <= n => L(m)}
<1>1. 0 \in T
  <2>1. TextLines(0) = <<>>
    BY JoinedZero, LinesEmpty DEF TextLines, Text
  <2> DEFINE t == TextLines(0)
  <2> HIDE DEF t
  <2>2. t \in Seq(Seq(Chars)) /\ Len(t) = 0
    BY <2>1, EmptySeq DEF t
  <2> QED BY <2>2 DEF t
<1>2. ASSUME NEW m \in Nat, m \in T PROVE m + 1 \in T
  <2>1. ASSUME m + 1 <= n PROVE L(m + 1)
    <3>1. m < Len(order) /\ m + 1 \in 1..Len(order) /\ m <= n /\ Len(order) \in Nat
      BY <2>1, EntriesType
    <3> DEFINE a == TextLines(m)  k == <<KeyLineOf(m + 1)>>  b == Lines(ValueLineOf(m + 1))
    <3>2. TextLines(m + 1) = a \o (k \o b)
      BY <3>1, TextLinesStep
    <3>3. k \in Seq(Seq(Chars)) /\ Len(k) = 1
      <4>1. KeyLineOf(m + 1) \in Seq(Chars)
        BY <3>1, EntryLines
      <4> QED BY <4>1
    <3>4. /\ b \in Seq(Seq(Chars)) /\ Len(b) \in Nat /\ Len(b) >= 1
          /\ ~PlainValue(m + 1) => Len(b) >= 2
      <4>1. table[order[m + 1]] \in Seq(Chars) /\ "newline" \in Chars
        BY <3>1, EntryOf DEF Chars
      <4> QED BY <4>1, ClosedLines DEF ValueLineOf, PlainValue
    <3>5. L(m)
      BY <1>2, <3>1
    <3>6. a \in Seq(Seq(Chars)) /\ Len(a) \in Nat /\ Len(a) >= 2 * m
          /\ (Len(a) = 2 * m => \A i \in 1..m : PlainValue(i))
      BY <3>5
    <3> DEFINE V == Seq(Chars)  t == TextLines(m + 1)
    <3> HIDE DEF a, k, b, V, L, t
    <3>7. k \o b \in Seq(V) /\ Len(k \o b) = 1 + Len(b)
      BY <3>3, <3>4, ConcatProperties DEF V
    <3>8. a \o (k \o b) \in Seq(V) /\ Len(a \o (k \o b)) = Len(a) + (1 + Len(b))
      <4> DEFINE kb == k \o b
      <4> HIDE DEF kb
      <4>1. kb \in Seq(V) /\ Len(kb) = 1 + Len(b)
        BY <3>7 DEF kb
      <4>2. a \o kb \in Seq(V) /\ Len(a \o kb) = Len(a) + Len(kb)
        BY <3>6, <4>1, ConcatProperties DEF V
      <4> QED BY <4>1, <4>2 DEF kb
    <3>9. t \in Seq(Seq(Chars)) /\ Len(t) = Len(a) + (1 + Len(b))
      BY <3>2, <3>8 DEF t, V
    <3>10. Len(t) \in Nat /\ Len(t) >= 2 * (m + 1)
      BY <3>4, <3>6, <3>9
    <3>11. ASSUME Len(t) = 2 * (m + 1) PROVE \A i \in 1..m + 1 : PlainValue(i)
      <4>0. Len(a) + (1 + Len(b)) = 2 * (m + 1)
        BY <3>9, <3>11
      <4>1. Len(a) = 2 * m /\ Len(b) = 1
        <5>1. Len(a) \in Nat /\ Len(a) >= 2 * m /\ Len(b) \in Nat /\ Len(b) >= 1
          BY <3>4, <3>6
        <5> DEFINE p == Len(a)  q == Len(b)
        <5>2. p \in Nat /\ p >= 2 * m /\ q \in Nat /\ q >= 1 /\ p + (1 + q) = 2 * (m + 1)
          BY <4>0, <5>1
        <5> HIDE DEF p, q
        <5>3. p = 2 * m /\ q = 1
          BY <5>2
        <5> QED BY <5>3 DEF p, q
      <4>2. PlainValue(m + 1) /\ \A i \in 1..m : PlainValue(i)
        BY <3>4, <3>6, <4>1
      <4> QED BY <4>2
    <3> QED BY <3>9, <3>10, <3>11 DEF L, t
  <2> HIDE DEF L
  <2> QED BY <2>1
<1> HIDE DEF L, T
<1>3. n \in T /\ n <= n
  BY <1>1, <1>2, EntriesType, Induction
<1>4. L(n)
  BY <1>3 DEF T
<1> QED BY <1>4 DEF L

(* If none has, the lines are the keys and the values, one by one.         *)
LEMMA KeysAndValues ==
  ASSUME Walks, NEW n \in 0..Len(order), \A i \in 1..n : PlainValue(i)
  PROVE  /\ TextLines(n) \in Seq(Seq(Chars)) /\ Len(TextLines(n)) = 2 * n
         /\ \A i \in 1..n : /\ TextLines(n)[2 * i - 1] = KeyLineOf(i)
                            /\ TextLines(n)[2 * i] = ValueLineOf(i)
<1> DEFINE L(m) == /\ TextLines(m) \in Seq(Seq(Chars)) /\ Len(TextLines(m)) = 2 * m
                   /\ \A i \in 1..m : /\ TextLines(m)[2 * i - 1] = KeyLineOf(i)
                                      /\ TextLines(m)[2 * i] = ValueLineOf(i)
           T == {m \in Nat : m <= n => L(m)}
<1>1. 0 \in T
  <2>1. TextLines(0) = <<>>
    BY JoinedZero, LinesEmpty DEF TextLines, Text
  <2> DEFINE t == TextLines(0)
  <2> HIDE DEF t
  <2>2. t \in Seq(Seq(Chars)) /\ Len(t) = 0
    BY <2>1, EmptySeq DEF t
  <2> QED BY <2>2 DEF t
<1>2. ASSUME NEW m \in Nat, m \in T PROVE m + 1 \in T
  <2>1. ASSUME m + 1 <= n PROVE L(m + 1)
    <3>1. m < Len(order) /\ m + 1 \in 1..Len(order) /\ m <= n /\ Len(order) \in Nat /\ m + 1 \in 1..n
      BY <2>1, EntriesType
    <3> DEFINE V == Seq(Chars)  a == TextLines(m)  k == KeyLineOf(m + 1)  v == ValueLineOf(m + 1)
               kv == <<k>> \o <<v>>  t == TextLines(m + 1)
    <3>2. Lines(v) = <<v>>
      <4>1. table[order[m + 1]] \in Seq(Chars) /\ "newline" \in Chars /\ Plain(table[order[m + 1]])
        BY <3>1, EntryOf DEF Chars, PlainValue
      <4> QED BY <4>1, ClosedLine DEF ValueLineOf
    <3>3. t = a \o kv
      BY <3>1, <3>2, TextLinesStep
    <3>4. k \in V /\ v \in V
      BY <3>1, EntryLines
    <3>5. L(m)
      BY <1>2, <3>1
    <3>6. /\ a \in Seq(V) /\ Len(a) = 2 * m
          /\ \A i \in 1..m : a[2 * i - 1] = KeyLineOf(i) /\ a[2 * i] = ValueLineOf(i)
      BY <3>5
    <3> HIDE DEF a, k, v, V, t, L
    <3>7. kv \in Seq(V) /\ Len(kv) = 2 /\ kv[1] = k /\ kv[2] = v
      BY <3>4
    <3> HIDE DEF kv
    <3>8. /\ t \in Seq(V) /\ Len(t) = 2 * m + 2
          /\ \A i \in 1..2 * m + 2 : t[i] = IF i <= 2 * m THEN a[i] ELSE kv[i - 2 * m]
      <4>1. /\ a \o kv \in Seq(V) /\ Len(a \o kv) = Len(a) + Len(kv)
            /\ \A i \in 1..Len(a) + Len(kv) :
                 (a \o kv)[i] = IF i <= Len(a) THEN a[i] ELSE kv[i - Len(a)]
        BY <3>6, <3>7, ConcatProperties
      <4> QED BY <3>3, <3>6, <3>7, <4>1
    <3>9. ASSUME NEW i \in 1..m + 1
          PROVE  t[2 * i - 1] = KeyLineOf(i) /\ t[2 * i] = ValueLineOf(i)
      <4>1. CASE i <= m
        <5>1. /\ i \in 1..m /\ 2 * i - 1 \in 1..2 * m + 2 /\ 2 * i \in 1..2 * m + 2
              /\ 2 * i - 1 <= 2 * m /\ 2 * i <= 2 * m
          BY <4>1
        <5> QED BY <3>6, <3>8, <5>1
      <4>2. CASE i = m + 1
        <5>1. /\ 2 * i - 1 \in 1..2 * m + 2 /\ 2 * i \in 1..2 * m + 2
              /\ ~(2 * i - 1 <= 2 * m) /\ ~(2 * i <= 2 * m)
              /\ (2 * i - 1) - 2 * m = 1 /\ 2 * i - 2 * m = 2
          BY <4>2
        <5>2. t[2 * i - 1] = kv[1] /\ t[2 * i] = kv[2]
          BY <3>8, <5>1
        <5> QED BY <3>7, <4>2, <5>2 DEF k, v
      <4> QED BY <4>1, <4>2
    <3> QED BY <3>8, <3>9 DEF L, t, V
  <2> HIDE DEF L
  <2> QED BY <2>1
<1> HIDE DEF L, T
<1>3. n \in T /\ n <= n
  BY <1>1, <1>2, EntriesType, Induction
<1>4. L(n)
  BY <1>3 DEF T
<1> QED BY <1>4 DEF L

(* The walk passes every entry.                                            *)
LEMMA WalksAll ==
  ASSUME Walks, order \in SetToSeqs(DOMAIN table)
  PROVE  \A k \in DOMAIN table : \E i \in 1..Len(order) : order[i] = k
<1> DEFINE D == DOMAIN table  n == Cardinality(D)
<1>1. IsFiniteSet(D) /\ n \in Nat
  BY TableAssumption, FS_CardinalityType DEF Walks
<1>2. order \in [1..n -> D] /\ \A i, j \in 1..n : i # j => order[i] # order[j]
  BY DEF SetToSeqs
<1>3. order \in Injection(1..n, D)
  BY <1>2 DEF Injection, IsInjective
<1>4. Cardinality(1..n) = n
  BY <1>1, FS_Interval
<1> HIDE DEF D, n
<1>5. order \in Surjection(1..n, D)
  BY <1>1, <1>3, <1>4, FS_Injection DEF n
<1>6. \A k \in D : \E i \in 1..n : order[i] = k
  BY <1>5 DEF Surjection
<1>7. 1..n = 1..Len(order)
  BY <1>2, EntriesType
<1> QED BY <1>6, <1>7 DEF D

(* What response_to_tag_dict makes of lines, two by two.                   *)
KeysOf(ls) == [i \in 1..(Len(ls) + 1) \div 2 |-> Key(ls[2 * i - 1])]
TagsOf(ls) == [i \in 1..(Len(ls) + 1) \div 2 |-> Tag(KeysOf(ls)[i])]
ValuesOf(ls) == [i \in 1..(Len(ls) + 1) \div 2 |-> Chomp(ls[2 * i])]

LEMMA UnderstoodIs ==
  ASSUME NEW ls, Len(ls) \in Nat
  PROVE  /\ ~Understood(ls).error =>
              Len(ls) % 2 = 0 /\ Understood(ls).dict = Collected(TagsOf(ls), ValuesOf(ls))
         /\ Len(ls) % 2 = 0 /\ (\A i \in 1..(Len(ls) + 1) \div 2 : Matches(KeysOf(ls)[i]) # {}) =>
              Understood(ls) = [error |-> FALSE, dict |-> Collected(TagsOf(ls), ValuesOf(ls))]
<1>1. DOMAIN KeysOf(ls) = 1..(Len(ls) + 1) \div 2
  BY DEF KeysOf
<1> DEFINE ok == Len(ls) % 2 = 0 /\ \A i \in DOMAIN KeysOf(ls) : Matches(KeysOf(ls)[i]) # {}
           d == Collected(TagsOf(ls), ValuesOf(ls))
<1>2. Understood(ls) = IF ok THEN [error |-> FALSE, dict |-> d] ELSE [error |-> TRUE, dict |-> <<>>]
  BY DEF Understood, KeysOf, TagsOf, ValuesOf
<1> HIDE DEF d
<1> QED BY <1>1, <1>2 DEF d

(* The table as the client should have it.                                 *)
Tags == [i \in DOMAIN order |-> order[i].tag]
Values == [i \in DOMAIN order |-> table[order[i]]]

LEMMA AnswerLines ==
  ASSUME TextInv, pc = "read"
  PROVE  result = Understood(TextLines(Len(order)))
<1> DEFINE S == Chars \cup {"O", "K"}  ok == <<"O", "K", "newline">>  t == Text(Len(order))
<1>1. t \in Seq(S)
  <2>1. Walks /\ Len(order) \in 0..Len(order)
    BY EntriesType DEF TextInv, SizeInv
  <2>2. t \in Seq(Chars)
    BY <2>1, TextType
  <2> HIDE DEF t
  <2> QED BY <2>2, SeqMonotonic
<1>2. ok \in Seq(S) /\ Len(ok) = 3 /\ ok[1] = "O" /\ ok[2] = "K" /\ ok[3] = "newline"
  BY DEF Chars
<1>3. answer = ok \o t /\ result = Understood(Tail(Lines(answer)))
  BY DEF TextInv
<1>4. TextLines(Len(order)) = Lines(t)
  BY DEF TextLines
<1> HIDE DEF S, ok, t
<1>5. ok # <<>> /\ Ended(ok) /\ \A i \in 1..Len(ok) - 1 : ok[i] # "newline"
  <2>1. \A i \in 1..3 - 1 : i = 1 \/ i = 2
    OBVIOUS
  <2>2. ok # <<>>
    BY <1>2, EmptySeq
  <2>3. Last(ok) = "newline"
    BY <1>2 DEF Last
  <2>4. \A i \in 1..Len(ok) - 1 : ok[i] # "newline"
    BY <1>2, <2>1
  <2> QED BY <2>2, <2>3, <2>4 DEF Ended
<1>6. Lines(ok \o t) = Lines(ok) \o Lines(t)
  BY <1>1, <1>2, <1>5, LinesJoin
<1>7. Lines(ok) = <<ok>>
  BY <1>2, <1>5, LineAlone
<1>8. Lines(t) \in Seq(Seq(S))
  BY <1>1, LinesType
<1>9. Tail(<<ok>> \o Lines(t)) = Lines(t)
  <2> DEFINE V == Seq(S)  ls == Lines(t)
  <2>1. ls \in Seq(V) /\ ok \in V
    BY <1>2, <1>8
  <2> HIDE DEF V, ls
  <2>2. Tail(<<ok>> \o ls) = ls
    BY <2>1, TailOfConcat
  <2> QED BY <2>2 DEF ls
<1> QED BY <1>3, <1>4, <1>6, <1>7, <1>9

(* If every value is one line, the tags are those of the table, and the    *)
(* values what chomp leaves of them.                                       *)
LEMMA PlainTable ==
  ASSUME Walks, \A i \in 1..Len(order) : PlainValue(i)
  PROVE  LET ls == TextLines(Len(order)) IN
         /\ Understood(ls) = [error |-> FALSE, dict |-> Collected(Tags, ValuesOf(ls))]
         /\ DOMAIN ValuesOf(ls) = 1..Len(order)
         /\ \A i \in 1..Len(order) : ValuesOf(ls)[i] = Chomp(ValueLineOf(i))
<1> DEFINE n == Len(order)  ls == TextLines(n)
<1>1. n \in Nat /\ DOMAIN order = 1..n
  BY EntriesType
<1>2. /\ Len(ls) = 2 * n
      /\ \A i \in 1..n : ls[2 * i - 1] = KeyLineOf(i) /\ ls[2 * i] = ValueLineOf(i)
  <2>1. n \in 0..Len(order)
    BY <1>1
  <2> QED BY <2>1, KeysAndValues
<1>3. \A i \in 1..n : Named(order[i])
  BY EntryOf
<1> HIDE DEF n, ls
<1>4. (Len(ls) + 1) \div 2 = n /\ Len(ls) % 2 = 0 /\ Len(ls) \in Nat
  BY <1>1, <1>2
<1>5. \A i \in 1..n : /\ KeysOf(ls)[i] = KeyText(order[i])
                      /\ Matches(KeysOf(ls)[i]) # {} /\ TagsOf(ls)[i] = order[i].tag
  <2> TAKE i \in 1..n
  <2>1. Key(KeyLineOf(i)) = KeyText(order[i]) /\ Matches(KeyText(order[i])) # {}
        /\ Tag(KeyText(order[i])) = order[i].tag
    BY <1>3, KeyLine DEF KeyLineOf
  <2>2. KeysOf(ls)[i] = KeyText(order[i])
    BY <1>2, <1>4, <2>1 DEF KeysOf
  <2>3. TagsOf(ls)[i] = Tag(KeysOf(ls)[i])
    BY <1>4 DEF TagsOf
  <2> QED BY <2>1, <2>2, <2>3
<1>6. TagsOf(ls) = Tags
  <2>1. TagsOf(ls) = [i \in 1..n |-> TagsOf(ls)[i]]
    BY <1>4 DEF TagsOf
  <2>2. Tags = [i \in 1..n |-> order[i].tag]
    BY <1>1 DEF Tags
  <2> QED BY <1>5, <2>1, <2>2
<1>7. DOMAIN ValuesOf(ls) = 1..n /\ \A i \in 1..n : ValuesOf(ls)[i] = Chomp(ValueLineOf(i))
  BY <1>2, <1>4 DEF ValuesOf
<1>8. Understood(ls) = [error |-> FALSE, dict |-> Collected(TagsOf(ls), ValuesOf(ls))]
  BY <1>4, <1>5, UnderstoodIs
<1> QED BY <1>6, <1>7, <1>8 DEF n, ls

(* The places of a tag's keys, by their indices and by the walk.           *)
LEMMA Onto ==
  ASSUME NEW S, IsFiniteSet(S), NEW g \in [S -> 1..Cardinality(S)],
         \A x, y \in S : g[x] = g[y] => x = y
  PROVE  \A p \in 1..Cardinality(S) : \E x \in S : g[x] = p
<1> DEFINE n == Cardinality(S)
<1>1. n \in Nat
  BY FS_CardinalityType
<1> HIDE DEF n
<1>2. IsFiniteSet(1..n) /\ Cardinality(1..n) = n
  BY <1>1, FS_Interval
<1>3. g \in Injection(S, 1..n)
  BY DEF Injection, IsInjective, n
<1>4. g \in Surjection(S, 1..n)
  BY <1>2, <1>3, FS_Injection DEF n
<1> QED BY <1>4 DEF Surjection, n

LEMMA Ranks ==
  ASSUME table \in Tables, NEW t
  PROVE  LET K == KeysOfTag(t)  n == Cardinality(K) IN
         /\ IsFiniteSet(K)
         /\ \A k \in K : Rank(k) \in 1..n
         /\ \A k, l \in K : Rank(k) = Rank(l) => k = l
         /\ \A p \in 1..n : \E k \in K : Rank(k) = p
<1> DEFINE K == KeysOfTag(t)  n == Cardinality(K)
           upTo(k) == {l \in K : Number[l.index] <= Number[k.index]}
<1>1. IsFiniteSet(K)
  <2>1. IsFiniteSet(DOMAIN table) /\ K \subseteq DOMAIN table
    BY TableAssumption DEF KeysOfTag
  <2> HIDE DEF K
  <2> QED BY <2>1, FS_Subset
<1>2. \A k \in K : k.tag = t /\ k \in DOMAIN table /\ Rank(k) = Cardinality(upTo(k))
  BY DEF KeysOfTag, Rank
<1>3. /\ \A k \in K : Number[k.index] \in Nat
      /\ \A k, l \in K : Number[k.index] = Number[l.index] => k = l
  BY <1>2, TableAssumption
<1> HIDE DEF K
<1>4. \A k \in K : k \in upTo(k) /\ upTo(k) \subseteq K
  BY <1>3
<1>5. \A k, l \in K : k # l => upTo(k) # upTo(l)
  BY <1>3
<1>6. \A k, l \in K : upTo(k) \subseteq upTo(l) \/ upTo(l) \subseteq upTo(k)
  BY <1>3
<1> HIDE DEF upTo
<1>7. ASSUME NEW k \in K PROVE IsFiniteSet(upTo(k)) /\ Rank(k) \in 1..n
  <2>1. IsFiniteSet(upTo(k)) /\ Cardinality(upTo(k)) <= n /\ Cardinality(upTo(k)) # 0
    BY <1>1, <1>4, FS_Subset, FS_EmptySet
  <2>2. Cardinality(upTo(k)) \in Nat /\ n \in Nat
    BY <1>1, <2>1, FS_CardinalityType
  <2> HIDE DEF n
  <2> QED BY <1>2, <2>1, <2>2
<1>8. ASSUME NEW k \in K, NEW l \in K, Rank(k) = Rank(l) PROVE k = l
  <2>1. Cardinality(upTo(k)) = Cardinality(upTo(l))
    BY <1>2, <1>8
  <2>2. upTo(k) = upTo(l)
    BY <1>6, <1>7, <2>1, FS_Subset
  <2> QED BY <1>5, <2>2
<1>9. \A p \in 1..n : \E k \in K : Rank(k) = p
  <2> DEFINE g == [k \in K |-> Rank(k)]
  <2>1. g \in [K -> 1..n] /\ \A k, l \in K : g[k] = g[l] => k = l
    BY <1>7, <1>8
  <2>2. \A p \in 1..n : \E k \in K : g[k] = p
    <3> HIDE DEF g
    <3> QED BY <1>1, <2>1, Onto
  <2> QED BY <2>2
<1> QED BY <1>1, <1>7, <1>8, <1>9 DEF K

LEMMA PlacesOfTag ==
  ASSUME Walks, order \in SetToSeqs(DOMAIN table), NEW t
  PROVE  LET n == Cardinality(KeysOfTag(t)) IN
         /\ Count(Tags, Len(order), t) = n
         /\ \A i \in 1..Len(order) :
              /\ Place(i) = Count(Tags, i, Tags[i])
              /\ order[i].tag = t => Place(i) \in 1..n
         /\ \A p \in 1..n : \E i \in 1..Len(order) : order[i].tag = t /\ Place(i) = p
<1> DEFINE K == KeysOfTag(t)  m == Len(order)  P == Upto(Tags, m, t)
<1>1. m \in Nat /\ DOMAIN order = 1..m /\ \A i \in 1..m : order[i] \in DOMAIN table
  BY EntriesType
<1>2. \A i \in 1..m : Tags[i] = order[i].tag
  BY <1>1 DEF Tags
<1>3. \A i, j \in 1..m : order[i] = order[j] => i = j
  <2>1. \A i, j \in DOMAIN order : i # j => order[i] # order[j]
    BY DEF SetToSeqs
  <2> QED BY <1>1, <2>1
<1>4. \A k \in DOMAIN table : \E i \in 1..m : order[i] = k
  BY WalksAll
<1>5. P = {i \in 1..m : order[i].tag = t}
  BY <1>2 DEF Upto
<1>6. IsFiniteSet(P)
  BY <1>1, CountStep
<1>7. Count(Tags, m, t) = Cardinality(P)
  BY DEF Count
<1>8. ASSUME NEW i \in 1..m PROVE Place(i) = Count(Tags, i, Tags[i])
  <2>1. {j \in 1..i : order[j].tag = order[i].tag} = Upto(Tags, i, Tags[i])
    BY <1>1, <1>2 DEF Upto
  <2> QED BY <2>1 DEF Place, Count
<1> HIDE DEF m, P
<1>9. Cardinality(P) = Cardinality(K)
  <2> DEFINE h == [i \in P |-> order[i]]
  <2>1. \A i \in P : order[i] \in K
    BY <1>1, <1>5 DEF KeysOfTag
  <2>2. \A k \in K : \E i \in P : order[i] = k
    BY <1>4, <1>5 DEF KeysOfTag
  <2>3. \A i, j \in P : order[i] = order[j] => i = j
    BY <1>3, <1>5
  <2> HIDE DEF K
  <2>4. h \in Bijection(P, K)
    BY <2>1, <2>2, <2>3 DEF Bijection, Injection, Surjection, IsInjective
  <2>5. ExistsBijection(P, K)
    BY <2>4 DEF ExistsBijection
  <2> QED BY <1>6, <2>5, FS_Bijection
<1>10. ASSUME NEW i \in P
       PROVE  /\ Count(Tags, i, t) \in 1..Cardinality(P)
              /\ \A j \in P : Count(Tags, j, t) = Count(Tags, i, t) => j = i
  <2>1. i \in 1..m /\ Tags[i] = t /\ \A j \in P : j \in 1..m /\ Tags[j] = t
    BY <1>2, <1>5
  <2> QED BY <1>1, <1>7, <2>1, CountOrder
<1>11. \A p \in 1..Cardinality(P) : \E i \in P : Count(Tags, i, t) = p
  <2> DEFINE g == [i \in P |-> Count(Tags, i, t)]
  <2>1. g \in [P -> 1..Cardinality(P)] /\ \A i, j \in P : g[i] = g[j] => i = j
    BY <1>10
  <2>2. \A p \in 1..Cardinality(P) : \E i \in P : g[i] = p
    <3> HIDE DEF g
    <3> QED BY <1>6, <2>1, Onto
  <2> QED BY <2>2
<1>12. ASSUME NEW i \in 1..m, order[i].tag = t PROVE Place(i) \in 1..Cardinality(P)
  BY <1>2, <1>5, <1>8, <1>10, <1>12
<1>13. ASSUME NEW p \in 1..Cardinality(P)
       PROVE  \E i \in 1..m : order[i].tag = t /\ Place(i) = p
  <2>1. PICK i \in P : Count(Tags, i, t) = p
    BY <1>11
  <2> QED BY <1>2, <1>5, <1>8, <2>1
<1> QED BY <1>7, <1>8, <1>9, <1>12, <1>13 DEF K, m

(* A dictionary of the table has a place for each entry.                   *)
LEMMA TablePlaces ==
  ASSUME Walks, order \in SetToSeqs(DOMAIN table), NEW d, IsTable(d)
  PROVE  Cardinality(Places(d)) = Len(order)
<1> DEFINE n == Len(order)  c == Collected(Tags, Values)
           T == {Tags[i] : i \in 1..n}  W == {Values[i] : i \in 1..n}
<1>1. n \in Nat /\ DOMAIN order = 1..n /\ \A i \in 1..n : order[i] \in DOMAIN table
  BY EntriesType
<1>2. Paired(Tags, Values, n, T, W)
  <2>1. Len(Tags) = n
    BY <1>1 DEF Tags
  <2> QED BY <1>1, <2>1 DEF Paired
<1>3. ValuesIn(c, Tags, Values, n) /\ Cardinality(Places(c)) = n
  <2> HIDE DEF n, T, W
  <2> QED BY <1>2, CollectedValues, CollectedPlaces
<1>4. DOMAIN c = {k.tag : k \in DOMAIN table}
  <2>1. \A i \in 1..n : Tags[i] = order[i].tag
    BY <1>1 DEF Tags
  <2>2. \A k \in DOMAIN table : \E i \in 1..n : order[i] = k
    BY WalksAll
  <2>3. DOMAIN c = {Tags[i] : i \in 1..n}
    BY <1>3 DEF ValuesIn
  <2> HIDE DEF c, n
  <2> QED BY <1>1, <2>1, <2>2, <2>3
<1>5. \A t \in DOMAIN c : Len(c[t]) = Cardinality(KeysOfTag(t))
  <2>1. \A t \in DOMAIN c : Len(c[t]) = Count(Tags, n, t)
    BY <1>3 DEF ValuesIn
  <2>2. \A t : Count(Tags, n, t) = Cardinality(KeysOfTag(t))
    BY PlacesOfTag
  <2> QED BY <2>1, <2>2
<1> HIDE DEF c
<1>6. DOMAIN d = DOMAIN c /\ \A t \in DOMAIN d : Len(d[t]) = Len(c[t])
  BY <1>4, <1>5 DEF IsTable
<1>7. Places(d) = Places(c)
  BY <1>6 DEF Places
<1> QED BY <1>3, <1>7

(* So a reading that is the table has taken all values in one line each.   *)
LEMMA CountTells ==
  ASSUME Walks, order \in SetToSeqs(DOMAIN table), NEW ls, Len(ls) \in Nat,
         ~Understood(ls).error, IsTable(Understood(ls).dict)
  PROVE  Len(ls) = 2 * Len(order)
<1> DEFINE m == (Len(ls) + 1) \div 2  d == Collected(TagsOf(ls), ValuesOf(ls))
           T == {TagsOf(ls)[i] : i \in 1..m}  W == {ValuesOf(ls)[i] : i \in 1..m}
<1>1. Len(ls) % 2 = 0 /\ Understood(ls).dict = d
  BY UnderstoodIs
<1>2. m \in Nat /\ Len(ls) = 2 * m
  BY <1>1
<1>3. Paired(TagsOf(ls), ValuesOf(ls), m, T, W)
  <2>1. Len(TagsOf(ls)) = m
    BY <1>2 DEF TagsOf
  <2> QED BY <1>2, <2>1 DEF Paired
<1> HIDE DEF m, T, W
<1>4. Cardinality(Places(d)) = m
  BY <1>3, CollectedPlaces
<1> HIDE DEF d
<1>5. Cardinality(Places(d)) = Len(order)
  BY <1>1, TablePlaces
<1> QED BY <1>2, <1>4, <1>5

(* What the client takes from plain values is the table if and only if     *)
(* each value is where the index of its key says.                          *)
Agrees(read) ==
  \A i \in DOMAIN order, k \in DOMAIN table :
    order[i].tag = k.tag /\ Place(i) = Rank(k) => read[i] = table[k]

LEMMA TableOf ==
  ASSUME Walks, order \in SetToSeqs(DOMAIN table), NEW read
  PROVE  IsTable(Collected(Tags, read)) <=> Agrees(read)
<1> DEFINE n == Len(order)  d == Collected(Tags, read)
           T == {Tags[i] : i \in 1..n}  W == {read[i] : i \in 1..n}
<1>1. /\ n \in Nat /\ DOMAIN order = 1..n /\ table \in Tables
      /\ \A i \in 1..n : order[i] \in DOMAIN table
  BY EntriesType DEF Walks
<1>2. \A i \in 1..n : Tags[i] = order[i].tag
  BY <1>1 DEF Tags
<1>3. Paired(Tags, read, n, T, W)
  <2>1. Len(Tags) = n
    BY <1>1 DEF Tags
  <2> QED BY <1>1, <2>1 DEF Paired
<1>4. ValuesIn(d, Tags, read, n)
  <2> HIDE DEF n, T, W
  <2> QED BY <1>3, CollectedValues
<1>5. /\ DOMAIN d = {Tags[i] : i \in 1..n}
      /\ \A t \in DOMAIN d : Len(d[t]) = Count(Tags, n, t)
      /\ \A i \in 1..n : d[Tags[i]][Count(Tags, i, Tags[i])] = read[i]
  BY <1>4 DEF ValuesIn
<1>6. /\ \A t : Count(Tags, n, t) = Cardinality(KeysOfTag(t))
      /\ \A i \in 1..n : Place(i) = Count(Tags, i, Tags[i])
  BY PlacesOfTag
<1>7. DOMAIN d = {k.tag : k \in DOMAIN table}
  <2>1. \A k \in DOMAIN table : \E i \in 1..n : order[i] = k
    BY WalksAll
  <2> HIDE DEF d, n
  <2> QED BY <1>1, <1>2, <1>5, <2>1
<1> HIDE DEF d, n
<1>8. \A t \in DOMAIN d : Len(d[t]) = Cardinality(KeysOfTag(t))
  BY <1>5, <1>6
<1>9. \A i \in 1..n : d[order[i].tag][Place(i)] = read[i]
  BY <1>2, <1>5, <1>6
<1>10. ASSUME \A k \in DOMAIN table : d[k.tag][Rank(k)] = table[k] PROVE Agrees(read)
  <2> SUFFICES ASSUME NEW i \in 1..n, NEW k \in DOMAIN table,
                      order[i].tag = k.tag, Place(i) = Rank(k)
               PROVE  read[i] = table[k]
    BY <1>1 DEF Agrees
  <2> QED BY <1>9, <1>10
<1>11. ASSUME Agrees(read), NEW k \in DOMAIN table PROVE d[k.tag][Rank(k)] = table[k]
  <2>1. k \in KeysOfTag(k.tag)
    BY DEF KeysOfTag
  <2>2. Rank(k) \in 1..Cardinality(KeysOfTag(k.tag))
    BY <1>1, <2>1, Ranks
  <2>3. PICK i \in 1..n : order[i].tag = k.tag /\ Place(i) = Rank(k)
    BY <2>2, PlacesOfTag DEF n
  <2>4. read[i] = table[k]
    BY <1>1, <1>11, <2>3 DEF Agrees
  <2> QED BY <1>9, <2>3, <2>4
<1> QED BY <1>7, <1>8, <1>10, <1>11 DEF IsTable, d

(* If what is left of the values is the table, chomp took nothing: a value *)
(* that it shortened would be missing among those of its length or more.   *)
LEMMA NothingTaken ==
  ASSUME Walks, order \in SetToSeqs(DOMAIN table), NEW read, Agrees(read),
         \A i \in 1..Len(order) : /\ Len(read[i]) \in Nat /\ Len(Values[i]) \in Nat
                                 /\ Len(read[i]) <= Len(Values[i])
  PROVE  \A i \in 1..Len(order) : Len(read[i]) = Len(Values[i])
<1> DEFINE n == Len(order)
<1>1. /\ n \in Nat /\ DOMAIN order = 1..n /\ table \in Tables
      /\ \A i \in 1..n : order[i] \in DOMAIN table
  BY EntriesType DEF Walks
<1>2. \A i \in 1..n : Values[i] = table[order[i]]
  BY <1>1 DEF Values
<1>3. \A i, j \in 1..n : order[i] = order[j] => i = j
  <2>1. \A i, j \in DOMAIN order : i # j => order[i] # order[j]
    BY DEF SetToSeqs
  <2> QED BY <1>1, <2>1
<1>4. \A i \in 1..n : \E j \in 1..n : order[j].tag = order[i].tag /\ Place(j) = Rank(order[i])
  <2> TAKE i \in 1..n
  <2> DEFINE k == order[i]
  <2>1. k \in KeysOfTag(k.tag)
    BY <1>1 DEF KeysOfTag
  <2> HIDE DEF k
  <2>2. Rank(k) \in 1..Cardinality(KeysOfTag(k.tag))
    BY <1>1, <2>1, Ranks
  <2>3. \E j \in 1..n : order[j].tag = k.tag /\ Place(j) = Rank(k)
    BY <2>2, PlacesOfTag
  <2> QED BY <2>3 DEF k
<1> SUFFICES ASSUME NEW q \in 1..n, Len(read[q]) < Len(Values[q]) PROVE FALSE
  OBVIOUS
<1> DEFINE A == {i \in 1..n : Len(Values[i]) >= Len(Values[q])}
           to == [i \in A |-> CHOOSE j \in 1..n : order[j].tag = order[i].tag /\ Place(j) = Rank(order[i])]
<1>5. \A i \in A : /\ to[i] \in 1..n /\ order[to[i]].tag = order[i].tag
                   /\ Place(to[i]) = Rank(order[i])
  BY <1>4
<1> HIDE DEF to
<1>6. \A i \in A : read[to[i]] = Values[i]
  BY <1>1, <1>2, <1>5 DEF Agrees
<1>7. \A i \in A : to[i] \in A
  BY <1>5, <1>6
<1>8. ASSUME NEW i \in A, NEW j \in A, to[i] = to[j] PROVE i = j
  <2>1. order[i].tag = order[j].tag /\ Rank(order[i]) = Rank(order[j])
    BY <1>5, <1>8
  <2>2. /\ order[i] \in KeysOfTag(order[i].tag) /\ order[j] \in KeysOfTag(order[i].tag)
    BY <1>1, <2>1 DEF KeysOfTag
  <2>3. order[i] = order[j]
    BY <1>1, <2>1, <2>2, Ranks
  <2> QED BY <1>3, <2>3
<1>9. IsFiniteSet(A)
  <2>1. IsFiniteSet(1..n) /\ A \subseteq 1..n
    BY <1>1, FS_Interval
  <2> HIDE DEF A
  <2> QED BY <2>1, FS_Subset
<1>10. to \in [A -> A]
  <2>1. DOMAIN to = A /\ to = [i \in DOMAIN to |-> to[i]]
    BY DEF to
  <2> QED BY <1>7, <2>1
<1>11. q \in A
  OBVIOUS
<1>12. PICK p \in A : to[p] = q
  <2> HIDE DEF A
  <2>1. to \in Injection(A, A)
    BY <1>8, <1>10 DEF Injection, IsInjective
  <2>2. to \in Surjection(A, A)
    BY <1>9, <2>1, FS_Injection
  <2> QED BY <1>11, <2>2 DEF Surjection
<1>13. Len(Values[p]) >= Len(Values[q]) /\ Values[p] = read[q]
  BY <1>6, <1>12
<1> QED BY <1>13

(* The client has the table if and only if its values are clean and come   *)
(* in the order of the indices.                                            *)
LEMMA ReadBack ==
  ASSUME TextInv, pc = "read"
  PROVE  ~result.error /\ IsTable(result.dict)
           <=> (\A k \in DOMAIN table : Clean(table[k])) /\ Agrees(Values)
<1> DEFINE n == Len(order)  ls == TextLines(n)
           all == \A i \in 1..n : Clean(Values[i])
<1>1. /\ Walks /\ order \in SetToSeqs(DOMAIN table)
      /\ n \in Nat /\ DOMAIN order = 1..n /\ n \in 0..Len(order)
  BY EntriesType DEF TextInv, SizeInv
<1>2. result = Understood(ls)
  BY AnswerLines
<1>3. \A i \in 1..n : Values[i] = table[order[i]] /\ Values[i] \in Seq(Chars)
  BY <1>1, EntryOf DEF Values
<1>4. (\A k \in DOMAIN table : Clean(table[k])) <=> all
  <2>1. \A i \in 1..n : order[i] \in DOMAIN table
    BY <1>1, EntriesType
  <2>2. \A k \in DOMAIN table : \E i \in 1..n : order[i] = k
    BY <1>1, WalksAll
  <2> QED BY <1>3, <2>1, <2>2
<1>5. \A i \in 1..n : DOMAIN Values[i] = 1..Len(Values[i]) /\ Len(Values[i]) \in Nat
  BY <1>3, LenProperties
<1>6. \A i \in 1..n : Clean(Values[i]) <=> PlainValue(i) /\ (Values[i] # <<>> => Last(Values[i]) # "cr")
  BY <1>3, <1>5 DEF Clean, PlainValue, Plain
<1>7. Len(ls) \in Nat /\ (Len(ls) = 2 * n => \A i \in 1..n : PlainValue(i))
  BY <1>1, TwoLinesEach
<1>8. CASE \A i \in 1..n : PlainValue(i)
  <2> DEFINE read == ValuesOf(ls)
  <2>1. result = [error |-> FALSE, dict |-> Collected(Tags, read)]
        /\ DOMAIN read = 1..n /\ \A i \in 1..n : read[i] = Chomp(ValueLineOf(i))
    BY <1>1, <1>2, <1>8, PlainTable
  <2>2. \A i \in 1..n : /\ Clean(Values[i]) => read[i] = Values[i]
                        /\ ~Clean(Values[i]) => Len(read[i]) = Len(Values[i]) - 1 /\ Values[i] # <<>>
    <3> TAKE i \in 1..n
    <3>1. Values[i] \in Seq(Chars) /\ ValueLineOf(i) = Closed(Values[i])
      BY <1>3 DEF ValueLineOf
    <3>2. /\ (Values[i] # <<>> => Last(Values[i]) # "cr") => Chomp(Closed(Values[i])) = Values[i]
          /\ ~(Values[i] # <<>> => Last(Values[i]) # "cr") =>
               Len(Chomp(Closed(Values[i]))) = Len(Values[i]) - 1
      BY <3>1, ChompClosed
    <3>3. read[i] = Chomp(Closed(Values[i]))
      BY <2>1, <3>1
    <3> HIDE DEF read
    <3> QED BY <1>6, <1>8, <3>2, <3>3
  <2>3. all => read = Values
    <3>1. read = [i \in 1..n |-> read[i]]
      BY <2>1 DEF ValuesOf
    <3>2. Values = [i \in 1..n |-> Values[i]]
      BY <1>1 DEF Values
    <3>3. all => \A i \in 1..n : read[i] = Values[i]
      BY <2>2
    <3> HIDE DEF read, n, all
    <3> QED BY <3>1, <3>2, <3>3
  <2> HIDE DEF read
  <2>4. ~result.error /\ IsTable(result.dict) <=> Agrees(read)
    <3> DEFINE c == Collected(Tags, read)
    <3>1. result = [error |-> FALSE, dict |-> c]
      BY <2>1
    <3>2. IsTable(c) <=> Agrees(read)
      BY <1>1, TableOf
    <3> HIDE DEF c
    <3>3. ~result.error /\ result.dict = c
      BY <3>1
    <3> QED BY <3>2, <3>3
  <2>5. Agrees(read) => all
    <3> SUFFICES ASSUME Agrees(read), NEW i \in 1..n, ~Clean(Values[i]) PROVE FALSE
      OBVIOUS
    <3>1. \A j \in 1..n : Values[j] # <<>> => Len(Values[j]) >= 1
      BY <1>3, <1>5, EmptySeq
    <3>2. ASSUME NEW j \in 1..n
          PROVE  /\ Len(read[j]) \in Nat /\ Len(Values[j]) \in Nat
                 /\ Len(read[j]) <= Len(Values[j])
                 /\ ~Clean(Values[j]) => Len(read[j]) # Len(Values[j])
      <4> DEFINE a == Len(read[j])  b == Len(Values[j])
      <4>1. b \in Nat
        BY <1>5
      <4>2. Clean(Values[j]) => a = b
        BY <2>2
      <4>3. ~Clean(Values[j]) => a = b - 1 /\ b >= 1
        BY <2>2, <3>1
      <4> HIDE DEF a, b
      <4>4. a \in Nat /\ a <= b /\ (~Clean(Values[j]) => a # b)
        BY <4>1, <4>2, <4>3
      <4> QED BY <4>1, <4>4 DEF a, b
    <3>3. Len(read[i]) = Len(Values[i])
      BY <1>1, <3>2, NothingTaken
    <3> QED BY <3>2, <3>3
  <2> QED BY <1>4, <2>3, <2>4, <2>5
<1>9. CASE ~\A i \in 1..n : PlainValue(i)
  <2>1. ~all
    BY <1>6, <1>9
  <2>2. Len(ls) # 2 * n
    BY <1>7, <1>9
  <2>3. ASSUME ~result.error, IsTable(result.dict) PROVE FALSE
    <3> HIDE DEF ls
    <3>1. Len(ls) = 2 * Len(order)
      BY <1>1, <1>2, <1>7, <2>3, CountTells
    <3> QED BY <2>2, <3>1
  <2> QED BY <1>4, <2>1, <2>3
<1> QED BY <1>8, <1>9

(* A client gets every value of a table of any size, each under its tag    *)
(* and at the place of its index, exactly if no value has a line end in it *)
(* or a CR at its end and GLib's walk comes to the values of each tag in   *)
(* the order of their indices, but for equal ones, as the client does not  *)
(* look at indices (utility.c:86-112, gst-playd-client.rb:57-65).          *)
THEOREM ComesBack == Spec => []ReadsBack
<1>1. ASSUME TextInv PROVE ReadsBack
  <2> SUFFICES ASSUME pc = "read" PROVE ReadsBack
    BY DEF ReadsBack
  <2>1. Agrees(Values)
          <=> \A i \in DOMAIN order, k \in DOMAIN table :
                order[i].tag = k.tag /\ Place(i) = Rank(k) => table[order[i]] = table[k]
    BY DEF Agrees, Values
  <2> QED BY <1>1, <2>1, ReadBack DEF ReadsBack
<1> QED BY <1>1, InitTextInv, NextTextInv, PTL DEF Spec
=============================================================================
