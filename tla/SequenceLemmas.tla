--------------------------- MODULE SequenceLemmas ---------------------------
(***************************************************************************)
(* Facts that the proofs of several modules cite: induction in a form that *)
(* needs no operator as a parameter, and what the operators of             *)
(* SequencesExt compute.                                                   *)
(***************************************************************************)
EXTENDS Integers, SequencesExt, SequenceTheorems, WellFoundedInduction, TLAPS

(* The least number of a set of naturals, without which nothing can be     *)
(* said of the first character that ends a string.                         *)
Below == {r \in Nat \X Nat : r[1] < r[2]}

LEMMA BelowWellFounded == IsWellFoundedOn(Below, Nat)
BY NatLessThanWellFounded DEF OpToRel, Below

(* Every set of naturals has a least number.                               *)
LEMMA Least ==
  ASSUME NEW T \in SUBSET Nat, T # {}
  PROVE  \E n \in T : \A k \in T : n <= k
<1>1. \E n \in T : \A k \in T : ~(<<k, n>> \in Below)
  BY BelowWellFounded, WFMin
<1>2. \A n, k \in T : ~(<<k, n>> \in Below) => n <= k
  BY DEF Below
<1> QED BY <1>1, <1>2

(* A set with 0 and the successor of each of its naturals has them all.    *)
LEMMA Induction ==
  ASSUME NEW T, 0 \in T, \A n \in Nat : n \in T => n + 1 \in T
  PROVE  Nat \subseteq T
<1> SUFFICES ASSUME Nat \ T # {} PROVE FALSE
  OBVIOUS
<1>1. PICK n \in Nat \ T : \A k \in Nat \ T : n <= k
  BY Least
<1>2. n # 0 /\ n - 1 \in Nat
  BY <1>1
<1>3. n - 1 \in T
  BY <1>1, <1>2
<1> QED BY <1>1, <1>2, <1>3

(* Any sequence has a longest head that is made of elements of S.          *)
LEMMA LongestHead ==
  ASSUME NEW t, Len(t) \in Nat, NEW S
  PROVE  \E n \in 0..Len(t) :
           (\A i \in 1..n : t[i] \in S) /\ (n < Len(t) => t[n + 1] \notin S)
<1> DEFINE T == {n \in 0..Len(t) : n = Len(t) \/ t[n + 1] \notin S}
<1>1. T \in SUBSET Nat /\ Len(t) \in T
  OBVIOUS
<1>2. PICK n \in T : \A k \in T : n <= k
  BY <1>1, Least
<1>3. n \in 0..Len(t) /\ (n < Len(t) => t[n + 1] \notin S)
  BY <1>2
<1>4. ASSUME NEW i \in 1..n PROVE t[i] \in S
  <2>1. i - 1 \in 0..Len(t) /\ i - 1 < n /\ (i - 1) + 1 = i
    BY <1>3
  <2>2. i - 1 \notin T
    <3>1. n \in Int /\ i - 1 \in Int
      BY <1>3, <2>1
    <3> HIDE DEF T
    <3> QED BY <1>2, <2>1, <3>1
  <2> QED BY <2>1, <2>2
<1> QED BY <1>3, <1>4

-----------------------------------------------------------------------------
(* A function may be defined by what it is at 0 and how it goes on, ...    *)
Recurs(f, b, step, n) ==
  f[0] = b /\ \A i \in 1..n : f[i] = step[<<f[i - 1], i>>]

LEMMA Recursion ==
  ASSUME NEW V, NEW b, NEW n \in Nat, NEW step, b \in V,
         \A v \in V, i \in 1..n : step[<<v, i>>] \in V
  PROVE  \E f : f \in [0..n -> V] /\ Recurs(f, b, step, n)
<1> DEFINE T == {m \in Nat : m <= n => \E f : f \in [0..m -> V] /\ Recurs(f, b, step, m)}
<1>1. 0 \in T
  <2>1. [i \in 0..0 |-> b] \in [0..0 -> V] /\ Recurs([i \in 0..0 |-> b], b, step, 0)
    BY DEF Recurs
  <2> QED BY <2>1
<1>2. ASSUME NEW m \in Nat, m \in T PROVE m + 1 \in T
  <2>1. ASSUME m + 1 <= n PROVE \E f : f \in [0..m + 1 -> V] /\ Recurs(f, b, step, m + 1)
    <3>1. PICK f : f \in [0..m -> V] /\ Recurs(f, b, step, m)
      BY <1>2, <2>1
    <3> DEFINE last == step[<<f[m], m + 1>>]
               g == [i \in 0..m + 1 |-> IF i = m + 1 THEN last ELSE f[i]]
    <3>2. last \in V
      <4>1. f[m] \in V /\ m + 1 \in 1..n
        BY <2>1, <3>1
      <4> QED BY <4>1
    <3>3. g \in [0..m + 1 -> V] /\ g[m + 1] = last
      BY <3>1, <3>2
    <3>4. \A i \in 0..m : g[i] = f[i]
      OBVIOUS
    <3> HIDE DEF g
    <3>5. ASSUME NEW i \in 1..m + 1 PROVE g[i] = step[<<g[i - 1], i>>]
      <4>1. CASE i = m + 1
        <5>1. g[i - 1] = f[m]
          BY <3>4, <4>1
        <5> QED BY <3>3, <4>1, <5>1
      <4>2. CASE i # m + 1
        <5>1. i \in 1..m /\ i \in 0..m /\ i - 1 \in 0..m
          BY <4>2
        <5>2. g[i] = f[i] /\ g[i - 1] = f[i - 1]
          BY <3>4, <5>1
        <5> QED BY <3>1, <5>1, <5>2 DEF Recurs
      <4> QED BY <4>1, <4>2
    <3>6. g[0] = b
      BY <3>1, <3>4 DEF Recurs
    <3> QED BY <3>3, <3>5, <3>6 DEF Recurs
  <2> QED BY <2>1
<1> HIDE DEF T
<1>3. n \in T
  BY <1>1, <1>2, Induction
<1> QED BY <1>3 DEF T

(* ... which leaves no choice.                                             *)
LEMMA SameRecursion ==
  ASSUME NEW n \in Nat, NEW f, NEW g, f[0] = g[0],
         \A i \in 1..n : f[i - 1] = g[i - 1] => f[i] = g[i]
  PROVE  \A i \in 0..n : f[i] = g[i]
<1> DEFINE T == {i \in Nat : i <= n => f[i] = g[i]}
<1>1. 0 \in T
  OBVIOUS
<1>2. ASSUME NEW i \in Nat, i \in T PROVE i + 1 \in T
  <2>1. i + 1 <= n => i + 1 \in 1..n /\ (i + 1) - 1 = i /\ f[i] = g[i]
    BY <1>2
  <2>2. i + 1 <= n => f[i + 1] = g[i + 1]
    BY <2>1
  <2> QED BY <2>2
<1> HIDE DEF T
<1>3. Nat \subseteq T
  BY <1>1, <1>2, Induction
<1> QED BY <1>3 DEF T

-----------------------------------------------------------------------------
(* A function on 1..n is a sequence of length n.                           *)
LEMMA LenOfFunction ==
  ASSUME NEW n \in Nat, NEW f, f = [i \in 1..n |-> f[i]]
  PROVE  Len(f) = n /\ DOMAIN f = 1..n
<1> DEFINE S == {f[i] : i \in 1..n}
<1>1. f \in [1..n -> S]
  OBVIOUS
<1>2. f \in Seq(S)
  BY <1>1, SeqDef
<1>3. Len(f) \in Nat /\ 1..Len(f) = 1..n
  BY <1>1, <1>2, LenProperties
<1>4. (Len(f) \in 1..Len(f) => Len(f) \in 1..n) /\ (n \in 1..n => n \in 1..Len(f))
  BY <1>3
<1> QED BY <1>1, <1>3, <1>4

(* FlattenSeq's recursive function, as an equation for each index.         *)
Flattens(f, ss, n) ==
  /\ f = [i \in 1..n |-> f[i]]
  /\ \A i \in 1..n : f[i] = IF i = 1 THEN ss[1] ELSE f[i - 1] \o ss[i]

LEMMA FlattenExists ==
  ASSUME NEW ss, NEW n \in Nat
  PROVE  \E f : Flattens(f, ss, n)
<1> DEFINE T == {m \in Nat : \E f : Flattens(f, ss, m)}
<1>1. 0 \in T
  <2>1. Flattens([i \in 1..0 |-> i], ss, 0)
    BY DEF Flattens
  <2> QED BY <2>1
<1>2. ASSUME NEW m \in Nat, m \in T PROVE m + 1 \in T
  <2>1. PICK f : Flattens(f, ss, m)
    BY <1>2
  <2> DEFINE last == IF m = 0 THEN ss[1] ELSE f[m] \o ss[m + 1]
             g == [i \in 1..m + 1 |-> IF i = m + 1 THEN last ELSE f[i]]
  <2>2. \A i \in 1..m : g[i] = f[i]
    OBVIOUS
  <2>3. ASSUME NEW i \in 1..m + 1
        PROVE  g[i] = IF i = 1 THEN ss[1] ELSE g[i - 1] \o ss[i]
    <3>1. CASE i = m + 1
      <4>1. m # 0 => g[i - 1] = f[m]
        BY <2>2, <3>1
      <4> QED BY <3>1, <4>1
    <3>2. CASE i # m + 1
      <4>1. i \in 1..m /\ (i # 1 => i - 1 \in 1..m)
        BY <3>2
      <4>2. g[i] = f[i] /\ (i # 1 => g[i - 1] = f[i - 1])
        BY <2>2, <4>1
      <4> HIDE DEF g
      <4> QED BY <2>1, <4>1, <4>2 DEF Flattens
    <3> QED BY <3>1, <3>2
  <2>4. g = [i \in 1..m + 1 |-> g[i]]
    OBVIOUS
  <2> HIDE DEF g
  <2>5. Flattens(g, ss, m + 1)
    BY <2>3, <2>4 DEF Flattens
  <2> QED BY <2>5
<1> HIDE DEF T
<1>3. n \in T
  BY <1>1, <1>2, Induction
<1> QED BY <1>3 DEF T

(* Such a function, one place further.                                     *)
LEMMA FlattensAt ==
  ASSUME NEW f, NEW ss, NEW n \in Nat, Flattens(f, ss, n),
         NEW i \in Nat, i < n
  PROVE  f[i + 1] = IF i = 0 THEN ss[1] ELSE f[i] \o ss[i + 1]
<1>1. \A j \in 1..n : f[j] = IF j = 1 THEN ss[1] ELSE f[j - 1] \o ss[j]
  BY DEF Flattens
<1>2. i + 1 \in 1..n /\ (i + 1) - 1 = i /\ (i + 1 = 1 <=> i = 0)
  OBVIOUS
<1>3. f[i + 1] = IF i + 1 = 1 THEN ss[1] ELSE f[(i + 1) - 1] \o ss[i + 1]
  BY <1>1, <1>2
<1> QED BY <1>2, <1>3

(* FlattenSeq follows such a function.                                     *)
LEMMA FlattenIs ==
  ASSUME NEW ss, Len(ss) \in Nat \ {0}
  PROVE  \E f : Flattens(f, ss, Len(ss)) /\ FlattenSeq(ss) = f[Len(ss)]
<1> DEFINE n == Len(ss)
           P(f) == f = [i \in 1..n |-> IF i = 1 THEN ss[i] ELSE f[i - 1] \o ss[i]]
           flatten == CHOOSE f : P(f)
<1>1. PICK f : Flattens(f, ss, n)
  BY FlattenExists
<1>2. P(f)
  BY <1>1 DEF Flattens
<1>3. P(flatten)
  BY <1>2
<1>4. FlattenSeq(ss) = flatten[n]
  BY DEF FlattenSeq
<1>5. Flattens(flatten, ss, n)
  <2> HIDE DEF flatten
  <2>1. /\ flatten = [i \in 1..n |-> flatten[i]]
        /\ \A i \in 1..n : flatten[i] = IF i = 1 THEN ss[i] ELSE flatten[i - 1] \o ss[i]
    BY <1>3
  <2> QED BY <2>1 DEF Flattens
<1> QED BY <1>4, <1>5

(* The first m of the sequences ss, one behind the other.                  *)
Joined(ss, m) == FlattenSeq([i \in 1..m |-> ss[i]])

LEMMA JoinedZero ==
  ASSUME NEW ss
  PROVE  Joined(ss, 0) = <<>>
BY DEF Joined, FlattenSeq

(* Joined is the value of such a function.                                 *)
LEMMA JoinedIs ==
  ASSUME NEW ss, NEW m \in Nat \ {0}
  PROVE  \E f : Flattens(f, ss, m) /\ Joined(ss, m) = f[m]
<1> DEFINE hd == [i \in 1..m |-> ss[i]]
<1>1. Len(hd) = m
  OBVIOUS
<1>2. PICK f : Flattens(f, hd, m) /\ FlattenSeq(hd) = f[m]
  BY <1>1, FlattenIs
<1>3. Flattens(f, ss, m)
  BY <1>2 DEF Flattens
<1> QED BY <1>2, <1>3 DEF Joined

(* One more sequence is joined at the end.                                 *)
LEMMA JoinedStep ==
  ASSUME NEW S, NEW ss, NEW m \in Nat, \A i \in 1..m + 1 : ss[i] \in Seq(S)
  PROVE  Joined(ss, m + 1) = Joined(ss, m) \o ss[m + 1]
<1>1. PICK f : Flattens(f, ss, m + 1) /\ Joined(ss, m + 1) = f[m + 1]
  BY JoinedIs
<1>2. CASE m = 0
  <2>1. f[1] = ss[1] /\ ss[1] \in Seq(S)
    BY <1>1, <1>2 DEF Flattens
  <2>2. <<>> \o ss[1] = ss[1]
    BY <2>1, ConcatEmptySeq
  <2> QED BY <1>1, <1>2, <2>1, <2>2, JoinedZero
<1>3. CASE m # 0
  <2>1. PICK g : Flattens(g, ss, m) /\ Joined(ss, m) = g[m]
    BY <1>3, JoinedIs
  <2> DEFINE T == {i \in Nat : i \in 1..m => f[i] = g[i]}
  <2>2. 0 \in T
    OBVIOUS
  <2>3. ASSUME NEW i \in Nat, i \in T PROVE i + 1 \in T
    <3>1. ASSUME i + 1 \in 1..m PROVE f[i + 1] = g[i + 1]
      <4>0. i < m /\ i < m + 1 /\ m + 1 \in Nat
        BY <3>1
      <4>1. i # 0 => f[i] = g[i]
        BY <2>3, <3>1
      <4>2. f[i + 1] = IF i = 0 THEN ss[1] ELSE f[i] \o ss[i + 1]
        BY <1>1, <4>0, FlattensAt
      <4>3. g[i + 1] = IF i = 0 THEN ss[1] ELSE g[i] \o ss[i + 1]
        BY <2>1, <4>0, FlattensAt
      <4> QED BY <4>1, <4>2, <4>3
    <3> QED BY <3>1
  <2> HIDE DEF T
  <2>4. m \in T
    BY <2>2, <2>3, Induction
  <2>5. f[m] = g[m]
    BY <1>3, <2>4 DEF T
  <2>6. f[m + 1] = f[m] \o ss[m + 1]
    <3>1. m < m + 1 /\ m + 1 \in Nat
      OBVIOUS
    <3> QED BY <1>1, <1>3, <3>1, FlattensAt
  <2> QED BY <1>1, <2>1, <2>5, <2>6
<1> QED BY <1>2, <1>3

(* Sequences over a set are joined to one over it.                         *)
LEMMA JoinedType ==
  ASSUME NEW S, NEW ss, NEW m \in Nat, \A i \in 1..m : ss[i] \in Seq(S)
  PROVE  Joined(ss, m) \in Seq(S)
<1> DEFINE T == {n \in Nat : n <= m => Joined(ss, n) \in Seq(S)}
<1>1. 0 \in T
  <2>1. Joined(ss, 0) \in Seq(S)
    BY JoinedZero, EmptySeq
  <2> QED BY <2>1
<1>2. ASSUME NEW n \in Nat, n \in T PROVE n + 1 \in T
  <2>1. ASSUME n + 1 <= m PROVE Joined(ss, n + 1) \in Seq(S)
    <3>1. Joined(ss, n) \in Seq(S) /\ ss[n + 1] \in Seq(S)
      BY <1>2, <2>1
    <3>2. Joined(ss, n + 1) = Joined(ss, n) \o ss[n + 1]
      BY <2>1, JoinedStep
    <3> QED BY <3>1, <3>2, ConcatProperties
  <2> QED BY <2>1
<1> HIDE DEF T
<1>3. m \in T
  BY <1>1, <1>2, Induction
<1> QED BY <1>3 DEF T

-----------------------------------------------------------------------------
(* SelectInSeq, for an element of a set: the place where one comes first.  *)
FirstIn(b, C) == SelectInSeq(b, LAMBDA x : x \in C)

LEMMA FirstInAt ==
  ASSUME NEW b, Len(b) \in Nat, NEW n \in 1..Len(b), NEW C,
         b[n] \in C, \A i \in 1..n - 1 : b[i] \notin C
  PROVE  FirstIn(b, C) = n
<1> DEFINE I == {i \in 1..Len(b) : b[i] \in C}
<1>1. n \in I /\ \A i \in I : n <= i
  OBVIOUS
<1>2. FirstIn(b, C) = Min(I)
  BY <1>1 DEF FirstIn, SelectInSeq
<1>3. Min(I) = CHOOSE x \in I : \A y \in I : x <= y
  BY DEF Min
<1>4. \A x \in I : (\A y \in I : x <= y) => x = n
  BY <1>1
<1> HIDE DEF I
<1> QED BY <1>1, <1>2, <1>3, <1>4

(* The same for one element, which may be missing.                         *)
First(b, c) == SelectInSeq(b, LAMBDA x : x = c)

LEMMA FirstAt ==
  ASSUME NEW b, Len(b) \in Nat, NEW n \in 1..Len(b), NEW c,
         b[n] = c, \A i \in 1..n - 1 : b[i] # c
  PROVE  First(b, c) = n
<1>1. First(b, c) = FirstIn(b, {c})
  BY DEF First, FirstIn, SelectInSeq
<1>2. b[n] \in {c} /\ \A i \in 1..n - 1 : b[i] \notin {c}
  OBVIOUS
<1> QED BY <1>1, <1>2, FirstInAt

(* There is no first place of what does not occur.                         *)
LEMMA FirstMissing ==
  ASSUME NEW b, NEW c, \A i \in 1..Len(b) : b[i] # c
  PROVE  First(b, c) = 0
BY DEF First, SelectInSeq

-----------------------------------------------------------------------------
(* The front and the last element of a sequence, and of two in a row.      *)
LEMMA FrontLast ==
  ASSUME NEW S, NEW b \in Seq(S), b # <<>>
  PROVE  /\ Len(b) \in Nat \ {0} /\ Last(b) \in S /\ Front(b) \in Seq(S)
         /\ Len(Front(b)) = Len(b) - 1
         /\ \A i \in 1..Len(b) - 1 : Front(b)[i] = b[i]
<1> DEFINE n == Len(b) - 1
<1>1. Len(b) \in Nat \ {0}
  BY EmptySeq
<1>2. \A i \in 1..Len(b) : b[i] \in S
  BY <1>1, ElementOfSeq
<1>3. n \in Int /\ n >= 0 /\ Len(b) = n + 1 /\ \A i \in 1..n : b[i] \in S
  BY <1>1, <1>2
<1>4. b[n + 1] \in S
  BY <1>1, <1>2, <1>3
<1> HIDE DEF n
<1>5. /\ SubSeq(b, 1, n) \in Seq(S)
      /\ Len(SubSeq(b, 1, n)) = IF 1 <= n THEN n - 1 + 1 ELSE 0
      /\ \A i \in 1..n - 1 + 1 : SubSeq(b, 1, n)[i] = b[1 + i - 1]
  BY <1>3, SubSeqProperties
<1>6. Front(b) = SubSeq(b, 1, n) /\ Last(b) = b[n + 1]
  BY <1>3 DEF Front, Last, n
<1> QED BY <1>1, <1>3, <1>4, <1>5, <1>6

(* The last of a sequence with one more element, and the rest.             *)
LEMMA LastOfAppend ==
  ASSUME NEW S, NEW b \in Seq(S), NEW c \in S
  PROVE  /\ Append(b, c) \in Seq(S) /\ Append(b, c) # <<>>
         /\ Len(Append(b, c)) = Len(b) + 1
         /\ Last(Append(b, c)) = c /\ Front(Append(b, c)) = b
<1> DEFINE bc == Append(b, c)
<1>1. /\ bc \in Seq(S) /\ bc # <<>> /\ Len(bc) = Len(b) + 1 /\ Len(b) \in Nat
      /\ \A i \in 1..Len(b) : bc[i] = b[i]
      /\ bc[Len(b) + 1] = c
  BY AppendProperties, LenProperties
<1> HIDE DEF bc
<1>2. Front(bc) \in Seq(S) /\ Len(Front(bc)) = Len(b) /\ \A i \in 1..Len(b) : Front(bc)[i] = b[i]
  BY <1>1, FrontLast
<1>3. Front(bc) = b
  BY <1>2, SeqEqual
<1> QED BY <1>1, <1>3 DEF Last, bc

(* An element behind the second of two sequences.  It has a name, as the   *)
(* provers do not find instances of an equation between such terms.        *)
AppendsTo(a, b, c) == Append(a \o b, c) = a \o Append(b, c)

LEMMA AppendToConcat ==
  ASSUME NEW S, NEW a \in Seq(S), NEW b \in Seq(S), NEW c \in S
  PROVE  AppendsTo(a, b, c)
<1>1. a \o b \in Seq(S) /\ <<c>> \in Seq(S)
  BY ConcatProperties
<1>2. Append(a \o b, c) = (a \o b) \o <<c>> /\ Append(b, c) = b \o <<c>>
  BY <1>1, AppendIsConcat
<1>3. Append(a \o b, c) = a \o Append(b, c)
  BY <1>1, <1>2, ConcatAssociative
<1> QED BY <1>3 DEF AppendsTo

(* The last of two sequences is the last of the second.                    *)
LEMMA LastOfConcat ==
  ASSUME NEW S, NEW a \in Seq(S), NEW b \in Seq(S), b # <<>>
  PROVE  /\ a \o b \in Seq(S) /\ a \o b # <<>>
         /\ Last(a \o b) = Last(b) /\ Front(a \o b) = a \o Front(b)
<1>1. PICK f \in Seq(S), c \in S : b = Append(f, c)
  BY SequenceEmptyOrAppend
<1>2. a \o f \in Seq(S)
  BY ConcatProperties
<1>3. a \o b = Append(a \o f, c)
  <2>1. AppendsTo(a, f, c)
    BY <1>1, AppendToConcat
  <2> QED BY <1>1, <2>1 DEF AppendsTo
<1>4. Last(b) = c /\ Front(b) = f
  BY <1>1, LastOfAppend
<1>5. /\ Append(a \o f, c) \in Seq(S) /\ Append(a \o f, c) # <<>>
      /\ Last(Append(a \o f, c)) = c /\ Front(Append(a \o f, c)) = a \o f
  BY <1>2, LastOfAppend
<1> QED BY <1>3, <1>4, <1>5

(* The first n elements, and one more.                                     *)
LEMMA OneMore ==
  ASSUME NEW S, NEW s \in Seq(S), NEW n \in Nat, n < Len(s)
  PROVE  /\ SubSeq(s, 1, n) \in Seq(S) /\ Len(SubSeq(s, 1, n)) = n
         /\ SubSeq(s, 1, n + 1) = Append(SubSeq(s, 1, n), s[n + 1])
         /\ s[n + 1] \in S
<1>1. Len(s) \in Nat /\ \A i \in 1..Len(s) : s[i] \in S
  BY ElementOfSeq, LenProperties
<1>2. /\ SubSeq(s, 1, n) \in Seq(S) /\ Len(SubSeq(s, 1, n)) = n
      /\ \A i \in 1..n : SubSeq(s, 1, n)[i] = s[i]
  <2>1. \A i \in 1..n : s[i] \in S
    BY <1>1
  <2>2. /\ SubSeq(s, 1, n) \in Seq(S)
        /\ Len(SubSeq(s, 1, n)) = IF 1 <= n THEN n - 1 + 1 ELSE 0
        /\ \A i \in 1..n - 1 + 1 : SubSeq(s, 1, n)[i] = s[1 + i - 1]
    BY <2>1, SubSeqProperties
  <2> QED BY <2>2
<1>3. /\ SubSeq(s, 1, n + 1) \in Seq(S) /\ Len(SubSeq(s, 1, n + 1)) = n + 1
      /\ \A i \in 1..n + 1 : SubSeq(s, 1, n + 1)[i] = s[i]
  <2>1. \A i \in 1..n + 1 : s[i] \in S
    BY <1>1
  <2>2. /\ SubSeq(s, 1, n + 1) \in Seq(S)
        /\ Len(SubSeq(s, 1, n + 1)) = IF 1 <= n + 1 THEN n + 1 - 1 + 1 ELSE 0
        /\ \A i \in 1..n + 1 - 1 + 1 : SubSeq(s, 1, n + 1)[i] = s[1 + i - 1]
    BY <2>1, SubSeqProperties
  <2> QED BY <2>2
<1>4. s[n + 1] \in S
  BY <1>1
<1> DEFINE p == SubSeq(s, 1, n)  q == SubSeq(s, 1, n + 1)  r == Append(p, s[n + 1])
<1>5. /\ r \in Seq(S) /\ Len(r) = n + 1 /\ r[n + 1] = s[n + 1]
      /\ \A i \in 1..n : r[i] = p[i]
  BY <1>2, <1>4, AppendProperties
<1> HIDE DEF p, q, r
<1>6. q = r
  <2>1. q \in Seq(S) /\ Len(q) = n + 1 /\ \A i \in 1..n + 1 : q[i] = s[i]
    BY <1>3 DEF q
  <2>2. \A i \in 1..n + 1 : r[i] = s[i]
    <3>1. \A i \in 1..n : p[i] = s[i]
      BY <1>2 DEF p
    <3> QED BY <1>5, <3>1
  <2> QED BY <1>5, <2>1, <2>2, SeqEqual
<1> QED BY <1>2, <1>4, <1>6 DEF p, q, r

(* The tail takes the first away.                                          *)
LEMMA TailOfConcat ==
  ASSUME NEW S, NEW s \in Seq(S), NEW x \in S
  PROVE  Tail(<<x>> \o s) = s
<1> DEFINE h == <<x>>  a == h \o s
<1>1. h \in Seq(S) /\ Len(h) = 1
  OBVIOUS
<1> HIDE DEF h
<1>2. /\ a \in Seq(S) /\ Len(a) = Len(h) + Len(s) /\ Len(s) \in Nat
      /\ \A i \in 1..Len(h) + Len(s) : a[i] = IF i <= Len(h) THEN h[i] ELSE s[i - Len(h)]
  BY <1>1, ConcatProperties, LenProperties
<1> HIDE DEF a
<1>3. a # <<>>
  BY <1>1, <1>2, EmptySeq
<1>4. /\ Tail(a) \in Seq(S) /\ Len(Tail(a)) = Len(a) - 1
      /\ \A i \in 1..Len(Tail(a)) : Tail(a)[i] = a[i + 1]
  BY <1>2, <1>3, HeadTailProperties
<1>5. Len(Tail(a)) = Len(s) /\ \A i \in 1..Len(s) : Tail(a)[i] = s[i]
  BY <1>1, <1>2, <1>4
<1>6. Tail(a) = s
  BY <1>4, <1>5, SeqEqual
<1> QED BY <1>6 DEF a, h

(* The first k elements, and then n of the rest.                           *)
LEMMA FirstAndMore ==
  ASSUME NEW S, NEW s \in Seq(S), NEW k \in 0..Len(s), NEW n \in 0..Len(s) - k
  PROVE  /\ SubSeq(s, 1, k) \in Seq(S)
         /\ SubSeq(s, k + 1, Len(s)) \in Seq(S)
         /\ Len(SubSeq(s, k + 1, Len(s))) = Len(s) - k
         /\ \A i \in 1..Len(s) - k : SubSeq(s, k + 1, Len(s))[i] = s[k + i]
         /\ SubSeq(SubSeq(s, k + 1, Len(s)), 1, n) \in Seq(S)
         /\ Len(SubSeq(SubSeq(s, k + 1, Len(s)), 1, n)) = n
         /\ SubSeq(s, 1, k) \o SubSeq(SubSeq(s, k + 1, Len(s)), 1, n) = SubSeq(s, 1, k + n)
<1> DEFINE m == Len(s)  r == SubSeq(s, k + 1, m)  h == SubSeq(s, 1, k)  u == SubSeq(r, 1, n)
           w == SubSeq(s, 1, k + n)
<1>1. m \in Nat /\ \A i \in 1..m : s[i] \in S
  BY ElementOfSeq, LenProperties
<1>2. k \in Nat /\ n \in Nat /\ k <= m /\ k + n <= m
  BY <1>1
<1> HIDE DEF m
<1>3. r \in Seq(S) /\ Len(r) = m - k /\ \A i \in 1..m - k : r[i] = s[k + i]
  <2>1. \A i \in k + 1..m : s[i] \in S
    BY <1>1, <1>2
  <2>2. /\ r \in Seq(S) /\ Len(r) = IF k + 1 <= m THEN m - (k + 1) + 1 ELSE 0
        /\ \A i \in 1..m - (k + 1) + 1 : r[i] = s[k + 1 + i - 1]
    BY <1>1, <1>2, <2>1, SubSeqProperties
  <2> HIDE DEF r
  <2>3. \A i \in 1..m - k : i \in 1..m - (k + 1) + 1 /\ k + 1 + i - 1 = k + i
    BY <1>1, <1>2
  <2> QED BY <1>1, <1>2, <2>2, <2>3
<1>4. h \in Seq(S) /\ Len(h) = k /\ \A i \in 1..k : h[i] = s[i]
  <2>1. \A i \in 1..k : s[i] \in S
    BY <1>1, <1>2
  <2>2. /\ h \in Seq(S) /\ Len(h) = IF 1 <= k THEN k - 1 + 1 ELSE 0
        /\ \A i \in 1..k - 1 + 1 : h[i] = s[1 + i - 1]
    BY <1>2, <2>1, SubSeqProperties
  <2> HIDE DEF h
  <2> QED BY <1>2, <2>2
<1>5. w \in Seq(S) /\ Len(w) = k + n /\ \A i \in 1..k + n : w[i] = s[i]
  <2>1. \A i \in 1..k + n : s[i] \in S
    BY <1>1, <1>2
  <2>2. /\ w \in Seq(S) /\ Len(w) = IF 1 <= k + n THEN k + n - 1 + 1 ELSE 0
        /\ \A i \in 1..k + n - 1 + 1 : w[i] = s[1 + i - 1]
    BY <1>2, <2>1, SubSeqProperties
  <2> HIDE DEF w
  <2> QED BY <1>2, <2>2
<1> HIDE DEF r, h, w
<1>6. u \in Seq(S) /\ Len(u) = n /\ \A i \in 1..n : u[i] = s[k + i]
  <2>1. \A i \in 1..n : r[i] \in S /\ r[i] = s[k + i]
    BY <1>1, <1>2, <1>3
  <2>2. /\ u \in Seq(S) /\ Len(u) = IF 1 <= n THEN n - 1 + 1 ELSE 0
        /\ \A i \in 1..n - 1 + 1 : u[i] = r[1 + i - 1]
    BY <1>2, <2>1, SubSeqProperties
  <2> HIDE DEF u
  <2> QED BY <1>2, <2>1, <2>2
<1> HIDE DEF u
<1>7. h \o u = w
  <2>1. /\ h \o u \in Seq(S) /\ Len(h \o u) = k + n
        /\ \A i \in 1..k + n : (h \o u)[i] = IF i <= k THEN h[i] ELSE u[i - k]
    <3>1. /\ h \o u \in Seq(S) /\ Len(h \o u) = Len(h) + Len(u)
          /\ \A i \in 1..Len(h) + Len(u) : (h \o u)[i] = IF i <= Len(h) THEN h[i] ELSE u[i - Len(h)]
      <4>1. h \in Seq(S) /\ u \in Seq(S)
        BY <1>4, <1>6
      <4> QED BY <4>1, ConcatProperties
    <3> QED BY <1>4, <1>6, <3>1
  <2>2. \A i \in 1..k + n : (h \o u)[i] = w[i]
    <3> TAKE i \in 1..k + n
    <3>1. CASE i <= k
      BY <1>2, <1>4, <1>5, <2>1, <3>1
    <3>2. CASE ~(i <= k)
      <4>1. i - k \in 1..n /\ k + (i - k) = i
        BY <1>2, <3>2
      <4> QED BY <1>5, <1>6, <2>1, <3>2, <4>1
    <3> QED BY <3>1, <3>2
  <2> QED BY <1>5, <2>1, <2>2, SeqEqual
<1> QED BY <1>3, <1>4, <1>6, <1>7 DEF m, r, h, u, w

(* A set with the empty sequence, and with each of its sequences the ones  *)
(* that are longer by an element, has them all.                            *)
LEMMA SeqInduction ==
  ASSUME NEW S, NEW T, <<>> \in T,
         \A s \in Seq(S), c \in S : s \in T => Append(s, c) \in T
  PROVE  Seq(S) \subseteq T
<1> SUFFICES ASSUME NEW s \in Seq(S) PROVE s \in T
  OBVIOUS
<1> DEFINE N == {n \in Nat : n <= Len(s) => SubSeq(s, 1, n) \in T}
<1>1. Len(s) \in Nat
  BY LenProperties
<1>2. 0 \in N
  <2>1. SubSeq(s, 1, 0) = <<>>
    OBVIOUS
  <2> QED BY <2>1
<1>3. ASSUME NEW n \in Nat, n \in N PROVE n + 1 \in N
  <2>1. ASSUME n + 1 <= Len(s) PROVE SubSeq(s, 1, n + 1) \in T
    <3>1. n < Len(s) /\ n <= Len(s)
      BY <1>1, <2>1
    <3>2. SubSeq(s, 1, n) \in T
      BY <1>3, <3>1
    <3>3. /\ SubSeq(s, 1, n) \in Seq(S) /\ s[n + 1] \in S
          /\ SubSeq(s, 1, n + 1) = Append(SubSeq(s, 1, n), s[n + 1])
      BY <3>1, OneMore
    <3> QED BY <3>2, <3>3
  <2> QED BY <2>1
<1> HIDE DEF N
<1>4. Len(s) \in N
  BY <1>1, <1>2, <1>3, Induction
<1>5. SubSeq(s, 1, Len(s)) = s
  BY SubSeqFull
<1>6. Len(s) <= Len(s) => SubSeq(s, 1, Len(s)) \in T
  BY <1>4 DEF N
<1>7. SubSeq(s, 1, Len(s)) \in T
  BY <1>1, <1>6
<1> QED BY <1>5, <1>7, Zenon
=============================================================================
