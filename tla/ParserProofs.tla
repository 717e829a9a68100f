---------------------------- MODULE ParserProofs ----------------------------
(***************************************************************************)
(* The parser for any messages, plugins and commands: how a message is     *)
(* split, that it is handed to the plugin that registered its command      *)
(* last, and that no command outlives its plugin.                          *)
(***************************************************************************)
EXTENDS Parser, SequenceLemmas, TLAPS

(* handle_message makes a string of characters of the message.             *)
LEMMA TextType ==
  ASSUME NEW m \in Seq(Chars)
  PROVE  Text(m) \in Seq(Chars)
<1>1. Len(m) \in Nat /\ \A i \in 1..Len(m) : m[i] \in Chars
  OBVIOUS
<1>2. PICK n \in 0..Len(m) : /\ \A i \in 1..n : m[i] \in Chars \ {"nul"}
                             /\ n < Len(m) => m[n + 1] \notin Chars \ {"nul"}
  BY <1>1, LongestHead
<1>3. (\A i \in 1..n : m[i] # "nul") /\ (n < Len(m) => m[n + 1] = "nul")
  BY <1>1, <1>2
<1>4. Strlen(m) \in 0..Len(m)
  BY <1>3 DEF Strlen
<1> QED BY <1>1, <1>4 DEF Text

-----------------------------------------------------------------------------
(* Where the capitals end, and where the line does.                        *)
LEMMA Ends ==
  ASSUME NEW t \in Seq(Chars)
  PROVE  /\ CapitalsEnd(t) \in 0..Len(t)
         /\ \A i \in 1..CapitalsEnd(t) : t[i] \in Capitals
         /\ CapitalsEnd(t) < Len(t) => t[CapitalsEnd(t) + 1] \notin Capitals
         /\ LineEnd(t) \in Nat /\ CapitalsEnd(t) <= LineEnd(t) /\ LineEnd(t) <= Len(t)
         /\ Len(t) \in Nat
<1>1. Len(t) \in Nat /\ (t # <<>> => Len(t) > 0)
  OBVIOUS
<1>2. \E n \in 0..Len(t) : /\ \A i \in 1..n : t[i] \in Capitals
                           /\ n < Len(t) => t[n + 1] \notin Capitals
  BY <1>1, LongestHead
<1>3. /\ CapitalsEnd(t) \in 0..Len(t)
      /\ \A i \in 1..CapitalsEnd(t) : t[i] \in Capitals
      /\ CapitalsEnd(t) < Len(t) => t[CapitalsEnd(t) + 1] \notin Capitals
  BY <1>2 DEF CapitalsEnd
<1>4. LineEnd(t) \in Nat /\ LineEnd(t) <= Len(t)
  BY <1>1 DEF LineEnd
<1>5. CapitalsEnd(t) <= LineEnd(t)
  <2>1. CASE t # <<>> /\ t[Len(t)] = "newline"
    <3>1. CapitalsEnd(t) # Len(t)
      BY <1>1, <1>3, <2>1, ParserAssumption
    <3> QED BY <1>1, <1>3, <2>1, <3>1 DEF LineEnd
  <2>2. CASE ~(t # <<>> /\ t[Len(t)] = "newline")
    BY <1>1, <1>3, <2>2 DEF LineEnd
  <2> QED BY <2>1, <2>2
<1> QED BY <1>1, <1>3, <1>4, <1>5

(* The split that Understood, WordEnd and ParamStart describe. *)
Plain(t) == [word |-> WordEnd(t), from |-> ParamStart(t), to |-> LineEnd(t)]

(* It is one of the ways the regular expression can match ...              *)
LEMMA PlainSplits ==
  ASSUME NEW t \in Seq(Chars), Understood(t)
  PROVE  Plain(t) \in Splits(t)
<1> DEFINE w == WordEnd(t)  f == ParamStart(t)  e == LineEnd(t)
<1>1. /\ e \in Nat /\ e >= 2 /\ e <= Len(t) /\ Len(t) \in Nat /\ CapitalsEnd(t) \in Nat
      /\ CapitalsEnd(t) <= e
      /\ \A i \in 1..CapitalsEnd(t) : t[i] \in Capitals
  BY Ends DEF Understood
<1>2. CapitalsEnd(t) >= 1
  BY <1>1, Ends DEF Understood
<1>3. w \in Nat /\ w >= 1 /\ w < e /\ w <= CapitalsEnd(t)
  BY <1>1, <1>2 DEF WordEnd
<1>4. \/ f = w + 1
      \/ f = w + 2 /\ t[w + 1] = "space"
  BY DEF ParamStart
<1>5. f \in Nat /\ f >= 1 /\ f <= e
  BY <1>1, <1>3 DEF ParamStart
<1>6. /\ \A i \in 1..w : t[i] \in Capitals
      /\ \A i \in f..e : t[i] # "newline"
      /\ \A i \in DOMAIN t : t[i] # "bad"
  BY <1>1, <1>3, <1>5 DEF Understood
<1>7. e = Len(t) \/ (e = Len(t) - 1 /\ t[Len(t)] = "newline")
  BY DEF LineEnd
<1>8. Plain(t) \in [word : 1..Len(t), from : 1..Len(t), to : 1..Len(t)]
  BY <1>1, <1>3, <1>5 DEF Plain
<1> HIDE DEF w, f, e
<1> QED BY <1>4, <1>5, <1>6, <1>7, <1>8 DEF Splits, Plain, w, f, e

(* ... and the first one that is tried; there is none if the text is not   *)
(* understood.                                                             *)
LEMMA PlainFirst ==
  ASSUME NEW t \in Seq(Chars), NEW s \in Splits(t)
  PROVE  Understood(t) /\ s.to = LineEnd(t) /\ TriedBefore(Plain(t), s)
<1> DEFINE e == LineEnd(t)  n == CapitalsEnd(t)
<1>1. /\ s.word \in Nat /\ s.from \in Nat /\ s.to \in Nat /\ Len(t) \in Nat
      /\ s.word >= 1 /\ s.word <= Len(t) /\ s.to <= Len(t)
      /\ \A i \in DOMAIN t : t[i] # "bad"
      /\ \A i \in 1..s.word : t[i] \in Capitals
      /\ \/ s.from = s.word + 1
         \/ s.from = s.word + 2 /\ t[s.word + 1] = "space"
      /\ s.from <= s.to /\ \A i \in s.from..s.to : t[i] # "newline"
      /\ \/ s.to = Len(t)
         \/ s.to = Len(t) - 1 /\ t[Len(t)] = "newline"
  BY DEF Splits
<1>2. s.to = e
  BY <1>1 DEF LineEnd
<1>3. /\ n \in Nat /\ n <= e /\ e \in Nat /\ e <= Len(t)
      /\ n < Len(t) => t[n + 1] \notin Capitals
  BY Ends
<1>4. s.word <= n /\ s.word < e
  BY <1>1, <1>2, <1>3
<1>5. Understood(t)
  <2>1. e >= 2 /\ t[1] \in Capitals
    BY <1>1, <1>2
  <2>2. \A i \in 1..Len(t) : t[i] # "bad"
    BY <1>1
  <2>3. \A i \in 1..e : t[i] # "newline"
    BY <1>1, <1>2, <1>3, ParserAssumption
  <2> QED BY <2>1, <2>2, <2>3 DEF Understood
<1>6. WordEnd(t) \in Nat /\ s.word <= WordEnd(t)
  BY <1>1, <1>3, <1>4 DEF WordEnd
<1>7. s.word = WordEnd(t) => s.from <= ParamStart(t)
  BY <1>1, <1>2, <1>3, <1>6 DEF ParamStart
<1>8. ParamStart(t) \in Nat
  BY <1>6 DEF ParamStart
<1> QED BY <1>1, <1>2, <1>5, <1>6, <1>7, <1>8 DEF TriedBefore, Plain

(* The regular expression matches just the texts that are understood, and  *)
(* splits them into all their capitals (but for the last letter of a bare  *)
(* command) and the rest (parser.c:104-126).                               *)
THEOREM SplitCorrect ==
  ASSUME NEW t \in Seq(Chars)
  PROVE  /\ Splits(t) # {} <=> Understood(t)
         /\ Understood(t) => Match(t) = Plain(t)
<1>1. Splits(t) # {} <=> Understood(t)
  BY PlainSplits, PlainFirst
<1>2. ASSUME Understood(t) PROVE Match(t) = Plain(t)
  <2> DEFINE TriedFirst(s) == s \in Splits(t) /\ \A r \in Splits(t) : TriedBefore(s, r)
  <2>1. TriedFirst(Plain(t))
    BY <1>2, PlainSplits, PlainFirst
  <2>2. ASSUME NEW s, TriedFirst(s) PROVE s = Plain(t)
    <3>1. /\ s \in [word : 1..Len(t), from : 1..Len(t), to : 1..Len(t)]
          /\ Plain(t) \in [word : 1..Len(t), from : 1..Len(t), to : 1..Len(t)]
      BY <2>1, <2>2 DEF Splits
    <3>2. s.to = LineEnd(t) /\ TriedBefore(Plain(t), s) /\ TriedBefore(s, Plain(t))
      BY <2>1, <2>2, PlainFirst
    <3>3. Len(t) \in Nat
      OBVIOUS
    <3>4. s.word = Plain(t).word /\ s.from = Plain(t).from /\ s.to = Plain(t).to
      <4>1. Plain(t).to = LineEnd(t)
        BY DEF Plain
      <4> HIDE DEF TriedFirst
      <4> QED BY <3>1, <3>2, <3>3, <4>1 DEF TriedBefore
    <3> QED BY <3>1, <3>4
  <2>3. Match(t) = CHOOSE s : TriedFirst(s)
    BY DEF Match
  <2> HIDE DEF TriedFirst
  <2> QED BY <2>1, <2>2, <2>3
<1> QED BY <1>1, <1>2

-----------------------------------------------------------------------------
(* The invariant holds when main begins to load plugins.                   *)
LEMMA InitIInv == Init => IInv
<1> SUFFICES ASSUME Init PROVE IInv
  OBVIOUS
<1> USE ParserAssumption
<1>1. /\ pc = "load" /\ tried = 0 /\ list = <<>> /\ DOMAIN table = {}
      /\ called = NoCall /\ Len(Plugins) \in Nat
      /\ \A i \in 1..Len(Plugins) : Plugins[i] \in Names
      /\ \A p \in Names : ctx[p] = "none"
  BY DEF Init
<1>2. TypeOK
  BY <1>1 DEF Init, TypeOK, NoCall
<1>3. ListOK
  BY <1>1 DEF ListOK
<1>4. TableOK
  BY <1>1 DEF TableOK
<1>5. ~Understood(<<>>)
  BY DEF Understood, LineEnd
<1>6. HandedToOwner
  BY <1>1, <1>5 DEF HandedToOwner, NoCall
<1> QED BY <1>1, <1>2, <1>3, <1>4, <1>6 DEF IInv

(* What the plugin array and its positions are. *)
LEMMA Positions ==
  /\ Len(Plugins) \in Nat
  /\ \A i \in 1..Len(Plugins) : Plugins[i] \in Names
  /\ \A i, j \in 1..Len(Plugins) : Plugins[i] = Plugins[j] => i = j
  /\ \A p \in Names : \E i \in 1..Len(Plugins) : Plugins[i] = p
<1>1. Plugins \in Seq(Names) /\ IsInjective(Plugins)
  BY ParserAssumption
<1>2. Len(Plugins) \in Nat /\ DOMAIN Plugins = 1..Len(Plugins)
  BY <1>1
<1>3. \A i, j \in 1..Len(Plugins) : Plugins[i] = Plugins[j] => i = j
  BY <1>1, <1>2 DEF IsInjective
<1>4. \A p \in Names : \E i \in 1..Len(Plugins) : Plugins[i] = p
  BY <1>2 DEF Names, Range
<1> QED BY <1>1, <1>2, <1>3, <1>4

(* g_slist_prepend: the new element is first, the others move up by one.   *)
LEMMA ConsProperties ==
  ASSUME NEW S, NEW s \in Seq(S), NEW e \in S
  PROVE  /\ Cons(e, s) \in Seq(S)
         /\ Len(Cons(e, s)) = Len(s) + 1
         /\ Cons(e, s)[1] = e
         /\ \A i \in 1..Len(s) : Cons(e, s)[i + 1] = s[i]
BY DEF Cons

(* The head of the list leaves, the others move down by one. *)
LEMMA HeadRemoved ==
  ASSUME NEW S, NEW s \in Seq(S), s # <<>>
  PROVE  /\ RemoveAt(s, 1) \in Seq(S) /\ Len(RemoveAt(s, 1)) = Len(s) - 1
         /\ \A i \in 1..(Len(s) - 1) : RemoveAt(s, 1)[i] = s[i + 1]
<1>1. SubSeq(s, 1, 0) = <<>>
  OBVIOUS
<1>2. RemoveAt(s, 1) = <<>> \o SubSeq(s, 2, Len(s))
  BY <1>1 DEF RemoveAt
<1>3. RemoveAt(s, 1) = SubSeq(s, 2, Len(s))
  BY <1>2
<1>4. Len(s) \in Nat /\ Len(s) >= 1 /\ \A i \in 1..Len(s) : s[i] \in S
  OBVIOUS
<1>5. /\ SubSeq(s, 2, Len(s)) \in Seq(S)
      /\ Len(SubSeq(s, 2, Len(s))) = IF 2 <= Len(s) THEN Len(s) - 2 + 1 ELSE 0
      /\ \A i \in 1..(Len(s) - 2 + 1) : SubSeq(s, 2, Len(s))[i] = s[2 + i - 1]
  BY <1>4, SubSeqProperties
<1>6. Len(SubSeq(s, 2, Len(s))) = Len(s) - 1
  <2> DEFINE n == Len(s)  l == Len(SubSeq(s, 2, Len(s)))
  <2>1. n \in Nat /\ n >= 1 /\ l = IF 2 <= n THEN n - 2 + 1 ELSE 0
    BY <1>4, <1>5
  <2> HIDE DEF n, l
  <2>2. l = n - 1
    BY <2>1
  <2> QED BY <2>2 DEF n, l
<1>7. \A i \in 1..(Len(s) - 1) : SubSeq(s, 2, Len(s))[i] = s[i + 1]
  <2>1. \A i \in 1..(Len(s) - 1) : i \in 1..(Len(s) - 2 + 1) /\ 2 + i - 1 = i + 1
    BY <1>4
  <2> QED BY <1>5, <2>1
<1> QED BY <1>3, <1>5, <1>6, <1>7

(* Registering a plugin: its context heads the list and its commands take  *)
(* the place of older ones, or, when it refuses, nothing is left of it.    *)
LEMMA RegisterKeeps ==
  ASSUME IInv, Register
  PROVE  TypeOK' /\ ListOK' /\ TableOK'
<1> DEFINE n == tried + 1  p == Plugins[n]
<1>1. /\ pc = "load" /\ pc' = "load" /\ called' = called
      /\ n \in 1..Len(Plugins) /\ tried \in Nat /\ tried' = n /\ p \in Names
      /\ ctx' = [ctx EXCEPT ![p] = IF p \in Refuses THEN "freed" ELSE "live"]
      /\ list' = IF p \in Refuses THEN list ELSE Cons(p, list)
      /\ table' = IF p \in Refuses THEN table ELSE Entered(p)
      /\ ctx \in [Names -> {"none", "live", "freed"}] /\ list \in Seq(Names)
  BY Positions DEF Register, Accepted, IInv, TypeOK
<1>2. /\ ctx' \in [Names -> {"none", "live", "freed"}]
      /\ ctx'[p] = IF p \in Refuses THEN "freed" ELSE "live"
      /\ \A q \in Names : q # p => ctx'[q] = ctx[q]
      /\ ctx[p] = "none"
  BY <1>1 DEF IInv, ListOK
<1>3. \A i \in 1..Len(Plugins) : i # n => Plugins[i] # p /\ Plugins[i] \in Names
  BY <1>1, Positions
<1>4. \A k \in DOMAIN list : list[k] \in Names /\ list[k] # p /\ k \in Nat
  BY <1>1, <1>2 DEF IInv, ListOK
<1>5. CASE p \in Refuses
  <2>1. list' = list /\ table' = table
    BY <1>1, <1>5
  <2>2. TypeOK'
    BY <1>1, <1>2, <2>1, Positions DEF IInv, TypeOK
  <2>3. ListOK'
    BY <1>1, <1>2, <1>3, <1>4, <1>5, <2>1 DEF IInv, ListOK
  <2>4. TableOK'
    <3>1. ASSUME NEW i \in 1..tried', Plugins[i] \notin Refuses
          PROVE  Registers[Plugins[i]] \subseteq DOMAIN table'
      BY <1>1, <1>5, <2>1, <3>1 DEF IInv, TableOK
    <3>2. ASSUME NEW c \in DOMAIN table'
          PROVE  \E i \in Owner(c) : /\ table'[c] = Plugins[i] /\ i <= tried'
                                     /\ \A j \in Owner(c) : j <= i \/ j > tried'
      <4>1. PICK i \in Owner(c) : /\ table[c] = Plugins[i] /\ i <= tried
                                  /\ \A j \in Owner(c) : j <= i \/ j > tried
        BY <1>1, <2>1 DEF IInv, TableOK
      <4>2. i \in Nat /\ \A j \in Owner(c) : j # n /\ j \in Nat
        BY <1>5, <4>1, Positions DEF Owner
      <4>3. ASSUME NEW j \in Owner(c) PROVE j <= i \/ j > n
        BY <1>1, <4>1, <4>2
      <4> QED BY <1>1, <2>1, <4>1, <4>2, <4>3
    <3> QED BY <1>1, <3>1, <3>2 DEF TableOK
  <2> QED BY <2>2, <2>3, <2>4
<1>6. CASE p \notin Refuses
  <2>1. /\ list' \in Seq(Names) /\ Len(list') = Len(list) + 1 /\ Len(list) \in Nat
        /\ list'[1] = p /\ \A k \in 1..Len(list) : list'[k + 1] = list[k]
    <3>1. list' = Cons(p, list) /\ list \in Seq(Names) /\ p \in Names
      BY <1>1, <1>6
    <3> HIDE DEF p
    <3> QED BY <3>1 DEF Cons
  <2>2. /\ DOMAIN table' = DOMAIN table \cup Registers[p]
        /\ \A c \in Registers[p] : table'[c] = p
        /\ \A c \in DOMAIN table \ Registers[p] : table'[c] = table[c]
    BY <1>1, <1>6 DEF Entered
  <2>3. Registers[p] \subseteq Seq(Capitals)
    BY <1>1, ParserAssumption
  <2>4. TypeOK'
    <3>1. \A c \in DOMAIN table' : table'[c] \in Names
      BY <1>1, <2>2 DEF IInv, TypeOK
    <3>2. DOMAIN table' \subseteq Seq(Capitals)
      BY <2>2, <2>3 DEF IInv, TypeOK
    <3>3. tried' \in 0..Len(Plugins)
      BY <1>1, Positions
    <3> QED BY <1>1, <1>2, <2>1, <3>1, <3>2, <3>3 DEF IInv, TypeOK
  <2>5. \A k \in DOMAIN list' : \/ k = 1 /\ list'[k] = p
                                \/ /\ k - 1 \in DOMAIN list /\ k > 1
                                   /\ list'[k] = list[k - 1]
    BY <2>1
  <2>6. ListOK'
    <3>1. ASSUME NEW i \in 1..Len(Plugins)
          PROVE  LET q == Plugins[i] IN
                 /\ ctx'[q] = "none" <=> i > tried'
                 /\ q \in Refuses => ctx'[q] # "live"
                 /\ i <= tried' /\ q \notin Refuses => ctx'[q] = "live"
                 /\ ctx'[q] = "live" => \E k \in DOMAIN list' : list'[k] = q
      <4>1. CASE i = n
        BY <1>1, <1>2, <1>6, <2>1, <4>1
      <4>2. CASE i # n
        <5>1. /\ Plugins[i] # p /\ ctx'[Plugins[i]] = ctx[Plugins[i]]
              /\ i > tried' <=> i > tried
          BY <1>1, <1>2, <1>3, <4>2
        <5>2. ctx[Plugins[i]] = "live" => \E k \in 1..Len(list) : list[k] = Plugins[i]
          BY <1>1 DEF IInv, ListOK
        <5>3. ctx[Plugins[i]] = "live" => \E k \in DOMAIN list' : list'[k] = Plugins[i]
          BY <2>1, <5>2
        <5> QED BY <1>1, <5>1, <5>3 DEF IInv, ListOK
      <4> QED BY <4>1, <4>2
    <3>2. \A k \in DOMAIN list' : ctx'[list'[k]] = "live"
      BY <1>2, <1>4, <1>6, <2>5 DEF IInv, ListOK
    <3>3. ASSUME NEW k \in DOMAIN list', NEW l \in DOMAIN list',
                 NEW i \in 1..Len(Plugins), NEW j \in 1..Len(Plugins),
                 k < l, list'[k] = Plugins[i], list'[l] = Plugins[j]
          PROVE  j < i
      <4>1. k \in Nat /\ l \in Nat /\ k >= 1
        BY <2>1
      <4>2. l - 1 \in DOMAIN list /\ list[l - 1] = Plugins[j]
        BY <2>5, <3>3, <4>1
      <4>3. ctx[Plugins[j]] = "live" /\ j <= tried
        BY <4>2, <1>1 DEF IInv, ListOK
      <4>4. CASE k = 1
        <5>1. i = n
          BY <1>1, <2>1, <3>3, <4>4, Positions
        <5> QED BY <1>1, <4>3, <5>1
      <4>5. CASE k # 1
        <5>1. k - 1 \in DOMAIN list /\ list[k - 1] = Plugins[i] /\ k - 1 < l - 1
          BY <2>5, <3>3, <4>1, <4>5
        <5> QED BY <4>2, <5>1 DEF IInv, ListOK
      <4> QED BY <4>4, <4>5
    <3> QED BY <1>1, <3>1, <3>2, <3>3 DEF ListOK
  <2>7. TableOK'
    <3>1. ASSUME NEW i \in 1..tried', Plugins[i] \notin Refuses
          PROVE  Registers[Plugins[i]] \subseteq DOMAIN table'
      <4>1. CASE i = n
        BY <2>2, <4>1
      <4>2. CASE i # n
        BY <1>1, <2>2, <3>1, <4>2 DEF IInv, TableOK
      <4> QED BY <4>1, <4>2
    <3>2. ASSUME NEW c \in DOMAIN table'
          PROVE  \E i \in Owner(c) : /\ table'[c] = Plugins[i] /\ i <= tried'
                                     /\ \A j \in Owner(c) : j <= i \/ j > tried'
      <4>1. CASE c \in Registers[p]
        BY <1>1, <1>6, <2>2, <4>1, Positions DEF Owner
      <4>2. CASE c \notin Registers[p]
        <5>1. PICK i \in Owner(c) : /\ table[c] = Plugins[i] /\ i <= tried
                                    /\ \A j \in Owner(c) : j <= i \/ j > tried
          BY <1>1, <2>2, <4>2 DEF IInv, TableOK
        <5>2. i <= tried' /\ i \in Nat /\ \A j \in Owner(c) : j # n /\ j \in Nat
          BY <1>1, <4>2, <5>1, Positions DEF Owner
        <5>3. ASSUME NEW j \in Owner(c) PROVE j <= i \/ j > tried'
          BY <1>1, <5>1, <5>2
        <5> QED BY <2>2, <4>2, <5>1, <5>2, <5>3
      <4> QED BY <4>1, <4>2
    <3> QED BY <1>1, <3>1, <3>2 DEF TableOK
  <2> QED BY <2>4, <2>6, <2>7
<1> QED BY <1>5, <1>6

(* Unloading a plugin: its context leaves the head of the list.            *)
LEMMA FreePluginKeeps ==
  ASSUME IInv, FreePlugin
  PROVE  TypeOK' /\ ListOK' /\ TableOK'
<1> DEFINE p == list[1]
<1>1. /\ pc = "free" /\ pc' = "free" /\ UNCHANGED <<tried, table, called>>
      /\ list \in Seq(Names) /\ list # <<>> /\ p \in Names /\ Len(list) \in Nat
      /\ 1 \in DOMAIN list
      /\ ctx' = [ctx EXCEPT ![p] = "freed"]
      /\ ctx \in [Names -> {"none", "live", "freed"}]
      /\ tried = Len(Plugins) /\ DOMAIN table = {}
  BY DEF FreePlugin, Newest, IInv, TypeOK, ListOK, TableOK
<1>2. /\ list' \in Seq(Names) /\ Len(list') = Len(list) - 1
      /\ \A k \in 1..(Len(list) - 1) : list'[k] = list[k + 1]
  BY <1>1, HeadRemoved DEF FreePlugin, Newest
<1>3. \A k \in DOMAIN list' : k + 1 \in DOMAIN list /\ list'[k] = list[k + 1] /\ k \in Nat
                              /\ k >= 1
  BY <1>1, <1>2
<1>4. /\ ctx' \in [Names -> {"none", "live", "freed"}] /\ ctx'[p] = "freed"
      /\ \A q \in Names : q # p => ctx'[q] = ctx[q]
      /\ ctx[p] = "live"
  BY <1>1 DEF IInv, ListOK
<1>5. \A k \in DOMAIN list' : list'[k] # p
  <2> SUFFICES ASSUME NEW k \in DOMAIN list', list[k + 1] = p PROVE FALSE
    BY <1>3
  <2>1. PICK i \in 1..Len(Plugins) : Plugins[i] = p
    BY <1>1, Positions
  <2>2. 1 < k + 1 /\ k + 1 \in DOMAIN list
    BY <1>3
  <2>3. i < i
    BY <1>1, <2>1, <2>2 DEF IInv, ListOK
  <2> QED BY <2>3, Positions
<1>6. TypeOK'
  BY <1>1, <1>2, <1>4 DEF IInv, TypeOK
<1>7. ListOK'
  <2>1. ASSUME NEW i \in 1..Len(Plugins)
        PROVE  LET q == Plugins[i] IN
               /\ ctx'[q] = "none" <=> i > tried'
               /\ q \in Refuses => ctx'[q] # "live"
               /\ ctx'[q] = "live" => \E k \in DOMAIN list' : list'[k] = q
    <3>1. CASE Plugins[i] = p
      BY <1>1, <1>4, <3>1 DEF IInv, ListOK
    <3>2. CASE Plugins[i] # p
      <4>1. Plugins[i] \in Names /\ ctx'[Plugins[i]] = ctx[Plugins[i]]
        BY <1>4, <3>2, Positions
      <4>2. ASSUME ctx[Plugins[i]] = "live"
            PROVE  \E k \in DOMAIN list' : list'[k] = Plugins[i]
        <5>1. PICK k \in DOMAIN list : list[k] = Plugins[i]
          BY <4>2 DEF IInv, ListOK
        <5>2. k # 1 /\ k \in 1..Len(list)
          BY <1>1, <3>2, <5>1
        <5>3. k - 1 \in 1..(Len(list) - 1) /\ (k - 1) + 1 = k
          BY <1>1, <5>2
        <5>4. k - 1 \in DOMAIN list' /\ list'[k - 1] = list[k]
          BY <1>2, <5>3
        <5> QED BY <5>1, <5>4
      <4> QED BY <1>1, <4>1, <4>2 DEF IInv, ListOK
    <3> QED BY <3>1, <3>2
  <2>2. \A k \in DOMAIN list' : ctx'[list'[k]] = "live"
    <3> SUFFICES ASSUME NEW k \in DOMAIN list' PROVE ctx'[list'[k]] = "live"
      OBVIOUS
    <3>1. list'[k] = list[k + 1] /\ k + 1 \in DOMAIN list /\ list'[k] # p
      BY <1>3, <1>5
    <3>2. ctx[list[k + 1]] = "live" /\ list[k + 1] \in Names
      BY <1>1, <3>1 DEF IInv, ListOK
    <3> QED BY <1>4, <3>1, <3>2
  <2>3. ASSUME NEW k \in DOMAIN list', NEW l \in DOMAIN list',
               NEW i \in 1..Len(Plugins), NEW j \in 1..Len(Plugins),
               k < l, list'[k] = Plugins[i], list'[l] = Plugins[j]
        PROVE  j < i
    <3>1. /\ k + 1 \in DOMAIN list /\ l + 1 \in DOMAIN list /\ k + 1 < l + 1
          /\ list[k + 1] = Plugins[i] /\ list[l + 1] = Plugins[j]
      BY <1>3, <2>3
    <3> QED BY <3>1 DEF IInv, ListOK
  <2> QED BY <1>1, <2>1, <2>2, <2>3 DEF ListOK
<1>8. TableOK'
  BY <1>1 DEF TableOK
<1> QED BY <1>6, <1>7, <1>8

(* The steps that leave plugins and contexts alone.                        *)
LEMMA OthersKeep ==
  ASSUME IInv,
         \/ RegisterAborts \/ Serve \/ Reply \/ Free \/ Freed \/ UNCHANGED vars
         \/ \E m \in Messages : Invalid(m) \/ Dispatch(m)
  PROVE  /\ ListOK' /\ TableOK'
         /\ UNCHANGED <<tried, ctx, list>> /\ pc' \in {"load", "serve", "reply", "free",
                                                     "done", "aborted"}
<1>1. /\ UNCHANGED <<tried, ctx, list>>
      /\ pc' \in {"load", "serve", "reply", "free", "done", "aborted"}
  BY DEF RegisterAborts, Serve, Reply, Free, Freed, Invalid, Dispatch, vars, IInv, TypeOK
<1>2. /\ pc \in {"free", "done"} => pc' \in {"free", "done"}
      /\ pc' \in {"load", "aborted"} \/ tried = Len(Plugins)
      /\ pc' = "done" => list = <<>>
  BY DEF RegisterAborts, Serve, Reply, Free, Freed, Invalid, Dispatch, vars, IInv, ListOK
<1>3. IF pc' \in {"free", "done"} THEN DOMAIN table' = {} ELSE table' = table
  BY DEF RegisterAborts, Serve, Reply, Free, Freed, TableGone, Invalid, Dispatch, vars,
     IInv, TableOK
<1>4. ListOK'
  BY <1>1, <1>2 DEF IInv, ListOK
<1>5. TableOK'
  BY <1>1, <1>2, <1>3 DEF IInv, TableOK
<1> QED BY <1>1, <1>4, <1>5

(* A message is handed to the plugin that registered its command last.     *)
LEMMA HandedKeeps ==
  ASSUME IInv, NEW m \in Messages, Invalid(m) \/ Dispatch(m)
  PROVE  /\ HandedToOwner'
         /\ called'.text \in Seq(Chars) /\ called'.param \in Seq(Chars)
         /\ called'.plugin \in Names \cup {NULL}
<1> DEFINE t == Text(m)  c == SubSeq(t, 1, WordEnd(t))
<1>1. m \in Seq(Chars) /\ t \in Seq(Chars)
  BY TextType, ParserAssumption
<1>2. /\ pc = "serve" /\ tried = Len(Plugins) /\ called'.text = t
  BY DEF Invalid, Dispatch, IInv, ListOK
<1>3. Splits(t) # {} <=> Understood(t)
  BY <1>1, SplitCorrect
<1>4. ASSUME Understood(t)
      PROVE  /\ Command(t) = c /\ Param(t) = SubSeq(t, ParamStart(t), LineEnd(t))
             /\ Param(t) \in Seq(Chars)
  <2>1. Match(t) = Plain(t) /\ Plain(t) \in Splits(t)
    BY <1>1, <1>4, SplitCorrect, PlainSplits
  <2>2. /\ Match(t).word = WordEnd(t) /\ Match(t).from = ParamStart(t)
        /\ Match(t).to = LineEnd(t)
    BY <2>1 DEF Plain
  <2>3. Command(t) = c /\ Param(t) = SubSeq(t, ParamStart(t), LineEnd(t))
    BY <2>2 DEF Command, Param
  <2>4. ParamStart(t) \in 1..Len(t) /\ LineEnd(t) \in 1..Len(t) /\ Len(t) \in Nat
    BY <1>1, <2>1 DEF Splits, Plain
  <2>5. Param(t) \in Seq(Chars)
    BY <1>1, <2>3, <2>4
  <2> QED BY <2>3, <2>5
<1>5. ASSUME NEW d
      PROVE  /\ d \in DOMAIN table <=> Owner(d) # {}
             /\ d \in DOMAIN table => \E i \in Owner(d) : /\ table[d] = Plugins[i]
                                                          /\ \A j \in Owner(d) : j <= i
  <2>1. \A i \in Owner(d) : i \in 1..tried /\ Plugins[i] \notin Refuses
                            /\ d \in Registers[Plugins[i]]
    BY <1>2 DEF Owner
  <2>2. Owner(d) # {} => d \in DOMAIN table
    BY <1>2, <2>1 DEF IInv, TableOK
  <2>3. d \in DOMAIN table => \E i \in Owner(d) : /\ table[d] = Plugins[i]
                                                  /\ \A j \in Owner(d) : j <= i
    BY <1>2, <2>1, Positions DEF IInv, TableOK
  <2> QED BY <2>2, <2>3
<1>6. CASE Dispatch(m)
  <2>1. Understood(t) /\ Command(t) \in DOMAIN table
    BY <1>3, <1>6 DEF Dispatch, Known
  <2>2. called' = [text |-> t, plugin |-> table[c],
                   param |-> SubSeq(t, ParamStart(t), LineEnd(t))]
    BY <1>4, <1>6, <2>1 DEF Dispatch
  <2>3. c \in DOMAIN table
    BY <1>4, <2>1
  <2>4. PICK i \in Owner(c) : table[c] = Plugins[i] /\ \A j \in Owner(c) : j <= i
    BY <1>5, <2>3
  <2>5. table[c] \in Names
    BY <2>3 DEF IInv, TypeOK
  <2>6. HandedToOwner'
    BY <2>1, <2>2, <2>4 DEF HandedToOwner
  <2> QED BY <1>1, <1>4, <2>1, <2>2, <2>5, <2>6
<1>7. CASE Invalid(m)
  <2>1. called' = [text |-> t, plugin |-> NULL, param |-> <<>>]
    BY <1>7 DEF Invalid
  <2>2. ~(Understood(t) /\ Owner(c) # {})
    BY <1>3, <1>4, <1>5, <1>7 DEF Invalid, Known
  <2>3. HandedToOwner'
    BY <2>1, <2>2 DEF HandedToOwner
  <2> QED BY <1>1, <2>1, <2>3
<1> QED BY <1>6, <1>7

(* Every step keeps the invariant.                                         *)
LEMMA NextIInv == IInv /\ [Next]_vars => IInv'
<1> SUFFICES ASSUME IInv, [Next]_vars PROVE IInv'
  OBVIOUS
<1>1. NoCall.text \in Seq(Chars) /\ NoCall.param \in Seq(Chars) /\ NoCall.plugin = NULL
  BY DEF NoCall
<1>2. ~Understood(<<>>)
  BY DEF Understood, LineEnd
<1>3. called' = NoCall => HandedToOwner'
  BY <1>2 DEF HandedToOwner, NoCall
<1>4. CASE Register
  <2>1. called' = NoCall
    BY <1>4 DEF Register, IInv
  <2> QED BY <1>3, <1>4, <2>1, RegisterKeeps DEF IInv
<1>5. CASE FreePlugin
  <2>1. called' = NoCall
    BY <1>5 DEF FreePlugin, IInv
  <2> QED BY <1>3, <1>5, <2>1, FreePluginKeeps DEF IInv
<1>6. CASE \E m \in Messages : Invalid(m) \/ Dispatch(m)
  <2> PICK m \in Messages : Invalid(m) \/ Dispatch(m)
    BY <1>6
  <2>1. pc' = "reply" /\ table' = table
    BY DEF Invalid, Dispatch
  <2>2. TypeOK'
    BY <1>6, <2>1, OthersKeep, HandedKeeps DEF IInv, TypeOK
  <2> QED BY <1>6, <2>1, <2>2, OthersKeep, HandedKeeps DEF IInv
<1>7. CASE RegisterAborts \/ Serve \/ Reply \/ Free \/ Freed
  <2>1. called' = NoCall /\ pc' # "reply" /\ (table' = table \/ table' = <<>>)
    BY <1>7 DEF RegisterAborts, Serve, Reply, Free, Freed, TableGone, IInv
  <2>2. TypeOK'
    BY <1>1, <1>7, <2>1, OthersKeep DEF IInv, TypeOK
  <2> QED BY <1>3, <1>7, <2>1, <2>2, OthersKeep DEF IInv
<1>8. CASE UNCHANGED vars
  <2>1. TypeOK' /\ HandedToOwner' /\ (pc' # "reply" => called' = NoCall)
    BY <1>8 DEF IInv, TypeOK, HandedToOwner, vars
  <2> QED BY <1>8, <2>1, OthersKeep DEF IInv
<1> QED BY <1>4, <1>5, <1>6, <1>7, <1>8 DEF Next

(* The invariant holds in every state of the process.                      *)
THEOREM Invariance == Spec => []IInv
<1> QED BY InitIInv, NextIInv, PTL DEF Spec

(* A message goes to the plugin that registered its command last, with all *)
(* that follows the command, or to none (parser.c:99-137).                 *)
THEOREM Handed == Spec => []HandedToOwner
<1>1. IInv => HandedToOwner
  BY DEF IInv
<1> QED BY <1>1, Invariance, PTL

(* No command leads to a plugin that is not loaded, while plugins are      *)
(* registered and while they are freed (parser.c:55-97).                   *)
THEOREM NoDangling == Spec => []NoDanglingContext
<1>1. IInv => NoDanglingContext
  <2> SUFFICES ASSUME IInv, NEW c \in DOMAIN table
               PROVE  ctx[table[c]] = "live" /\ c \in Registers[table[c]]
    BY DEF NoDanglingContext
  <2>1. pc \notin {"free", "done"}
    BY DEF IInv, TableOK
  <2>2. PICK i \in Owner(c) : table[c] = Plugins[i] /\ i <= tried
    BY <2>1 DEF IInv, TableOK
  <2> QED BY <2>1, <2>2 DEF IInv, ListOK, Owner
<1> QED BY <1>1, Invariance, PTL

(* The plugin that is unloaded is the newest that is left.                 *)
LEMMA NextNewest ==
  ASSUME IInv, IInv', UnloadedNewestFirst, [Next]_vars
  PROVE  UnloadedNewestFirst'
<1>1. ASSUME NEW i \in 1..tried', NEW j \in 1..tried', i < j,
             ctx'[Plugins[j]] = "live", Plugins[i] \notin Refuses
      PROVE  ctx'[Plugins[i]] = "live"
  <2>1. tried' \in 0..Len(Plugins) /\ Len(Plugins) \in Nat
    BY Positions DEF IInv, TypeOK
  <2>2. i \in 1..Len(Plugins) /\ j \in 1..Len(Plugins)
    BY <2>1
  <2>3. CASE pc' \notin {"free", "done"}
    BY <1>1, <2>2, <2>3 DEF IInv, ListOK
  <2>4. CASE pc' \in {"free", "done"} /\ ~FreePlugin
    <3>1. UNCHANGED <<tried, ctx>>
      BY <2>4 DEF Next, Register, RegisterAborts, Serve, Invalid, Dispatch, Reply, Free,
         Freed, vars, IInv, TypeOK
    <3> QED BY <1>1, <3>1 DEF UnloadedNewestFirst
  <2>5. CASE FreePlugin
    <3> DEFINE p == list[1]
    <3>1. /\ ctx' = [ctx EXCEPT ![p] = "freed"] /\ tried' = tried
          /\ list # <<>> /\ list \in Seq(Names) /\ 1 \in DOMAIN list
          /\ ctx \in [Names -> {"none", "live", "freed"}]
      BY <2>5 DEF FreePlugin, Newest, IInv, TypeOK
    <3>2. /\ Plugins[i] \in Names /\ Plugins[j] \in Names /\ p \in Names
          /\ Plugins[j] # p /\ ctx[Plugins[j]] = "live"
      BY <1>1, <2>2, <3>1, Positions
    <3>3. ctx[Plugins[i]] = "live"
      BY <1>1, <3>1, <3>2 DEF UnloadedNewestFirst
    <3>4. Plugins[i] # p
      <4> SUFFICES ASSUME Plugins[i] = p PROVE FALSE
        OBVIOUS
      <4>1. PICK k \in DOMAIN list : list[k] = Plugins[j]
        BY <2>2, <3>2 DEF IInv, ListOK
      <4>2. 1 < k
        BY <3>1, <3>2, <4>1
      <4>3. j < i
        BY <2>2, <3>1, <4>1, <4>2 DEF IInv, ListOK
      <4> QED BY <1>1, <2>1, <4>3
    <3> QED BY <3>1, <3>2, <3>3, <3>4
  <2> QED BY <2>3, <2>4, <2>5
<1>2. ASSUME pc' = "done", NEW q \in Names PROVE ctx'[q] = "freed"
  <2>1. PICK i \in 1..Len(Plugins) : Plugins[i] = q
    BY Positions
  <2>2. list' = <<>> /\ tried' = Len(Plugins) /\ ctx'[q] \in {"none", "live", "freed"}
    BY <1>2 DEF IInv, ListOK, TypeOK
  <2>3. ctx'[q] # "live"
    BY <2>1, <2>2 DEF IInv, ListOK
  <2>4. ctx'[q] # "none"
    BY <2>1, <2>2, Positions DEF IInv, ListOK
  <2> QED BY <2>2, <2>3, <2>4
<1> QED BY <1>1, <1>2 DEF UnloadedNewestFirst

(* Plugins are unloaded in the reverse of the order they were loaded in,   *)
(* and all of them (parser.c:58).                                          *)
THEOREM NewestFirst == Spec => []UnloadedNewestFirst
<1>1. Init => UnloadedNewestFirst
  BY DEF Init, UnloadedNewestFirst
<1>2. IInv /\ IInv' /\ UnloadedNewestFirst /\ [Next]_vars => UnloadedNewestFirst'
  BY NextNewest
<1> QED BY <1>1, <1>2, Invariance, PTL DEF Spec
=============================================================================
