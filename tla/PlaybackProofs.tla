--------------------------- MODULE PlaybackProofs ---------------------------
(***************************************************************************)
(* The inductive invariant of Playback, and what follows from it: for any  *)
(* URIs, streams, addresses, hash and bounds, between requests the list,   *)
(* the heap and the mixer agree and no freed item is used.                 *)
(***************************************************************************)
EXTENDS Playback, SequenceTheorems, TLAPS

(* g_slist_prepend: the new element is first, the others move up by one.   *)
LEMMA ConsProperties ==
  ASSUME NEW S, NEW s \in Seq(S), NEW e \in S
  PROVE  /\ Cons(e, s) \in Seq(S)
         /\ Len(Cons(e, s)) = Len(s) + 1
         /\ Cons(e, s)[1] = e
         /\ \A i \in 1..Len(s) : Cons(e, s)[i + 1] = s[i]
BY DEF Cons

(* g_slist_remove: the elements behind the one removed move down by one.   *)
LEMMA RemoveAtProperties ==
  ASSUME NEW S, NEW s \in Seq(S), NEW i \in 1..Len(s)
  PROVE  /\ RemoveAt(s, i) \in Seq(S)
         /\ Len(RemoveAt(s, i)) = Len(s) - 1
         /\ \A j \in 1..(i - 1) : RemoveAt(s, i)[j] = s[j]
         /\ \A j \in i..(Len(s) - 1) : RemoveAt(s, i)[j] = s[j + 1]
<1> DEFINE l == SubSeq(s, 1, i - 1)
           r == SubSeq(s, i + 1, Len(s))
<1>1. /\ l \in Seq(S) /\ Len(l) = i - 1
      /\ \A j \in 1..(i - 1) : l[j] = s[j]
  <2>1. i - 1 <= Len(s) /\ i - 1 \in Int /\ Len(s) \in Nat
    OBVIOUS
  <2>2. \A j \in 1..(i - 1) : s[j] \in S
    OBVIOUS
  <2> QED BY <2>1, <2>2
<1>2. /\ r \in Seq(S) /\ Len(r) = Len(s) - i
      /\ \A j \in 1..(Len(s) - i) : r[j] = s[i + j]
  <2>1. r \in Seq(S)
    OBVIOUS
  <2>2. Len(r) = Len(s) - i
    BY Len(s) \in Nat
  <2>3. \A j \in 1..(Len(s) - i) : r[j] = s[i + j]
    BY Len(s) \in Nat
  <2> QED BY <2>1, <2>2, <2>3
<1>3. RemoveAt(s, i) = l \o r
  BY DEF RemoveAt
<1> HIDE DEF l, r
<1>4. l \o r \in Seq(S) /\ Len(l \o r) = Len(s) - 1
  <2>1. l \o r \in Seq(S) /\ Len(l \o r) = Len(l) + Len(r)
    BY <1>1, <1>2, ConcatProperties
  <2> QED BY <2>1, <1>1, <1>2, Len(s) \in Nat
<1>5. \A j \in 1..(i - 1) : (l \o r)[j] = s[j]
  BY <1>1, <1>2, Len(s) \in Nat
<1>6. \A j \in i..(Len(s) - 1) : (l \o r)[j] = s[j + 1]
  <2> SUFFICES ASSUME NEW j \in i..(Len(s) - 1)
               PROVE  (l \o r)[j] = s[j + 1]
    OBVIOUS
  <2>1. (l \o r)[j] = r[j - (i - 1)]
    BY <1>1, <1>2, Len(s) \in Nat
  <2>2. r[j - (i - 1)] = s[i + (j - (i - 1))]
    <3>1. j - (i - 1) \in 1..(Len(s) - i)
      BY Len(s) \in Nat
    <3> QED BY <3>1, <1>2
  <2> QED BY <2>1, <2>2, Len(s) \in Nat
<1> QED BY <1>3, <1>4, <1>5, <1>6

(* The id of a source that was made is a guint.                            *)
LEMMA ItemIdType ==
  ASSUME TypeOK, NEW k \in DOMAIN log
  PROVE  ItemId(k) \in 0..(IdModulus - 1)
<1>1. log[k] \in [uri : Uris, addr : Addrs, created : 0..MaxClock]
  <2> DEFINE R == [uri : Uris, addr : Addrs, created : 0..MaxClock]
  <2>1. log \in Seq(R)
    BY DEF TypeOK
  <2> HIDE DEF R
  <2>2. log[k] \in R
    BY <2>1
  <2> QED BY <2>2 DEF R
<1> QED BY <1>1, PlaybackAssumption DEF ItemId

(* The part of the invariant about the list, the heap and the mixer. *)
CoreInv == TypeOK /\ HeapOK /\ PlaceOK /\ ListOK /\ MixerOK

(* The invariant holds when the plugin is loaded.                          *)
LEMMA InitCore == Init => CoreInv
<1> SUFFICES ASSUME Init PROVE CoreInv
  OBVIOUS
<1>1. TypeOK
  BY PlaybackAssumption DEF Init, TypeOK, Serials, Starting, Freeing, Idle
<1>2. HeapOK /\ PlaceOK /\ ListOK /\ MixerOK
  BY DEF Init, HeapOK, PlaceOK, ListOK, MixerOK, Owned, Starting, Freeing
<1> QED BY <1>1, <1>2 DEF CoreInv

(* PLAY allocates an address that is free, so that the heap still names    *)
(* each source once; the source joins the pipeline and the mixer with it.  *)
LEMMA SourceNewCore ==
  ASSUME CoreInv, NEW u \in Uris, NEW a \in Addrs, SourceNew(u, a)
  PROVE  CoreInv'
<1> DEFINE k == Len(log) + 1
<1> USE DEF CoreInv
<1>1. /\ log' = Append(log, [uri |-> u, addr |-> a, created |-> clock])
      /\ heap' = [heap EXCEPT ![a] = k] /\ heap[a] = 0
      /\ inBin' = inBin \cup {k} /\ muxPads' = muxPads \cup {k}
      /\ muxLinked' = muxLinked \cup {k} /\ decLinked' = decLinked
      /\ pc = "idle" /\ pc' = "added" /\ cur' = a /\ iter' = iter
      /\ sources' = sources /\ sink' = sink
      /\ k \in 1..MaxPlays
  BY DEF SourceNew, At, Serials
<1>2. /\ DOMAIN log' = 1..k /\ k \in Nat \ {0}
      /\ \A j \in DOMAIN log : log'[j] = log[j] /\ j # k
      /\ log'[k] = [uri |-> u, addr |-> a, created |-> clock]
      /\ Len(log') = k /\ DOMAIN log \subseteq DOMAIN log'
  BY <1>1 DEF TypeOK
<1>3. TypeOK'
  <2>1. log' \in Seq([uri : Uris, addr : Addrs, created : 0..MaxClock])
    <3>1. [uri |-> u, addr |-> a, created |-> clock]
            \in [uri : Uris, addr : Addrs, created : 0..MaxClock]
      BY DEF TypeOK
    <3>2. log \in Seq([uri : Uris, addr : Addrs, created : 0..MaxClock])
      BY DEF TypeOK
    <3> QED BY <1>1, <3>1, <3>2
  <2>2. heap' \in [Addrs -> 0..MaxPlays] /\ Len(log') <= MaxPlays
    BY <1>1, <1>2, PlaybackAssumption DEF TypeOK
  <2>3. /\ inBin' \subseteq DOMAIN log' /\ muxPads' \subseteq DOMAIN log'
        /\ muxLinked' \subseteq DOMAIN log' /\ decLinked' \subseteq DOMAIN log'
        /\ playing' \subseteq DOMAIN log'
    BY <1>1, <1>2 DEF TypeOK, SourceNew
  <2>4. UNCHANGED <<fate, target, sink, iter, clock, sources, reply, pipe, shown>>
    BY DEF SourceNew
  <2> QED BY <1>1, <2>1, <2>2, <2>3, <2>4 DEF TypeOK, Starting
<1>4. HeapOK'
  BY <1>1, <1>2 DEF TypeOK, HeapOK
<1>5. PlaceOK'
  BY <1>1, <1>2 DEF TypeOK, PlaceOK, ListOK, Detached, Item, Starting, Freeing
<1>6. ListOK'
  BY <1>1, <1>2 DEF TypeOK, PlaceOK, ListOK, Item, Starting, Freeing
<1>7. MixerOK'
  <2>1. Owned' = Owned \cup {k}
    BY <1>1, <1>2 DEF Owned, TypeOK
  <2>2. k \notin Owned
    BY <1>1, <1>2 DEF Owned, HeapOK, TypeOK
  <2> QED BY <1>1, <2>1, <2>2 DEF MixerOK
<1> QED BY <1>3, <1>4, <1>5, <1>6, <1>7

(* The next steps of PLAY change nothing the invariant speaks about.       *)
LEMMA SourceStepCore ==
  ASSUME CoreInv, SourceUri \/ SourceConnect \/ SourceTarget
  PROVE  CoreInv'
<1> USE DEF CoreInv
<1>1. /\ pc \in Starting /\ pc' \in Starting /\ target' \in {"element", "pipeline"}
      /\ UNCHANGED <<fate, clock, cur, sink, iter, reply, itemVars, gstVars>>
  BY DEF SourceUri, SourceConnect, SourceTarget, Target, At, Starting, TypeOK
<1>2. TypeOK'
  BY <1>1 DEF TypeOK, itemVars, gstVars
<1>3. HeapOK' /\ PlaceOK' /\ ListOK' /\ MixerOK'
  BY <1>1 DEF HeapOK, PlaceOK, ListOK, MixerOK, Detached, Owned, Item, itemVars,
              gstVars, Starting, Freeing
<1> QED BY <1>2, <1>3

(* PLAY ends by listing the item it had in hand.                           *)
LEMMA SourceStartCore ==
  ASSUME CoreInv, SourceStart
  PROVE  CoreInv'
<1> USE DEF CoreInv
<1>1. /\ pc = "go" /\ pc' = "idle" /\ iter = 0 /\ iter' = 0
      /\ cur \in Addrs /\ heap[cur] # 0 /\ Detached
      /\ sources' = Cons(cur, sources) /\ sink' = sink
      /\ UNCHANGED <<log, heap, inBin, muxPads, muxLinked, decLinked>>
  BY DEF SourceStart, At, PlaceOK, Starting
<1>2. /\ sources' \in Seq(Addrs) /\ DOMAIN sources' = 1..(Len(sources) + 1)
      /\ sources'[1] = cur
      /\ \A i \in 1..Len(sources) : sources'[i + 1] = sources[i]
      /\ DOMAIN sources = 1..Len(sources) /\ Len(sources) \in Nat
  <2>1. sources \in Seq(Addrs)
    BY DEF TypeOK
  <2>2. /\ sources' \in Seq(Addrs) /\ Len(sources') = Len(sources) + 1
        /\ sources'[1] = cur
        /\ \A i \in 1..Len(sources) : sources'[i + 1] = sources[i]
    BY <1>1, <2>1, ConsProperties
  <2> QED BY <1>1, <2>1, <2>2
<1>3. heap[cur] \in DOMAIN log
  BY <1>1 DEF HeapOK
<1>4. TypeOK'
  <2>1. reply' \in [op : {"none", "PLAY", "STOP"}, verb : {"OK", "FAIL"},
                     id : 0..(IdModulus - 1)]
    BY <1>3, ItemIdType DEF SourceStart
  <2>2. playing' \subseteq DOMAIN log' /\ pipe' \in {Idle, Async, Lost, Failed, Up}
    BY <1>1, <1>3 DEF SourceStart, SetPlaying, TypeOK
  <2> QED BY <1>1, <1>2, <2>1, <2>2 DEF TypeOK, SourceStart
<1>5. HeapOK'
  BY <1>1 DEF HeapOK
<1>6. PlaceOK'
  BY <1>1 DEF PlaceOK, Starting, Freeing
<1>7. ListOK'
  <2>1. \A i \in DOMAIN sources' :
          i = 1 \/ (i - 1 \in DOMAIN sources /\ sources'[i] = sources[i - 1])
    BY <1>2
  <2>2. \A i, j \in DOMAIN sources' : i # j => sources'[i] # sources'[j]
    BY <1>1, <1>2, <2>1 DEF ListOK, Detached
  <2>3. \A i \in DOMAIN sources' : heap[sources'[i]] # 0
    BY <1>1, <1>2, <2>1 DEF ListOK, Item
  <2>4. \A a \in Addrs : heap[a] # 0 => \E i \in DOMAIN sources' : sources'[i] = a
    BY <1>1, <1>2 DEF ListOK
  <2> QED BY <1>1, <1>2, <2>2, <2>3, <2>4 DEF ListOK, Item
<1>8. MixerOK'
  BY <1>1 DEF MixerOK, Owned
<1> QED BY <1>4, <1>5, <1>6, <1>7, <1>8

(* STOP takes the item it found from the list into its hand; because no    *)
(* item is listed twice, the list leads to it no more.                     *)
LEMMA StopFoundCore ==
  ASSUME CoreInv, NEW n \in Params, StopFound(n)
  PROVE  CoreInv'
<1> USE DEF CoreInv
<1>1. PICK i \in DOMAIN sources : cur' = sources[i] /\ sources' = RemoveAt(sources, i)
  BY DEF StopFound, Without
<1>2. /\ pc = "idle" /\ pc' = "play" /\ iter = 0 /\ iter' = 0 /\ sink' = sink
      /\ UNCHANGED <<log, heap, gstVars>>
  BY DEF StopFound, At, PlaceOK
<1>3. /\ sources' \in Seq(Addrs) /\ Len(sources) \in Nat
      /\ DOMAIN sources = 1..Len(sources) /\ i \in 1..Len(sources)
      /\ DOMAIN sources' = 1..(Len(sources) - 1)
      /\ \A j \in 1..(i - 1) : sources'[j] = sources[j]
      /\ \A j \in i..(Len(sources) - 1) : sources'[j] = sources[j + 1]
  <2>1. sources \in Seq(Addrs) /\ i \in 1..Len(sources) /\ Len(sources) \in Nat
    BY DEF TypeOK
  <2>2. /\ sources' \in Seq(Addrs) /\ Len(sources') = Len(sources) - 1
        /\ \A j \in 1..(i - 1) : sources'[j] = sources[j]
        /\ \A j \in i..(Len(sources) - 1) : sources'[j] = sources[j + 1]
    BY <1>1, <2>1, RemoveAtProperties
  <2> QED BY <2>1, <2>2
<1>4. cur' \in Addrs /\ heap[cur'] # 0
  BY <1>1, <1>2, <1>3 DEF TypeOK, ListOK, Item
<1>5. TypeOK'
  BY <1>2, <1>3, <1>4 DEF TypeOK, StopFound, gstVars, Freeing
<1>6. HeapOK'
  BY <1>2 DEF HeapOK
<1>7. \A j \in DOMAIN sources' : \E h \in DOMAIN sources :
        h # i /\ sources'[j] = sources[h] /\ h = IF j < i THEN j ELSE j + 1
  BY <1>3
<1>8. PlaceOK'
  <2>1. Detached'
    BY <1>1, <1>3, <1>7 DEF Detached, ListOK
  <2> QED BY <1>2, <1>4, <2>1 DEF PlaceOK, Starting, Freeing
<1>9. ListOK'
  <2>1. \A j, h \in DOMAIN sources' : j # h => sources'[j] # sources'[h]
    BY <1>3, <1>7 DEF ListOK
  <2>2. \A j \in DOMAIN sources' : heap[sources'[j]] # 0
    BY <1>2, <1>3, <1>7 DEF ListOK, Item
  <2>3. \A a \in Addrs : heap[a] # 0 =>
          a = cur' \/ \E j \in DOMAIN sources' : sources'[j] = a
    <3> SUFFICES ASSUME NEW a \in Addrs, heap[a] # 0, a # cur'
                 PROVE  \E j \in DOMAIN sources' : sources'[j] = a
      OBVIOUS
    <3>1. PICK h \in DOMAIN sources : sources[h] = a
      BY <1>2 DEF ListOK, Starting, Freeing
    <3>2. CASE h < i
      BY <1>3, <3>1, <3>2
    <3>3. CASE h > i
      <4>1. h - 1 \in i..(Len(sources) - 1) /\ h - 1 + 1 = h
        BY <1>3, <3>3
      <4> QED BY <1>3, <3>1, <4>1
    <3> QED BY <1>1, <1>3, <3>1, <3>2, <3>3
  <2>4. \A j \in DOMAIN sources' : j >= iter'
    BY <1>2, <1>3
  <2> QED BY <1>2, <2>1, <2>2, <2>3, <2>4 DEF ListOK, Item, Freeing
<1>10. MixerOK'
  BY <1>2 DEF MixerOK, Owned, gstVars
<1> QED BY <1>5, <1>6, <1>8, <1>9, <1>10

(* The pad that is looked up is the one the source holds on the mixer.     *)
LEMMA FreePlayCore ==
  ASSUME CoreInv, FreePlay
  PROVE  CoreInv'
<1> USE DEF CoreInv
<1>1. /\ pc = "play" /\ pc' = "unlink" /\ sink' = heap[cur]
      /\ cur \in Addrs /\ heap[cur] # 0 /\ heap[cur] \in DOMAIN log
      /\ UNCHANGED <<cur, iter, itemVars, inBin, muxPads, muxLinked, decLinked>>
  <2>1. cur \in Addrs /\ heap[cur] # 0 /\ heap[cur] \in DOMAIN log
    BY DEF FreePlay, At, PlaceOK, HeapOK, Freeing
  <2>2. heap[cur] \in muxLinked
    BY <2>1 DEF FreePlay, At, MixerOK, Owned
  <2> QED BY <2>1, <2>2 DEF FreePlay, At, Peer
<1>2. TypeOK'
  BY <1>1 DEF TypeOK, FreePlay, Freeing, itemVars
<1>3. HeapOK' /\ ListOK' /\ MixerOK'
  BY <1>1 DEF HeapOK, ListOK, MixerOK, Owned, Item, itemVars, Starting, Freeing
<1>4. PlaceOK'
  BY <1>1 DEF PlaceOK, Detached, itemVars, Starting, Freeing
<1> QED BY <1>2, <1>3, <1>4

(* The source in hand is unlinked, its request pad still there.            *)
LEMMA FreeUnlinkCore ==
  ASSUME CoreInv, FreeUnlink
  PROVE  CoreInv'
<1> USE DEF CoreInv
<1>1. /\ pc = "unlink" /\ pc' = "release"
      /\ muxLinked' = muxLinked \ {heap[cur]} /\ decLinked' = decLinked \ {heap[cur]}
      /\ UNCHANGED <<cur, sink, iter, itemVars, inBin, muxPads>>
  BY DEF FreeUnlink, At
<1>2. TypeOK'
  BY <1>1 DEF TypeOK, FreeUnlink, Freeing, itemVars
<1>3. HeapOK' /\ ListOK' /\ PlaceOK'
  BY <1>1 DEF HeapOK, ListOK, PlaceOK, Detached, Item, itemVars, Starting, Freeing
<1>4. MixerOK'
  BY <1>1 DEF MixerOK, Owned, itemVars
<1> QED BY <1>2, <1>3, <1>4

(* The request pad that is released is the one of the source in hand.      *)
LEMMA FreeReleaseCore ==
  ASSUME CoreInv, FreeRelease
  PROVE  CoreInv'
<1> USE DEF CoreInv
<1>1. /\ pc = "release" /\ pc' = "remove" /\ sink = heap[cur]
      /\ muxPads' = muxPads \ {heap[cur]}
      /\ UNCHANGED <<cur, sink, iter, itemVars, inBin, muxLinked, decLinked>>
  BY DEF FreeRelease, At, PlaceOK
<1>2. TypeOK'
  BY <1>1 DEF TypeOK, FreeRelease, Freeing, itemVars
<1>3. HeapOK' /\ ListOK' /\ PlaceOK'
  BY <1>1 DEF HeapOK, ListOK, PlaceOK, Detached, Item, itemVars, Starting, Freeing
<1>4. MixerOK'
  BY <1>1 DEF MixerOK, Owned, itemVars
<1> QED BY <1>2, <1>3, <1>4

(* The item in hand is freed, and nothing leads to it: STOP took it out of *)
(* the list, op_playback_free moves on behind its cell.                    *)
LEMMA FreeRemoveCore ==
  ASSUME CoreInv, FreeRemove
  PROVE  CoreInv'
<1> USE DEF CoreInv
<1>1. /\ pc = "remove" /\ cur \in Addrs /\ heap[cur] # 0 /\ heap[cur] \in DOMAIN log
      /\ inBin' = inBin \ {heap[cur]} /\ decLinked' = decLinked \ {heap[cur]}
      /\ heap' = [heap EXCEPT ![cur] = 0]
      /\ UNCHANGED <<log, sources, muxPads, muxLinked>>
      /\ cur' = NULL /\ sink' = 0
  BY DEF FreeRemove, At, PlaceOK, HeapOK, Freeing
<1>2. \/ iter = 0 /\ iter' = 0 /\ pc' = "idle"
      \/ iter # 0 /\ iter' = iter + 1 /\ pc' = "next"
  BY DEF FreeRemove, NextCell
<1>3. /\ heap' \in [Addrs -> 0..MaxPlays] /\ heap'[cur] = 0
      /\ \A a \in Addrs \ {cur} : heap'[a] = heap[a]
  BY <1>1, PlaybackAssumption DEF TypeOK
<1>4. TypeOK'
  <2>1. reply' \in [op : {"none", "PLAY", "STOP"}, verb : {"OK", "FAIL"},
                     id : 0..(IdModulus - 1)]
    BY <1>1, ItemIdType DEF FreeRemove, TypeOK
  <2>2. iter \in Nat /\ iter' \in Nat
    BY <1>2 DEF TypeOK
  <2> QED BY <1>1, <1>2, <1>3, <2>1, <2>2 DEF TypeOK, FreeRemove
<1>5. HeapOK'
  BY <1>1, <1>3 DEF HeapOK
<1>6. PlaceOK'
  <2>1. iter \in Nat
    BY DEF TypeOK
  <2>2. pc' \in {"idle", "next"} /\ (pc' = "idle" => iter' = 0) /\ (pc' = "next" => iter' > 0)
    BY <1>2, <2>1
  <2> QED BY <2>2 DEF PlaceOK, Starting, Freeing
<1>7. ListOK'
  <2>1. \A i \in DOMAIN sources : sources[i] \in Addrs /\ i \in Nat /\ i > 0
    BY DEF TypeOK
  <2>2. \A i \in DOMAIN sources : i >= iter' => sources[i] # cur /\ heap[sources[i]] # 0
    <3>1. CASE iter = 0
      BY <1>1, <1>2, <2>1, <3>1 DEF PlaceOK, ListOK, Detached, Freeing, Item
    <3>2. CASE iter # 0
      <4>1. iter \in DOMAIN sources /\ cur = sources[iter] /\ iter \in Nat
        BY <1>1, <3>2 DEF PlaceOK, Freeing, TypeOK
      <4> QED BY <1>2, <2>1, <3>2, <4>1 DEF ListOK, Item
    <3> QED BY <3>1, <3>2
  <2>3. \A a \in Addrs : heap'[a] # 0 =>
          \E i \in DOMAIN sources : i >= iter' /\ sources[i] = a
    <3> SUFFICES ASSUME NEW a \in Addrs, heap'[a] # 0
                 PROVE  \E i \in DOMAIN sources : i >= iter' /\ sources[i] = a
      OBVIOUS
    <3>1. a # cur /\ heap[a] # 0
      BY <1>1, <1>3
    <3>2. PICK i \in DOMAIN sources : i >= iter /\ sources[i] = a
      BY <3>1 DEF ListOK
    <3>3. iter # 0 => i # iter
      BY <1>1, <3>1, <3>2 DEF PlaceOK, Freeing, TypeOK
    <3> QED BY <1>2, <2>1, <3>2, <3>3 DEF TypeOK
  <2> QED BY <1>1, <1>2, <1>3, <2>1, <2>2, <2>3 DEF ListOK, Item
<1>8. MixerOK'
  <2>1. Owned' = Owned \ {heap[cur]}
    BY <1>1, <1>3 DEF Owned, HeapOK
  <2> QED BY <1>1, <1>2, <2>1 DEF MixerOK
<1> QED BY <1>4, <1>5, <1>6, <1>7, <1>8

(* op_playback_free goes from cell to cell; at the end no item is left.    *)
LEMMA FreeLoopCore ==
  ASSUME CoreInv, FreeAll \/ FreeNext \/ FreeDone
  PROVE  CoreInv'
<1> USE DEF CoreInv
<1>1. /\ UNCHANGED <<log, heap, sink, inBin, muxPads, muxLinked, decLinked>>
      /\ pc \in {"idle", "next"} /\ pc' \in {"next", "play", "done"}
  BY DEF FreeAll, FreeNext, FreeDone, At, itemVars, gstVars
<1>2. HeapOK' /\ MixerOK'
  BY <1>1 DEF HeapOK, MixerOK, Owned
<1>3. CASE FreeAll
  <2>1. pc = "idle" /\ pc' = "next" /\ iter = 0 /\ iter' = 1 /\ sources' = sources
    BY <1>3 DEF FreeAll, At, PlaceOK, itemVars
  <2>2. TypeOK'
    BY <1>3, <2>1 DEF FreeAll, TypeOK, itemVars, gstVars
  <2>3. \A i \in DOMAIN sources : i \in Nat /\ i >= 1 /\ i >= 0
    BY DEF TypeOK
  <2>4. PlaceOK'
    BY <2>1 DEF PlaceOK, Starting, Freeing
  <2>5. ListOK'
    BY <1>1, <2>1, <2>3 DEF ListOK, Item, Starting, Freeing
  <2> QED BY <1>2, <2>2, <2>4, <2>5
<1>4. CASE FreeNext
  <2>1. /\ pc = "next" /\ pc' = "play" /\ iter' = iter /\ sources' = sources
        /\ iter \in DOMAIN sources /\ cur' = sources[iter] /\ cur' \in Addrs
        /\ heap[cur'] # 0 /\ iter > 0
    BY <1>4 DEF FreeNext, At, PlaceOK, ListOK, Item, TypeOK, itemVars
  <2>2. TypeOK'
    BY <1>4, <2>1 DEF FreeNext, TypeOK, itemVars, gstVars, Freeing
  <2>3. PlaceOK'
    BY <1>1, <2>1 DEF PlaceOK, Starting, Freeing
  <2>4. ListOK'
    BY <1>1, <2>1 DEF ListOK, Item, Starting, Freeing
  <2> QED BY <1>2, <2>2, <2>3, <2>4
<1>5. CASE FreeDone
  <2>1. /\ pc = "next" /\ pc' = "done" /\ iter' = iter /\ iter > 0
        /\ iter > Len(sources) /\ sources' = <<>>
    BY <1>5 DEF FreeDone, At, PlaceOK
  <2>2. TypeOK'
    BY <1>5, <2>1 DEF FreeDone, TypeOK
  <2>3. \A a \in Addrs : heap[a] = 0
    BY <2>1 DEF ListOK, TypeOK, Starting, Freeing
  <2>4. PlaceOK'
    BY <2>1 DEF PlaceOK, Starting, Freeing
  <2>5. ListOK'
    BY <1>1, <2>1, <2>3 DEF ListOK, Item
  <2> QED BY <1>2, <2>2, <2>4, <2>5
<1> QED BY <1>3, <1>4, <1>5

(* GStreamer changes neither the list nor the mixer, and links a           *)
(* uridecodebin only while its source is in the pipeline.                  *)
LEMMA GStreamerCore ==
  ASSUME CoreInv, GStreamer
  PROVE  CoreInv'
<1> USE DEF CoreInv
<1>1. /\ UNCHANGED <<clock, mainVars, itemVars, inBin, muxPads, muxLinked>>
      /\ inBin \subseteq DOMAIN log
  BY DEF GStreamer, PadAdded, PipelineUp, PipelineFails, PipelineLost, TypeOK
<1>2. decLinked' \subseteq Owned
  BY DEF GStreamer, PadAdded, PipelineUp, PipelineFails, PipelineLost, Linkable, MixerOK
<1>3. HeapOK' /\ PlaceOK' /\ ListOK'
  BY <1>1 DEF HeapOK, PlaceOK, ListOK, Detached, Item, Starting, Freeing, mainVars,
              itemVars
<1>4. MixerOK'
  BY <1>1, <1>2 DEF MixerOK, Owned, itemVars, mainVars
<1>5. decLinked' \subseteq DOMAIN log'
  BY <1>1, <1>2 DEF MixerOK, itemVars
<1>6. shown' \in [Serials -> Nat] /\ fate' \in {"running", "load", "unload", "pad"}
  <2>1. shown \in [Serials -> Nat] /\ fate \in {"running", "load", "unload", "pad"}
    BY DEF TypeOK
  <2>2. fate' \in {fate, "pad"}
    BY DEF GStreamer, PadAdded, PipelineUp, PipelineFails, PipelineLost
  <2>3. shown' = shown \/ \E k \in Serials : shown' = [shown EXCEPT ![k] = @ + 1]
    BY DEF GStreamer, PadAdded, PipelineUp, PipelineFails, PipelineLost
  <2> QED BY <2>1, <2>2, <2>3
<1>7. playing' \subseteq DOMAIN log /\ pipe' \in {Idle, Async, Lost, Failed, Up}
  BY <1>1 DEF GStreamer, PadAdded, PipelineUp, PipelineFails, PipelineLost, TypeOK
<1>8. TypeOK'
  BY <1>1, <1>5, <1>6, <1>7 DEF TypeOK, mainVars, itemVars
<1> QED BY <1>3, <1>4, <1>8

(* A STOP that finds nothing, an abort and the clock change none of it.    *)
LEMMA QuietCore ==
  ASSUME CoreInv,
         \/ SourceStartFails \/ FreePlayFails \/ Second \/ UNCHANGED vars
         \/ \E n \in Params : StopUnknown(n)
  PROVE  CoreInv'
<1> USE DEF CoreInv
<1>1. UNCHANGED <<pc, cur, target, sink, iter, itemVars, gstVars>>
  BY DEF SourceStartFails, FreePlayFails, Second, StopUnknown, vars, mainVars
<1>2. HeapOK' /\ PlaceOK' /\ ListOK' /\ MixerOK'
  BY <1>1 DEF HeapOK, PlaceOK, ListOK, MixerOK, Detached, Owned, Item, itemVars,
              gstVars, Starting, Freeing
<1>3. /\ fate' \in {"running", "load", "unload", "pad"} /\ clock' \in 0..MaxClock
  BY PlaybackAssumption DEF SourceStartFails, FreePlayFails, Second, StopUnknown, vars, TypeOK
<1>4. reply' \in [op : {"none", "PLAY", "STOP"}, verb : {"OK", "FAIL"},
                   id : 0..(IdModulus - 1)]
  BY PlaybackAssumption DEF SourceStartFails, FreePlayFails, Second, StopUnknown, vars,
     mainVars, TypeOK
<1>5. TypeOK'
  BY <1>1, <1>3, <1>4 DEF TypeOK, itemVars, gstVars
<1> QED BY <1>2, <1>5

(* Every step preserves the part about the list, the heap and the mixer.   *)
LEMMA NextCore == CoreInv /\ [Next]_vars => CoreInv'
BY SourceNewCore, SourceStepCore, SourceStartCore, StopFoundCore, FreePlayCore,
   FreeUnlinkCore, FreeReleaseCore, FreeRemoveCore, FreeLoopCore, GStreamerCore,
   QuietCore DEF Next, Handler, Request

(* Every step keeps the listed sources started and the pipeline driven.    *)
LEMMA NextDrive == CoreInv /\ DriveOK /\ [Next]_vars => DriveOK'
<1> SUFFICES ASSUME CoreInv, DriveOK, [Next]_vars PROVE DriveOK'
  OBVIOUS
<1>0. /\ Async # Idle /\ Up # Idle /\ Lost # Idle /\ Failed # Idle
      /\ iter \in Nat /\ \A i \in DOMAIN sources : i \in Nat /\ i >= 1
  BY DEF Async, Up, Lost, Failed, Idle, CoreInv, TypeOK
<1>1. CASE \E u \in Uris, a \in Addrs : SourceNew(u, a)
  <2> PICK u \in Uris, a \in Addrs : SourceNew(u, a)
    BY <1>1
  <2>1. /\ heap' = [heap EXCEPT ![a] = Len(log) + 1] /\ heap[a] = 0
        /\ pc' = "added" /\ UNCHANGED <<sources, iter, playing, pipe>>
    BY DEF SourceNew
  <2>2. \A i \in DOMAIN sources : i >= iter => Item(i)' = Item(i)
    BY <2>1 DEF CoreInv, ListOK, Item, TypeOK
  <2> QED BY <2>1, <2>2 DEF DriveOK
<1>2. CASE SourceTarget
  <2>1. target' = "element" => pipe # Idle
    BY <1>2 DEF SourceTarget, Target, Idle
  <2> QED BY <1>2, <2>1 DEF SourceTarget, DriveOK, Item, itemVars, gstVars
<1>3. CASE SourceStart
  <2>1. /\ pc = "go" /\ pc' = "idle" /\ iter = 0 /\ iter' = 0
        /\ cur \in Addrs /\ heap[cur] # 0 /\ heap' = heap
        /\ sources' = Cons(cur, sources) /\ sources \in Seq(Addrs)
        /\ heap[cur] \in inBin /\ playing \subseteq playing'
    BY <1>3 DEF SourceStart, SetPlaying, At, CoreInv, PlaceOK, Starting, TypeOK,
       MixerOK, Owned
  <2>2. heap[cur] \in playing' /\ pipe' # Idle
    BY <1>0, <1>3, <2>1 DEF SourceStart, SetPlaying, DriveOK, CoreInv, TypeOK
  <2>3. \A i \in DOMAIN sources' :
          sources'[i] = cur \/ (i - 1 \in DOMAIN sources /\ sources'[i] = sources[i - 1])
    <3>1. /\ sources' \in Seq(Addrs) /\ Len(sources') = Len(sources) + 1
          /\ sources'[1] = cur
          /\ \A i \in 1..Len(sources) : sources'[i + 1] = sources[i]
      BY <2>1, ConsProperties
    <3> QED BY <2>1, <3>1
  <2>4. \A i \in DOMAIN sources' : heap'[sources'[i]] \in playing'
    BY <1>0, <2>1, <2>2, <2>3 DEF DriveOK, Item
  <2> QED BY <2>1, <2>2, <2>4 DEF DriveOK, Item
<1>4. CASE \E n \in Params : StopFound(n)
  <2>1. PICK i \in DOMAIN sources : sources' = RemoveAt(sources, i)
    BY <1>4 DEF StopFound, Without
  <2>2. /\ pc = "idle" /\ pc' = "play" /\ iter = 0 /\ iter' = 0
        /\ UNCHANGED <<heap, playing, pipe>>
    BY <1>4 DEF StopFound, At, CoreInv, PlaceOK, gstVars
  <2>3. sources \in Seq(Addrs) /\ i \in 1..Len(sources) /\ Len(sources) \in Nat
    BY DEF CoreInv, TypeOK
  <2>4. /\ sources' \in Seq(Addrs) /\ Len(sources') = Len(sources) - 1
        /\ \A j \in 1..(i - 1) : sources'[j] = sources[j]
        /\ \A j \in i..(Len(sources) - 1) : sources'[j] = sources[j + 1]
    BY <2>1, <2>3, RemoveAtProperties
  <2>5. \A j \in DOMAIN sources' : \E h \in DOMAIN sources : sources'[j] = sources[h]
    BY <2>3, <2>4
  <2>6. \A j \in DOMAIN sources' : heap[sources'[j]] \in playing
    BY <1>0, <2>2, <2>5 DEF DriveOK, Item
  <2>7. sources # <<>>
    BY <2>3
  <2> QED BY <2>2, <2>6, <2>7 DEF DriveOK, Item
<1>5. CASE FreeRemove
  <2>1. /\ heap' = [heap EXCEPT ![cur] = 0] /\ cur \in Addrs
        /\ UNCHANGED <<sources, playing, pipe>> /\ pc' \in {"idle", "next"}
        /\ pc = "remove"
    BY <1>5 DEF FreeRemove, At, CoreInv, PlaceOK, Freeing
  <2>2. \A i \in DOMAIN sources : i >= iter' => i >= iter /\ sources[i] # cur
    <3>1. CASE iter = 0
      BY <1>0, <1>5, <2>1, <3>1 DEF FreeRemove, CoreInv, PlaceOK, Detached, Freeing
    <3>2. CASE iter # 0
      BY <1>0, <1>5, <2>1, <3>2
         DEF FreeRemove, NextCell, CoreInv, PlaceOK, ListOK, Freeing
    <3> QED BY <3>1, <3>2
  <2>3. \A i \in DOMAIN sources : i >= iter' => Item(i)' = Item(i)
    BY <2>1, <2>2 DEF Item, CoreInv, TypeOK
  <2> QED BY <2>1, <2>2, <2>3 DEF DriveOK
<1>6. CASE FreeAll \/ FreeNext
  BY <1>0, <1>6 DEF FreeAll, FreeNext, At, DriveOK, Item, itemVars, gstVars, CoreInv,
                    PlaceOK
<1>7. CASE FreeDone
  BY <1>7 DEF FreeDone, DriveOK
<1>8. CASE GStreamer
  <2>1. playing \subseteq playing' /\ (pipe' = pipe \/ pipe' # Idle)
    BY <1>0, <1>8 DEF GStreamer, PadAdded, PipelineUp, PipelineFails, PipelineLost
  <2>2. UNCHANGED <<mainVars, itemVars>>
    BY <1>8 DEF GStreamer, PadAdded, PipelineUp, PipelineFails, PipelineLost
  <2> QED BY <2>1, <2>2 DEF DriveOK, Item, mainVars, itemVars
<1>9. CASE FreePlay \/ FreeUnlink \/ FreeRelease
  <2>1. /\ playing \subseteq playing' /\ pc' # "go"
        /\ UNCHANGED <<iter, pipe, itemVars>>
    BY <1>9 DEF FreePlay, FreeUnlink, FreeRelease
  <2> QED BY <2>1 DEF DriveOK, Item, itemVars
<1>10. CASE \/ SourceUri \/ SourceConnect \/ SourceStartFails \/ FreePlayFails \/ Second
            \/ UNCHANGED vars \/ \E n \in Params : StopUnknown(n)
  <2>1. /\ UNCHANGED <<iter, target, itemVars, gstVars>>
        /\ pc' = "go" => pc = "go"
    BY <1>10 DEF SourceUri, SourceConnect, SourceStartFails, FreePlayFails, Second,
       StopUnknown, vars, mainVars
  <2> QED BY <2>1 DEF DriveOK, Item, itemVars, gstVars
<1> QED BY <1>1, <1>2, <1>3, <1>4, <1>5, <1>6, <1>7, <1>8, <1>9, <1>10
       DEF Next, Handler, Request

(* Every step keeps what is known of the pads: a uridecodebin is linked    *)
(* only after it has shown one, and the process aborts only over a source  *)
(* that shows more than one audio pad or has left the pipeline.            *)
LEMMA NextPad == CoreInv /\ PadOK /\ [Next]_vars => PadOK'
<1> SUFFICES ASSUME CoreInv, PadOK, [Next]_vars PROVE PadOK'
  OBVIOUS
<1>1. CASE \E k \in Serials : PadAdded(k)
  <2> PICK k \in Serials : PadAdded(k)
    BY <1>1
  <2>1. /\ fate = "running" /\ k \in playing /\ k \in DOMAIN log
        /\ shown \in [Serials -> Nat] /\ shown' = [shown EXCEPT ![k] = @ + 1]
        /\ shown[k] < Len(Streams[log[k].uri])
        /\ UNCHANGED <<log, playing, inBin>>
        /\ decLinked' \subseteq decLinked \cup {k} /\ decLinked \subseteq Serials
    <3>1. decLinked \subseteq Serials
      <4> DEFINE R == [uri : Uris, addr : Addrs, created : 0..MaxClock]
      <4>1. log \in Seq(R) /\ Len(log) <= MaxPlays /\ decLinked \subseteq DOMAIN log
        BY DEF CoreInv, TypeOK
      <4> HIDE DEF R
      <4>2. DOMAIN log \subseteq 1..MaxPlays
        BY <4>1, PlaybackAssumption
      <4> QED BY <4>1, <4>2 DEF Serials
    <3>2. k \in DOMAIN log /\ shown \in [Serials -> Nat]
      BY DEF PadAdded, CoreInv, TypeOK
    <3> QED BY <3>1, <3>2 DEF PadAdded, itemVars
  <2>2. \A j \in decLinked' : shown'[j] > 0
    BY <2>1 DEF PadOK
  <2>3. ASSUME fate' = "pad"
        PROVE  Streams[log[k].uri] # <<"audio">> \/ k \notin inBin
    <3> SUFFICES ASSUME Streams[log[k].uri] = <<"audio">>, k \in inBin PROVE FALSE
      OBVIOUS
    <3>1. shown[k] = 0
      BY <2>1
    <3>2. k \notin decLinked
      BY <3>1 DEF PadOK
    <3>3. Linkable(k)
      BY <3>1, <3>2 DEF Linkable
    <3> QED BY <2>1, <2>3, <3>3 DEF PadAdded
  <2>4. shown'[k] > 0
    BY <2>1
  <2> QED BY <2>1, <2>2, <2>3, <2>4 DEF PadOK, PadAbortExplained
<1>2. CASE ~\E k \in Serials : PadAdded(k)
  <2>1. shown' = shown /\ decLinked' \subseteq decLinked
    BY <1>2 DEF Next, Handler, Request, GStreamer, SourceNew, SourceUri, SourceConnect,
       SourceTarget, SourceStart, SourceStartFails, StopUnknown, StopFound, FreePlay,
       FreePlayFails, FreeUnlink, FreeRelease, FreeRemove, FreeAll, FreeNext, FreeDone,
       PipelineUp, PipelineFails, PipelineLost, Second, gstVars, vars
  <2>2. fate' = "pad" => UNCHANGED vars
    BY <1>2 DEF Next, Handler, Request, GStreamer, SourceNew, SourceUri, SourceConnect,
       SourceTarget, SourceStart, SourceStartFails, StopUnknown, StopFound, FreePlay,
       FreePlayFails, FreeUnlink, FreeRelease, FreeRemove, FreeAll, FreeNext, FreeDone,
       PipelineUp, PipelineFails, PipelineLost, Second, At, vars
  <2> QED BY <2>1, <2>2 DEF PadOK, PadAbortExplained, vars, gstVars, itemVars
<1> QED BY <1>1, <1>2

(* The id of a source never changes: its item is not written again.        *)
LEMMA SameId ==
  ASSUME CoreInv, [Next]_vars, NEW k \in DOMAIN log
  PROVE  k \in DOMAIN log' /\ ItemId(k)' = ItemId(k)
<1>1. CASE \E u \in Uris, a \in Addrs : SourceNew(u, a)
  <2>1. \E x : log' = Append(log, x)
    BY <1>1 DEF SourceNew
  <2>2. k \in DOMAIN log' /\ log'[k] = log[k]
    BY <2>1 DEF CoreInv, TypeOK
  <2> QED BY <2>2 DEF ItemId
<1>2. CASE ~\E u \in Uris, a \in Addrs : SourceNew(u, a)
  <2>1. log' = log
    BY <1>2 DEF Next, Handler, Request, GStreamer, SourceUri, SourceConnect,
       SourceTarget, SourceStart, SourceStartFails, StopUnknown, StopFound, FreePlay,
       FreePlayFails, FreeUnlink, FreeRelease, FreeRemove, FreeAll, FreeNext, FreeDone,
       PadAdded, PipelineUp, PipelineFails, PipelineLost, Second, itemVars, vars
  <2> QED BY <2>1 DEF ItemId
<1> QED BY <1>1, <1>2

(* The allocated items the list leads to are sources that were made.       *)
LEMMA ItemsMade ==
  ASSUME CoreInv
  PROVE  /\ \A i \in DOMAIN sources : i \in Nat /\ i >= 1 /\ sources[i] \in Addrs
         /\ \A i \in DOMAIN sources : i >= iter => Item(i) \in DOMAIN log
         /\ \A k \in DOMAIN log : k \in Nat /\ 1 <= k /\ k <= Len(log)
         /\ iter \in Nat /\ Len(log) \in Nat
<1>1. \A i \in DOMAIN sources : i \in Nat /\ i >= 1 /\ sources[i] \in Addrs
  BY DEF CoreInv, TypeOK
<1>2. \A i \in DOMAIN sources : i >= iter => Item(i) \in DOMAIN log
  BY <1>1 DEF CoreInv, ListOK, HeapOK, Item
<1>3. /\ \A k \in DOMAIN log : k \in Nat /\ 1 <= k /\ k <= Len(log)
      /\ iter \in Nat /\ Len(log) \in Nat
  BY DEF CoreInv, TypeOK
<1> QED BY <1>1, <1>2, <1>3

(* Every step keeps the list in order, the newest source first.            *)
LEMMA NextOrder == CoreInv /\ OrderOK /\ [Next]_vars => OrderOK'
<1> SUFFICES ASSUME CoreInv, OrderOK, [Next]_vars PROVE OrderOK'
  OBVIOUS
<1>1. CASE \E u \in Uris, a \in Addrs : SourceNew(u, a)
  <2> PICK u \in Uris, a \in Addrs : SourceNew(u, a)
    BY <1>1
  <2>1. /\ heap' = [heap EXCEPT ![a] = Len(log) + 1] /\ heap[a] = 0
        /\ pc' = "added" /\ cur' = a /\ UNCHANGED <<sources, iter>>
        /\ \E x : log' = Append(log, x)
    BY DEF SourceNew
  <2>2. \A i \in DOMAIN sources : i >= iter => Item(i)' = Item(i)
    BY <2>1 DEF CoreInv, ListOK, Item, TypeOK
  <2>3. \A i, j \in DOMAIN sources : iter <= i /\ i < j => Item(i)' > Item(j)'
    BY <2>2, ItemsMade DEF OrderOK
  <2>4. heap'[cur'] = Len(log')
    BY <2>1 DEF CoreInv, TypeOK
  <2> QED BY <2>1, <2>3, <2>4 DEF OrderOK, Freeing
<1>2. CASE SourceStart
  <2>1. /\ pc = "go" /\ pc' = "idle" /\ iter = 0 /\ iter' = 0
        /\ cur \in Addrs /\ heap[cur] # 0 /\ heap' = heap /\ Detached
        /\ heap[cur] = Len(log)
        /\ sources' = Cons(cur, sources) /\ sources \in Seq(Addrs)
    BY <1>2 DEF SourceStart, At, CoreInv, PlaceOK, Starting, TypeOK, OrderOK
  <2>2. \A i \in DOMAIN sources' : /\ i = 1 => sources'[i] = cur
                                   /\ i > 1 => /\ i - 1 \in DOMAIN sources
                                               /\ sources'[i] = sources[i - 1]
    <3>1. /\ sources' \in Seq(Addrs) /\ Len(sources') = Len(sources) + 1
          /\ sources'[1] = cur
          /\ \A i \in 1..Len(sources) : sources'[i + 1] = sources[i]
      <4>1. /\ cur \in Addrs /\ sources \in Seq(Addrs)
            /\ sources' = Cons(cur, sources)
        BY <2>1
      <4>2. /\ Cons(cur, sources) \in Seq(Addrs)
            /\ Len(Cons(cur, sources)) = Len(sources) + 1
            /\ Cons(cur, sources)[1] = cur
            /\ \A i \in 1..Len(sources) : Cons(cur, sources)[i + 1] = sources[i]
        BY ONLY <4>1 DEF Cons
      <4> QED BY ONLY <4>1, <4>2
    <3> QED BY <2>1, <3>1
  <2>3. \A i \in DOMAIN sources : Item(i) \in Nat /\ Item(i) < heap[cur]
    <3> SUFFICES ASSUME NEW i \in DOMAIN sources
                 PROVE  Item(i) \in Nat /\ Item(i) < heap[cur]
      OBVIOUS
    <3>1. Item(i) \in DOMAIN log /\ sources[i] \in Addrs
      BY <2>1, ItemsMade
    <3>2. Item(i) # heap[cur]
      BY <2>1, <3>1 DEF CoreInv, HeapOK, Detached, Item
    <3>3. Item(i) \in Nat /\ Item(i) <= Len(log) /\ Len(log) \in Nat
      BY <3>1, ItemsMade
    <3> QED BY <2>1, <3>2, <3>3
  <2>4. DOMAIN sources' \subseteq Nat \ {0}
    <3>1. sources' \in Seq(Addrs)
      BY <2>1, ConsProperties
    <3> QED BY <3>1
  <2>5. ASSUME NEW i \in DOMAIN sources', NEW j \in DOMAIN sources', i < j
        PROVE  heap[sources'[i]] > heap[sources'[j]]
    <3>1. j - 1 \in DOMAIN sources /\ sources'[j] = sources[j - 1]
      BY <2>2, <2>4, <2>5
    <3>2. CASE i = 1
      BY <2>2, <2>3, <3>1, <3>2, <2>1, ItemsMade DEF Item
    <3>3. CASE i > 1
      <4>1. i - 1 \in DOMAIN sources /\ sources'[i] = sources[i - 1]
        BY <2>2, <3>3
      <4>2. i - 1 < j - 1 /\ 0 <= i - 1
        BY <2>4, <2>5, <3>3
      <4> QED BY <2>1, <3>1, <4>1, <4>2 DEF OrderOK, Item
    <3> QED BY <2>4, <3>2, <3>3
  <2> QED BY <2>1, <2>5 DEF OrderOK, Item, Starting, Freeing
<1>3. CASE \E n \in Params : StopFound(n)
  <2> PICK n \in Params : StopFound(n)
    BY <1>3
  <2>1. PICK i \in DOMAIN sources :
          /\ Found(i, n % IdModulus) /\ cur' = sources[i]
          /\ sources' = RemoveAt(sources, i)
    BY DEF StopFound, Without
  <2>2. /\ pc = "idle" /\ pc' = "play" /\ iter = 0 /\ iter' = 0
        /\ UNCHANGED <<heap, log>>
    BY DEF StopFound, At, CoreInv, PlaceOK
  <2>3. sources \in Seq(Addrs) /\ i \in 1..Len(sources) /\ Len(sources) \in Nat
    BY DEF CoreInv, TypeOK
  <2>4. /\ sources' \in Seq(Addrs) /\ Len(sources') = Len(sources) - 1
        /\ \A j \in 1..(i - 1) : sources'[j] = sources[j]
        /\ \A j \in i..(Len(sources) - 1) : sources'[j] = sources[j + 1]
    BY <2>1, <2>3, RemoveAtProperties
  <2>5. \A j \in DOMAIN sources' :
          /\ j \in Nat /\ j >= 1
          /\ j < i => j \in DOMAIN sources /\ sources'[j] = sources[j]
          /\ j >= i => j + 1 \in DOMAIN sources /\ sources'[j] = sources[j + 1]
    BY <2>3, <2>4
  <2>6. ASSUME NEW j \in DOMAIN sources', NEW h \in DOMAIN sources', j < h
        PROVE  heap[sources'[j]] > heap[sources'[h]]
    <3>1. CASE h < i
      BY <2>2, <2>3, <2>5, <2>6, <3>1 DEF OrderOK, Item
    <3>2. CASE j < i /\ h >= i
      <4>1. j \in DOMAIN sources /\ h + 1 \in DOMAIN sources /\ j < h + 1 /\ 0 <= j
        BY <2>5, <2>6, <3>2
      <4> QED BY <2>2, <2>5, <3>2, <4>1 DEF OrderOK, Item
    <3>3. CASE j >= i
      <4>1. /\ j + 1 \in DOMAIN sources /\ h + 1 \in DOMAIN sources
            /\ j + 1 < h + 1 /\ 0 <= j + 1 /\ h >= i
        BY <2>3, <2>5, <2>6, <3>3
      <4> QED BY <2>2, <2>5, <3>3, <4>1 DEF OrderOK, Item
    <3> QED BY <2>3, <2>5, <2>6, <3>1, <3>2, <3>3
  <2>7. ASSUME NEW j \in DOMAIN sources', ItemId(heap[sources'[j]]) = ItemId(heap[cur'])
        PROVE  heap[sources'[j]] < heap[cur']
    <3>1. ItemId(Item(i)) = n % IdModulus
      BY <2>1 DEF Found
    <3>2. j >= i
      BY <2>1, <2>3, <2>5, <2>7, <3>1 DEF Found, Item
    <3>3. j + 1 \in DOMAIN sources /\ i < j + 1 /\ sources'[j] = sources[j + 1]
      BY <2>3, <2>5, <3>2
    <3>4. Item(i) > Item(j + 1)
      BY <2>2, <2>3, <3>3 DEF OrderOK
    <3>5. Item(i) \in Nat /\ Item(j + 1) \in Nat
      BY <2>2, <3>3, ItemsMade
    <3> QED BY <2>1, <3>3, <3>4, <3>5 DEF Item
  <2>8. \A k : ItemId(k)' = ItemId(k)
    BY <2>2 DEF ItemId
  <2> QED BY <2>2, <2>6, <2>7, <2>8 DEF OrderOK, Item, Starting
<1>4. CASE FreeRemove
  <2>1. /\ heap' = [heap EXCEPT ![cur] = 0] /\ cur \in Addrs /\ sources' = sources
        /\ pc' \in {"idle", "next"} /\ pc = "remove"
        /\ iter' = iter \/ iter' = iter + 1
    BY <1>4 DEF FreeRemove, NextCell, At, CoreInv, PlaceOK, Freeing
  <2>2. \A i \in DOMAIN sources : i >= iter' => i >= iter /\ sources[i] # cur
    <3>1. CASE iter = 0
      BY <1>4, <2>1, <3>1, ItemsMade DEF FreeRemove, CoreInv, PlaceOK, Detached, Freeing
    <3>2. CASE iter # 0
      BY <1>4, <2>1, <3>2, ItemsMade
         DEF FreeRemove, NextCell, CoreInv, PlaceOK, ListOK, Freeing
    <3> QED BY <3>1, <3>2
  <2>3. \A i \in DOMAIN sources : i >= iter' => Item(i)' = Item(i)
    BY <2>1, <2>2 DEF Item, CoreInv, TypeOK
  <2>4. \A i, j \in DOMAIN sources : iter' <= i /\ i < j => Item(i)' > Item(j)'
    <3> SUFFICES ASSUME NEW i \in DOMAIN sources, NEW j \in DOMAIN sources,
                        iter' <= i, i < j
                 PROVE  Item(i)' > Item(j)'
      OBVIOUS
    <3>1. i >= iter' /\ j >= iter' /\ iter <= i
      BY <2>1, <2>2, ItemsMade
    <3> QED BY <2>3, <3>1 DEF OrderOK
  <2> QED BY <2>1, <2>4 DEF OrderOK, Starting, Freeing
<1>5. CASE FreeAll
  <2>1. /\ pc' = "next" /\ iter = 0 /\ iter' = 1 /\ UNCHANGED itemVars
    BY <1>5 DEF FreeAll, At, CoreInv, PlaceOK
  <2> QED BY <2>1, ItemsMade DEF OrderOK, Item, itemVars, Starting, Freeing
<1>6. CASE FreeNext
  <2>1. pc' = "play" /\ iter' = iter /\ iter > 0 /\ UNCHANGED itemVars
    BY <1>6 DEF FreeNext, At, CoreInv, PlaceOK
  <2> QED BY <2>1 DEF OrderOK, Item, itemVars, Starting, Freeing
<1>7. CASE FreeDone
  BY <1>7 DEF FreeDone, OrderOK, Starting, Freeing
<1>8. CASE \/ SourceUri \/ SourceConnect \/ SourceTarget \/ SourceStartFails
           \/ FreePlay \/ FreePlayFails \/ FreeUnlink \/ FreeRelease \/ Second
           \/ UNCHANGED vars \/ GStreamer \/ \E n \in Params : StopUnknown(n)
  <2>1. /\ UNCHANGED <<cur, iter, itemVars>>
        /\ pc' \in Starting => pc \in Starting
        /\ pc' \in Freeing => pc \in Freeing
    BY <1>8 DEF SourceUri, SourceConnect, SourceTarget, SourceStartFails, FreePlay,
       FreePlayFails, FreeUnlink, FreeRelease, Second, vars, GStreamer, PadAdded,
       PipelineUp, PipelineFails, PipelineLost, StopUnknown, mainVars, At, Starting,
       Freeing
  <2>2. \A k : ItemId(k)' = ItemId(k)
    BY <2>1 DEF ItemId, itemVars
  <2> QED BY <2>1, <2>2 DEF OrderOK, Item, itemVars
<1> QED BY <1>1, <1>2, <1>3, <1>4, <1>5, <1>6, <1>7, <1>8 DEF Next, Handler, Request

(* The invariant holds at the start, and every step keeps it.              *)
LEMMA InitIInv == Init => IInv
<1>1. Init => DriveOK /\ PadOK /\ OrderOK
  BY DEF Init, DriveOK, PadOK, PadAbortExplained, OrderOK, Starting, Freeing
<1> QED BY InitCore, <1>1 DEF IInv, CoreInv

(* Every step keeps the inductive invariant.                               *)
LEMMA NextIInv == IInv /\ [Next]_vars => IInv'
BY NextCore, NextDrive, NextPad, NextOrder DEF IInv, CoreInv

(* The invariant holds in every state the plugin can reach.                *)
THEOREM Invariance == Spec => []IInv
BY InitIInv, NextIInv, PTL DEF Spec

(* Every variable keeps its type: in particular no handler ever plays,     *)
(* unlinks or links a source that was not made (play.c:65-121).            *)
THEOREM TypeCorrect == Spec => []TypeOK
<1>1. IInv => TypeOK
  BY DEF IInv
<1> QED BY <1>1, Invariance, PTL

(* No item is used after it was freed and none is freed twice, by STOP or  *)
(* by op_playback_free (play.c:222-237, 326-341).                          *)
THEOREM NoDangling == Spec => []NoDanglingItem
<1>1. IInv => NoDanglingItem
  BY DEF IInv, PlaceOK, ListOK, NoDanglingItem
<1> QED BY <1>1, Invariance, PTL

(* Between requests, and after op_playback_free, no source leaves a        *)
(* request pad, a link, an element or an item behind (play.c:96-121).      *)
THEOREM MixerMatches == Spec => []MixerMatchesList
<1>1. IInv => MixerMatchesList
  <2> SUFFICES ASSUME IInv, pc \in {"idle", "done"}
               PROVE  /\ inBin = Listed /\ muxPads = Listed /\ muxLinked = Listed
                      /\ Owned = Listed /\ decLinked \subseteq Listed
    BY DEF MixerMatchesList, Owned
  <2>1. inBin = Owned /\ muxPads = Owned /\ muxLinked = Owned /\ decLinked \subseteq Owned
    BY DEF IInv, MixerOK
  <2>2. Owned = Listed
    <3>1. Owned \subseteq Listed
      BY DEF IInv, ListOK, Owned, Listed, Item, Starting, Freeing
    <3>2. Listed \subseteq Owned
      BY DEF IInv, ListOK, PlaceOK, Owned, Listed, Item, TypeOK
    <3> QED BY <3>1, <3>2
  <2> QED BY <2>1, <2>2
<1> QED BY <1>1, Invariance, PTL

(* Every source whose PLAY was answered has been started, alone or with    *)
(* the pipeline, whatever the pipeline did meanwhile (play.c:81-91).       *)
THEOREM Driven == Spec => []PipelineDriven
<1>1. IInv => PipelineDriven
  BY DEF IInv, PlaceOK, DriveOK, PipelineDriven, Listed, TypeOK
<1> QED BY <1>1, Invariance, PTL

(* on_new_source_pad_link aborts the process only over a source that shows *)
(* more than one audio stream, or one STOP removed while it was PLAYING    *)
(* (play.c:58-63, 98, 115-116).                                            *)
THEOREM PadAbort == Spec => []PadAbortExplained
<1>1. IInv => PadAbortExplained
  BY DEF IInv, PadOK
<1> QED BY <1>1, Invariance, PTL

-----------------------------------------------------------------------------
(* The playback plugin implements the player of SourceSet: what a client   *)
(* hears and is answered is what that specification allows, whatever the   *)
(* steps of the main thread and of GStreamer it takes to get there.        *)

(* A set's largest element is the one that is at least all others.         *)
LEMMA MaxIs ==
  ASSUME NEW S \in SUBSET Nat, NEW m \in S, \A x \in S : m >= x
  PROVE  Player!Max(S) = m
<1> DEFINE P(x) == x \in S /\ \A y \in S : x >= y
<1>1. P(m)
  OBVIOUS
<1>2. \A x : P(x) => x = m
  OBVIOUS
<1>3. Player!Max(S) = CHOOSE x : P(x)
  BY DEF Player!Max
<1> HIDE DEF P
<1> QED BY <1>1, <1>2, <1>3

(* Every source that was made has a serial. *)
LEMMA SerialOfMade ==
  ASSUME TypeOK, NEW k \in DOMAIN log
  PROVE  k \in Serials
<1>1. k \in Nat /\ 1 <= k /\ k <= Len(log) /\ Len(log) <= MaxPlays /\ Len(log) \in Nat
  BY DEF TypeOK
<1> QED BY <1>1, PlaybackAssumption DEF Serials

(* What no client sees: the ids given out, the sources in the mix, the     *)
(* last reply and whether the plugin is being unloaded stay.               *)
Unseen == UNCHANGED <<Issued, InPlay, reply, iter # 0>>

(* Between requests every allocated item is in the list.                   *)
LEMMA OwnedListed ==
  ASSUME CoreInv, pc = "idle", NEW k \in Owned
  PROVE  \E i \in DOMAIN sources : Item(i) = k
BY DEF CoreInv, PlaceOK, ListOK, Owned, Item, Starting, Freeing

(* The initial state is the initial state of the player.                   *)
LEMMA InitPlayer == Init => Player!Init
<1> SUFFICES ASSUME Init PROVE Player!Init
  OBVIOUS
<1>1. Answered = 0 /\ InPlay = {}
  BY DEF Init, Answered, InPlay, Starting
<1>2. Issued = <<>>
  BY <1>1 DEF Issued
<1> QED BY <1>1, <1>2 DEF Init, Player!Init

(* The ids given out stay while no source is made.                         *)
LEMMA IssuedStays ==
  ASSUME UNCHANGED log, Answered' = Answered
  PROVE  Issued' = Issued
BY DEF Issued, ItemId

(* PLAY is not seen before it is answered ...                              *)
LEMMA PlayUnseen ==
  ASSUME CoreInv, NEW u \in Uris, NEW a \in Addrs, SourceNew(u, a)
  PROVE  Unseen
<1> DEFINE K == Len(log) + 1
<1>1. /\ pc = "idle" /\ pc' = "added" /\ cur' = a /\ K \in Serials
      /\ heap' = [heap EXCEPT ![a] = K]
      /\ muxPads' = muxPads \cup {K} /\ UNCHANGED <<reply, iter>>
      /\ \E x : log' = Append(log, x)
  BY DEF SourceNew, At
<1>2. heap'[a] = K
  BY <1>1 DEF CoreInv, TypeOK
<1>3. /\ K \notin muxPads /\ Len(log) \in Nat /\ Len(log') = K
      /\ \A k \in 1..Len(log) : log'[k] = log[k]
  BY <1>1 DEF CoreInv, TypeOK
<1>4. InPlay' = InPlay
  BY <1>1, <1>2, <1>3 DEF InPlay, Starting
<1>5. Answered = Len(log) /\ Answered' = Len(log)
  BY <1>1, <1>3 DEF Answered, Starting
<1>6. Issued' = Issued
  BY <1>3, <1>5 DEF Issued, ItemId
<1> QED BY <1>1, <1>4, <1>6 DEF Unseen

(* ... and then it is one step of the player.                              *)
LEMMA PlayAnswered ==
  ASSUME IInv, SourceStart
  PROVE  Player!Play(ItemId(heap[cur])) /\ ItemId(heap[cur]) \in 0..(IdModulus - 1)
<1> DEFINE K == Len(log)
<1>1. /\ pc = "go" /\ pc' = "idle" /\ iter = 0 /\ iter' = 0
      /\ heap[cur] = K /\ K \in muxPads /\ K \in DOMAIN log
      /\ UNCHANGED <<log, muxPads>>
      /\ reply' = [op |-> "PLAY", verb |-> "OK", id |-> ItemId(K)]
  <2>1. cur \in Addrs /\ heap[cur] # 0 /\ heap[cur] = K /\ iter = 0
    BY DEF SourceStart, At, IInv, PlaceOK, OrderOK, Starting
  <2>2. K \in DOMAIN log
    BY <2>1 DEF IInv, HeapOK
  <2>3. K \in muxPads
    BY <2>1 DEF SourceStart, At, IInv, MixerOK, Owned
  <2> QED BY <2>1, <2>2, <2>3 DEF SourceStart, At
<1>2. K \in Nat /\ K > 0 /\ K \in Serials
  BY <1>1, PlaybackAssumption DEF IInv, TypeOK, Serials
<1>3. Answered = K - 1 /\ Answered' = K
  BY <1>1 DEF Answered, Starting
<1>4. Issued' = Append(Issued, ItemId(K))
  BY <1>1, <1>2, <1>3 DEF Issued, ItemId
<1>5. InPlay = muxPads \ {K} /\ InPlay' = muxPads
  BY <1>1, <1>2 DEF InPlay, Starting
<1>6. Len(Issued) + 1 = K
  BY <1>2, <1>3 DEF Issued
<1>7. InPlay' = InPlay \cup {Len(Issued) + 1}
  BY <1>1, <1>5, <1>6
<1>8. ItemId(K) \in 0..(IdModulus - 1)
  BY <1>1, ItemIdType DEF IInv
<1> QED BY <1>1, <1>4, <1>7, <1>8 DEF Player!Play

(* A STOP that finds nothing is refused by the player too.                 *)
LEMMA StopRefused ==
  ASSUME IInv, NEW n \in Params, StopUnknown(n)
  PROVE  Player!Refuse(n % IdModulus) /\ n % IdModulus \in 0..(IdModulus - 1)
<1> DEFINE id == n % IdModulus
<1>1. /\ pc = "idle" /\ iter = 0 /\ UNCHANGED <<pc, cur, iter, log, heap, muxPads>>
      /\ reply' = [op |-> "STOP", verb |-> "FAIL", id |-> 0]
      /\ \A i \in DOMAIN sources : ItemId(Item(i)) # id
  BY DEF StopUnknown, At, IInv, PlaceOK, itemVars, gstVars
<1>2. InPlay = muxPads /\ InPlay' = muxPads
  BY <1>1 DEF InPlay, Starting
<1>3. Answered' = Answered /\ Answered = Len(log)
  BY <1>1 DEF Answered, Starting
<1>4. Issued' = Issued
  BY <1>1, <1>3, IssuedStays
<1>5. ASSUME NEW k \in InPlay PROVE Issued[k] # id
  <2>1. k \in Owned /\ k \in DOMAIN log
    BY <1>2 DEF IInv, MixerOK, TypeOK
  <2>2. ItemId(k) # id
    BY <1>1, <2>1, OwnedListed DEF CoreInv, IInv
  <2> QED BY <1>3, <2>1, <2>2 DEF Issued, IInv, TypeOK
<1>6. Player!WithId(id) = {}
  BY <1>5 DEF Player!WithId
<1>7. id \in 0..(IdModulus - 1)
  BY PlaybackAssumption
<1> QED BY <1>1, <1>2, <1>4, <1>6, <1>7 DEF Player!Refuse

(* The sources in the mix while the last step of freeing one is due.       *)
LEMMA Leaving ==
  ASSUME IInv, FreeRemove
  PROVE  /\ cur \in Addrs /\ heap[cur] \in Owned /\ heap[cur] \in DOMAIN log
         /\ InPlay = Owned /\ InPlay' = Owned \ {heap[cur]}
         /\ Issued' = Issued /\ Answered = Len(log)
<1>1. /\ pc = "remove" /\ pc' \in {"idle", "next"} /\ UNCHANGED <<log, muxPads>>
      /\ cur \in Addrs /\ heap[cur] # 0
  BY DEF FreeRemove, At, IInv, PlaceOK, Freeing
<1>2. heap[cur] \in Owned /\ heap[cur] \in DOMAIN log
  BY <1>1 DEF Owned, IInv, HeapOK
<1>3. heap[cur] \in Serials
  BY <1>2, SerialOfMade DEF IInv
<1>4. muxPads = Owned \ {heap[cur]}
  BY <1>1 DEF IInv, MixerOK
<1>5. InPlay = Owned /\ InPlay' = Owned \ {heap[cur]}
  BY <1>1, <1>2, <1>3, <1>4 DEF InPlay, Starting
<1>6. Answered' = Answered /\ Answered = Len(log)
  BY <1>1 DEF Answered, Starting
<1> QED BY <1>1, <1>2, <1>5, <1>6, IssuedStays

(* The source STOP frees is the newest one in the mix with the id.         *)
LEMMA StopAnswered ==
  ASSUME IInv, FreeRemove, iter = 0
  PROVE  Player!Stop(ItemId(heap[cur])) /\ ItemId(heap[cur]) \in 0..(IdModulus - 1)
<1> DEFINE K == heap[cur]
           id == ItemId(K)
<1>1. /\ pc = "remove" /\ iter' = 0
      /\ reply' = [op |-> "STOP", verb |-> "OK", id |-> id]
  BY DEF FreeRemove, At
<1>2. \A k \in Owned : k \in DOMAIN log /\ k \in Nat
  BY DEF Owned, IInv, HeapOK, TypeOK
<1>3. \A k \in Owned : Issued[k] = ItemId(k)
  BY <1>2, Leaving DEF Issued, IInv, TypeOK
<1>4. ASSUME NEW k \in Owned, ItemId(k) = id PROVE K >= k
  <2>1. PICK a \in Addrs : heap[a] = k /\ k # 0
    BY DEF Owned
  <2>2. CASE a = cur
    BY <1>2, <2>1, <2>2
  <2>3. CASE a # cur
    <3>1. PICK i \in DOMAIN sources : sources[i] = a
      BY <2>1, <2>3 DEF IInv, ListOK
    <3>2. Item(i) = k
      BY <2>1, <3>1 DEF Item
    <3>3. k < K
      BY <1>1, <1>4, <3>1, <3>2 DEF IInv, OrderOK, Freeing
    <3> QED BY <1>2, <3>3, Leaving
  <2> QED BY <2>2, <2>3
<1>5. /\ Player!WithId(id) = {k \in Owned : ItemId(k) = id}
      /\ K \in Player!WithId(id)
  BY <1>3, Leaving DEF Player!WithId
<1>6. Player!Max(Player!WithId(id)) = K
  <2> DEFINE S == Player!WithId(id)
  <2>1. S \in SUBSET Nat /\ K \in S /\ \A x \in S : K >= x
    BY <1>2, <1>4, <1>5
  <2> QED BY <2>1, MaxIs
<1>7. id \in 0..(IdModulus - 1)
  BY Leaving, ItemIdType DEF IInv
<1> QED BY <1>1, <1>5, <1>6, <1>7, Leaving DEF Player!Stop

(* The source op_playback_free frees is the newest one in the mix.         *)
LEMMA UnloadStep ==
  ASSUME IInv, FreeRemove, iter # 0
  PROVE  Player!Unload
<1> DEFINE K == heap[cur]
<1>1. /\ pc = "remove" /\ iter' = iter + 1 /\ reply' = reply /\ iter \in Nat
      /\ iter \in DOMAIN sources /\ cur = sources[iter]
  BY DEF FreeRemove, NextCell, At, IInv, PlaceOK, Freeing, TypeOK
<1>2. \A k \in Owned : k \in DOMAIN log /\ k \in Nat
  BY DEF Owned, IInv, HeapOK, TypeOK
<1>3. ASSUME NEW k \in Owned PROVE K >= k
  <2>1. PICK a \in Addrs : heap[a] = k /\ k # 0
    BY DEF Owned
  <2>2. CASE a = cur
    BY <1>2, <2>1, <2>2
  <2>3. CASE a # cur
    <3>1. PICK i \in DOMAIN sources : i >= iter /\ sources[i] = a
      BY <2>1, <2>3 DEF IInv, ListOK
    <3>2. Item(i) = k /\ Item(iter) = K
      BY <1>1, <2>1, <3>1 DEF Item
    <3>3. iter <= iter /\ iter < i
      BY <1>1, <2>3, <3>1 DEF IInv, TypeOK
    <3>4. K > k
      BY <1>1, <3>1, <3>2, <3>3 DEF IInv, OrderOK
    <3> QED BY <1>2, <3>4, Leaving
  <2> QED BY <2>2, <2>3
<1>4. Player!Max(Owned) = K
  <2>1. Owned \in SUBSET Nat /\ K \in Owned /\ \A x \in Owned : K >= x
    BY <1>2, <1>3, Leaving
  <2> QED BY <2>1, MaxIs
<1>5. iter' # 0
  BY <1>1
<1> QED BY <1>1, <1>4, <1>5, Leaving DEF Player!Unload

(* While a source is freed nothing is seen until it is removed: the mixer  *)
(* gives its pad up one step before.                                       *)
LEMMA ReleaseUnseen ==
  ASSUME IInv, FreeRelease
  PROVE  Unseen
<1>1. /\ pc = "release" /\ pc' = "remove" /\ UNCHANGED <<cur, iter, reply, log, heap>>
      /\ muxPads' = muxPads \ {sink} /\ sink = heap[cur]
      /\ cur \in Addrs /\ heap[cur] # 0
  BY DEF FreeRelease, At, IInv, PlaceOK, Freeing, itemVars
<1>2. heap[cur] \in muxPads /\ heap[cur] \in DOMAIN log
  BY <1>1 DEF IInv, MixerOK, Owned, HeapOK
<1>3. heap[cur] \in Serials
  BY <1>2, SerialOfMade DEF IInv
<1>4. InPlay = muxPads /\ InPlay' = (muxPads \ {heap[cur]}) \cup {heap[cur]}
  BY <1>1, <1>3 DEF InPlay, Starting
<1>5. Answered' = Answered
  BY <1>1 DEF Answered, Starting
<1> QED BY <1>1, <1>2, <1>4, <1>5, IssuedStays DEF Unseen

(* The other steps leave the mixer's pads alone, and do not answer.        *)
LEMMA OthersUnseen ==
  ASSUME IInv,
         \/ SourceUri \/ SourceConnect \/ SourceTarget \/ SourceStartFails
         \/ FreePlay \/ FreePlayFails \/ FreeUnlink \/ FreeNext \/ FreeDone
         \/ GStreamer \/ Second \/ UNCHANGED vars
         \/ \E n \in Params : StopFound(n)
  PROVE  Unseen
<1>1. /\ UNCHANGED <<log, heap, muxPads, reply, iter>>
      /\ pc' \in Starting <=> pc \in Starting
      /\ pc' \in Starting => cur' = cur
      /\ pc' = "remove" <=> pc = "remove"
      /\ pc' = "remove" => cur' = cur
  BY DEF SourceUri, SourceConnect, SourceTarget, SourceStartFails, FreePlay,
     FreePlayFails, FreeUnlink, FreeNext, FreeDone, GStreamer, PadAdded, PipelineUp,
     PipelineFails, PipelineLost, Second, StopFound, At, Starting, vars, mainVars,
     itemVars, gstVars
<1>2. InPlay' = InPlay
  BY <1>1 DEF InPlay
<1>3. Answered' = Answered
  BY <1>1 DEF Answered
<1> QED BY <1>1, <1>2, <1>3, IssuedStays DEF Unseen

(* Every step of the plugin is a step of the player, or is not seen.       *)
LEMMA NextPlayer == IInv /\ [Next]_vars => [Player!Next]_(Player!vars)
<1> SUFFICES ASSUME IInv, [Next]_vars PROVE [Player!Next]_(Player!vars)
  OBVIOUS
<1>0. Unseen => UNCHANGED Player!vars
  BY DEF Unseen, Player!vars
<1>1. CASE \E u \in Uris, a \in Addrs : SourceNew(u, a)
  BY <1>0, <1>1, PlayUnseen DEF IInv, CoreInv
<1>2. CASE SourceStart
  BY <1>2, PlayAnswered DEF Player!Next
<1>3. CASE \E n \in Params : StopUnknown(n)
  BY <1>3, StopRefused DEF Player!Next
<1>4. CASE FreeRemove
  <2>1. CASE iter = 0
    BY <1>4, <2>1, StopAnswered DEF Player!Next
  <2>2. CASE iter # 0
    BY <1>4, <2>2, UnloadStep DEF Player!Next
  <2> QED BY <2>1, <2>2
<1>5. CASE FreeRelease
  BY <1>0, <1>5, ReleaseUnseen
<1>6. CASE FreeAll
  <2>1. /\ pc = "idle" /\ pc' = "next" /\ iter = 0 /\ iter' = 1
        /\ UNCHANGED <<reply, log, muxPads>>
    BY <1>6 DEF FreeAll, At, IInv, PlaceOK, itemVars, gstVars
  <2>2. InPlay' = InPlay
    BY <2>1 DEF InPlay, Starting
  <2>3. Issued' = Issued
    BY <2>1, IssuedStays DEF Answered, Starting
  <2>4. Player!Close
    BY <2>1, <2>2, <2>3 DEF Player!Close
  <2> QED BY <2>4 DEF Player!Next
<1>7. CASE \/ SourceUri \/ SourceConnect \/ SourceTarget \/ SourceStartFails
           \/ FreePlay \/ FreePlayFails \/ FreeUnlink \/ FreeNext \/ FreeDone
           \/ GStreamer \/ Second \/ UNCHANGED vars
           \/ \E n \in Params : StopFound(n)
  BY <1>0, <1>7, OthersUnseen
<1> QED BY <1>1, <1>2, <1>3, <1>4, <1>5, <1>6, <1>7 DEF Next, Handler, Request

(* The plugin implements the player: a PLAY adds one source to the mix and *)
(* answers its id, a STOP takes out the newest source with the id or fails *)
(* and changes nothing, and unloading empties the mix, newest first        *)
(* (play.c:65-145, 222-237, 313-341).                                      *)
THEOREM Refinement == Spec => PlayerSpec
<1>1. Init /\ [][Next]_vars /\ []IInv => Player!Init /\ [][Player!Next]_(Player!vars)
  BY InitPlayer, NextPlayer, PTL
<1> QED BY <1>1, Invariance, PTL DEF Spec, PlayerSpec, Player!Spec
=============================================================================
