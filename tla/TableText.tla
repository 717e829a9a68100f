----------------------------- MODULE TableText ------------------------------
(***************************************************************************)
(* The text of a table of tags, from util_hash_table_as_string             *)
(* (src/src/utility.c), which measures the table, allocates a buffer and   *)
(* prints into it, to the client that reads it (the tags method in         *)
(* src/extras/gst-playd-client.rb).                                        *)
(*                                                                         *)
(* Texts are sequences of characters.  The characters that count are the   *)
(* line end, the carriage return, the underscore and the digits, which     *)
(* tell a key's tag from its index, and the NUL that ends a string.        *)
(***************************************************************************)
EXTENDS Integers, SequencesExt

CONSTANTS
  Digits,  \* the digits
  Others,  \* characters without a meaning
  Number,  \* the numbers that the texts of indices stand for
  Tables   \* functions from keys [tag, index], two texts, to texts

Chars == Digits \cup Others \cup {"underscore", "newline", "cr"}

Texts == Seq(Chars)

(* What the keys and values are made of: gsu_tags_to_hash_table prints an  *)
(* index in decimal, each index of a tag once; names of tags are words, *)
(* and a string has no NUL.                                                *)
ASSUME TableAssumption ==
  /\ "nul" \notin Chars /\ (Digits \cup Others) \cap {"underscore", "newline", "cr"} = {}
  /\ \A t \in Tables : IsFiniteSet(DOMAIN t) /\ \A k \in DOMAIN t :
       /\ k.tag \in Seq(Digits \cup Others \cup {"underscore"})
       /\ k.index \in Seq(Digits) /\ k.index # <<>>
       /\ Number[k.index] \in Nat
       /\ \A l \in DOMAIN t : l.tag = k.tag /\ Number[l.index] = Number[k.index] => l = k
       /\ t[k] \in Texts

VARIABLES
  pc,       \* "measure", "print", "reply", "read"
  table,
  order,    \* how GLib walks its keys, in one way or another
  at,       \* the entries the pass has done
  bufsize,
  buf, iter,  \* the buffer, by position, and how far it is printed
  answer,   \* the client's copy of the reply
  result    \* what the client makes of it: the values of each tag, or an
            \* error

vars == <<pc, table, order, at, bufsize, buf, iter, answer, result>>

(* The key of an entry, "%s_%d", and what is printed of an entry.          *)
KeyText(k) == k.tag \o <<"underscore">> \o k.index
Entry(k) == KeyText(k) \o <<"newline">> \o table[k] \o <<"newline">>

NoResult == [error |-> FALSE, dict |-> <<>>]

Init ==
  /\ pc = "measure"
  /\ table \in Tables /\ order \in SetToSeqs(DOMAIN table)
  /\ at = 0 /\ bufsize = 4
  /\ buf = <<>> /\ iter = 0 /\ answer = <<>> /\ result = NoResult

-----------------------------------------------------------------------------
(* hash_foreach_calc_length.  Mutant: one newline is forgotten. *)
OneNewline(k) == Len(KeyText(k)) + Len(table[k]) + 1

EntryLength(k) == Len(KeyText(k)) + Len(table[k]) + 2

Measure ==
  /\ pc = "measure" /\ at < Len(order)
  /\ at' = at + 1
  /\ bufsize' = bufsize + EntryLength(order[at + 1])
  /\ UNCHANGED <<pc, table, order, buf, iter, answer, result>>

Allocate ==
  /\ pc = "measure" /\ at = Len(order)
  /\ pc' = "print" /\ at' = 0
  /\ buf' = [i \in 1..bufsize |-> "nul"] /\ iter' = 0
  /\ UNCHANGED <<table, order, bufsize, answer, result>>

(* hash_foreach_create_message: sprintf ends what it prints with a NUL,    *)
(* which the next entry replaces.  Mutant: the next goes behind it.        *)
BehindNul(k) == iter + Len(Entry(k)) + 1

Advance(k) == iter + Len(Entry(k))

Written(k) ==
  LET line == Entry(k) \o <<"nul">> IN
  [i \in 1..(IF iter + Len(line) > Len(buf) THEN iter + Len(line) ELSE Len(buf)) |->
     IF i - iter \in DOMAIN line THEN line[i - iter] ELSE buf[i]]

Write ==
  /\ pc = "print" /\ at < Len(order)
  /\ at' = at + 1
  /\ buf' = Written(order[at + 1])
  /\ iter' = Advance(order[at + 1])
  /\ UNCHANGED <<pc, table, order, bufsize, answer, result>>

(* op_tags_parse puts OK and a line end before the string in the buffer.   *)
String(b) == SubSeq(b, 1, SelectInSeq(b, LAMBDA c : c = "nul") - 1)

Reply ==
  /\ pc = "print" /\ at = Len(order)
  /\ pc' = "reply"
  /\ answer' = <<"O", "K", "newline">> \o String(buf)
  /\ UNCHANGED <<table, order, at, bufsize, buf, iter, result>>

-----------------------------------------------------------------------------
(* The client: lines, with their line ends.  A character goes to the last  *)
(* line unless that has ended, ...                                         *)
WithChar(ls, c) ==
  IF ls = <<>> \/ Last(Last(ls)) = "newline" THEN Append(ls, <<c>>)
  ELSE Append(Front(ls), Append(Last(ls), c))

Lines(t) ==
  LET upTo[i \in 0..Len(t)] == IF i = 0 THEN <<>> ELSE WithChar(upTo[i - 1], t[i])
  IN  upTo[Len(t)]

(* ... chomp, which takes a CR with the line end, or by itself ... *)
Chomp(l) ==
  LET n == Len(l) IN
  IF n >= 2 /\ l[n] = "newline" /\ l[n - 1] = "cr" THEN SubSeq(l, 1, n - 2)
  ELSE IF n >= 1 /\ l[n] \in {"newline", "cr"} THEN SubSeq(l, 1, n - 1)
  ELSE l

(* ... and the tag and index in a key's line: before and after the         *)
(* underscore that has nothing but digits behind it, up to the line end.   *)
(* Mutant: the first underscore.                                           *)
Key(l) == IF Last(l) = "newline" THEN Front(l) ELSE l

Matches(l) ==
  {i \in DOMAIN l : /\ l[i] = "underscore" /\ i + 1 \in DOMAIN l /\ l[i + 1] \in Digits
                    /\ \A j \in i + 1..Len(l) : l[j] \in Digits}

FirstUnderscore(l) == SelectInSeq(l, LAMBDA c : c = "underscore")

Underscore(l) == CHOOSE i \in Matches(l) : TRUE

Tag(l) == SubSeq(l, 1, Underscore(l) - 1)

(* response_to_tag_dict: lines are taken two by two, and each value is put *)
(* behind the others of its tag.  A key's line that does not match, and    *)
(* one without a value's line, raise an error.                             *)
Added(dict, tag, v) ==
  [t \in DOMAIN dict \cup {tag} |->
     IF t # tag THEN dict[t]
     ELSE Append(IF tag \in DOMAIN dict THEN dict[tag] ELSE <<>>, v)]

Collected(tags, values) ==
  LET upTo[i \in 0..Len(tags)] ==
        IF i = 0 THEN <<>> ELSE Added(upTo[i - 1], tags[i], values[i])
  IN  upTo[Len(tags)]

Understood(ls) ==
  LET keys == [i \in 1..(Len(ls) + 1) \div 2 |-> Key(ls[2 * i - 1])] IN
  IF Len(ls) % 2 = 0 /\ \A i \in DOMAIN keys : Matches(keys[i]) # {}
  THEN [error |-> FALSE,
        dict |-> Collected([i \in DOMAIN keys |-> Tag(keys[i])],
                           [i \in DOMAIN keys |-> Chomp(ls[2 * i])])]
  ELSE [error |-> TRUE, dict |-> <<>>]

Read ==
  /\ pc = "reply"
  /\ pc' = "read"
  /\ result' = Understood(Tail(Lines(answer)))
  /\ UNCHANGED <<table, order, at, bufsize, buf, iter, answer>>

Next == Measure \/ Allocate \/ Write \/ Reply \/ Read

Spec == Init /\ [][Next]_vars

-----------------------------------------------------------------------------
TypeOK ==
  /\ pc \in {"measure", "print", "reply", "read"}
  /\ table \in Tables /\ order \in SetToSeqs(DOMAIN table)
  /\ at \in 0..Len(order) /\ bufsize \in Nat
  /\ iter \in 0..bufsize - 1  \* a position in the buffer
  /\ buf \in Seq(Chars \cup {"nul"})

(* The buffer that was measured holds what is printed, the NUL behind it   *)
(* included, for any table (utility.c:86-112).                             *)
NothingPastEnd == pc # "measure" => Len(buf) = bufsize

(* The string in the buffer is all entries in the order they were visited: *)
(* no NUL between them, and none is cut.                                   *)
StringIsTable ==
  pc = "print" /\ at = Len(order) =>
    String(buf) = FlattenSeq([i \in DOMAIN order |-> Entry(order[i])])

(* What a client should get: the values of each tag, and the value of a    *)
(* tag's first index first, its second index second, and so on.            *)
KeysOfTag(t) == {k \in DOMAIN table : k.tag = t}

Rank(k) ==
  Cardinality({l \in KeysOfTag(k.tag) : Number[l.index] <= Number[k.index]})

IsTable(dict) ==
  /\ DOMAIN dict = {k.tag : k \in DOMAIN table}
  /\ \A t \in DOMAIN dict : Len(dict[t]) = Cardinality(KeysOfTag(t))
  /\ \A k \in DOMAIN table : dict[k.tag][Rank(k)] = table[k]

(* Which of its tag's entries the walk's i-th entry is.                    *)
Place(i) == Cardinality({j \in 1..i : order[j].tag = order[i].tag})

Clean(v) == (\A i \in DOMAIN v : v[i] # "newline") /\ (v # <<>> => Last(v) # "cr")

(* The client gets the table, whatever tags look like, exactly if no value *)
(* has a line end in it or a CR at its end, which GStreamer's comments and *)
(* lyrics may have, and GLib's walk comes to the values of each tag in the *)
(* order of their indices, but for equal ones: the client does not look at *)
(* the index it takes from a key (gst-playd-client.rb:57-65).              *)
ReadsBack ==
  pc = "read" =>
    (~result.error /\ IsTable(result.dict)
       <=> /\ \A k \in DOMAIN table : Clean(table[k])
           /\ \A i \in DOMAIN order, k \in DOMAIN table :
                order[i].tag = k.tag /\ Place(i) = Rank(k) => table[order[i]] = table[k])
=============================================================================
