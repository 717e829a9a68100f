------------------------------- MODULE Parser -------------------------------
(***************************************************************************)
(* The message parser of gst_playd and its plugins (src/src/parser.c, and  *)
(* main's use of it): plugins are registered one by one, a message is      *)
(* split into a command and a parameter and handed to the plugin that has  *)
(* the command, and at the end the plugins are unloaded.                   *)
(*                                                                         *)
(* A message is a sequence of characters, because the split is about them: *)
(* capital letters, and one each to stand for a space, a line end (GRegex  *)
(* takes LF, CR, CR LF and some more for one), a NUL, bytes that are not   *)
(* UTF-8, and all others.                                                  *)
(***************************************************************************)
EXTENDS Integers, SequencesExt

CONSTANTS
  Capitals,   \* the letters of commands
  Plugins,    \* parser_operations: the plugins in the order of the array
  Registers,  \* the commands each plugin registers, as sequences of capitals
  Refuses,    \* the plugins whose plugin_register returns FALSE
  Fragile,    \* the plugins whose plugin_new may run into g_error
  Messages,   \* what clients send
  NULL        \* no plugin

Chars == Capitals \cup {"space", "newline", "nul", "bad", "other"}

Names == Range(Plugins)

ASSUME ParserAssumption ==
  /\ Capitals \cap {"space", "newline", "nul", "bad", "other"} = {}
  /\ Plugins \in Seq(Names) /\ IsInjective(Plugins) /\ NULL \notin Names
  /\ Registers \in [Names -> SUBSET Seq(Capitals)]
  /\ Messages \subseteq Seq(Chars)

VARIABLES
  pc,      \* "load", "serve", "reply" (a message was parsed), "free", "done",
           \* or "aborted"
  tried,   \* how many plugins main has tried to register
  ctx,     \* the context of each plugin: "none", "live" or "freed"
  list,    \* plugin_list, the newest first
  table,   \* message_table: the plugin behind each command
  called   \* the message in hand: its text, the plugin that got it, or NULL
           \* for "FAIL Message is Invalid", and the parameter it got

vars == <<pc, tried, ctx, list, table, called>>

NoCall == [text |-> <<>>, plugin |-> NULL, param |-> <<>>]

Init ==
  /\ pc = "load" /\ tried = 0
  /\ ctx = [p \in Names |-> "none"]
  /\ list = <<>> /\ table = <<>>
  /\ called = NoCall

-----------------------------------------------------------------------------
(* parse_register_plugin.  Mutant: the commands of a plugin that refuses   *)
(* are registered all the same.                                            *)
AlwaysAccepted(p) == TRUE

Accepted(p) == p \notin Refuses

(* g_hash_table_insert replaces what another plugin registered. *)
Entered(p) ==
  [c \in DOMAIN table \cup Registers[p] |->
     IF c \in Registers[p] THEN p ELSE table[c]]

Register ==
  /\ pc = "load" /\ tried < Len(Plugins)
  /\ tried' = tried + 1
  /\ LET p == Plugins[tried + 1] IN
       /\ ctx' = [ctx EXCEPT ![p] = IF p \in Refuses THEN "freed" ELSE "live"]
       /\ list' = IF p \in Refuses THEN list ELSE Cons(p, list)
       /\ table' = IF Accepted(p) THEN Entered(p) ELSE table
  /\ UNCHANGED <<pc, called>>

RegisterAborts ==
  /\ pc = "load" /\ tried < Len(Plugins)
  /\ Plugins[tried + 1] \in Fragile
  /\ pc' = "aborted"
  /\ UNCHANGED <<tried, ctx, list, table, called>>

Serve ==
  /\ pc = "load" /\ tried = Len(Plugins)
  /\ pc' = "serve"
  /\ UNCHANGED <<tried, ctx, list, table, called>>

-----------------------------------------------------------------------------
(* handle_message makes a C string of the message: it ends at a NUL. *)
Strlen(m) == CHOOSE n \in 0..Len(m) :
  (\A i \in 1..n : m[i] # "nul") /\ (n < Len(m) => m[n + 1] = "nul")

Text(m) == SubSeq(m, 1, Strlen(m))

(* The ways the regular expression ^([A-Z]+)[ ]?(.+)$ can match t: where   *)
(* the command ends, where the parameter begins, and where it ends.  A dot *)
(* is not a newline, $ is the end or just before a newline at the end, and *)
(* g_regex_match refuses what is not UTF-8.                                *)
Splits(t) ==
  {s \in [word : 1..Len(t), from : 1..Len(t), to : 1..Len(t)] :
     /\ \A i \in DOMAIN t : t[i] # "bad"
     /\ \A i \in 1..s.word : t[i] \in Capitals
     /\ \/ s.from = s.word + 1
        \/ s.from = s.word + 2 /\ t[s.word + 1] = "space"
     /\ s.from <= s.to /\ \A i \in s.from..s.to : t[i] # "newline"
     /\ \/ s.to = Len(t)
        \/ s.to = Len(t) - 1 /\ t[Len(t)] = "newline"}

(* The quantifiers are greedy, the first one first.  Mutant: the command   *)
(* takes as little as it can.                                              *)
LazyBefore(s, r) == s.word < r.word \/ (s.word = r.word /\ s.from >= r.from)

TriedBefore(s, r) == s.word > r.word \/ (s.word = r.word /\ s.from >= r.from)

Match(t) == CHOOSE s \in Splits(t) : \A r \in Splits(t) : TriedBefore(s, r)

Command(t) == SubSeq(t, 1, Match(t).word)
Param(t) == SubSeq(t, Match(t).from, Match(t).to)

(* parse_message *)
Known(t) == Splits(t) # {} /\ Command(t) \in DOMAIN table

Invalid(m) ==
  /\ pc = "serve" /\ ~Known(Text(m))
  /\ pc' = "reply"
  /\ called' = [text |-> Text(m), plugin |-> NULL, param |-> <<>>]
  /\ UNCHANGED <<tried, ctx, list, table>>

Dispatch(m) ==
  /\ pc = "serve" /\ Known(Text(m))
  /\ called' = [text |-> Text(m), plugin |-> table[Command(Text(m))],
                param |-> Param(Text(m))]
  /\ pc' = "reply"
  /\ UNCHANGED <<tried, ctx, list, table>>

Reply ==
  /\ pc = "reply"
  /\ pc' = "serve" /\ called' = NoCall
  /\ UNCHANGED <<tried, ctx, list, table>>

-----------------------------------------------------------------------------
(* parse_free: the table goes first ... Mutant: it goes last. *)
TableKept == table

TableGone == <<>>

Free ==
  /\ pc = "serve"
  /\ pc' = "free" /\ table' = TableGone
  /\ UNCHANGED <<tried, ctx, list, called>>

(* ... then the plugins, from the head of the list.  Mutant: its end.      *)
Oldest == Len(list)

Newest == 1

FreePlugin ==
  /\ pc = "free" /\ list # <<>>
  /\ ctx' = [ctx EXCEPT ![list[Newest]] = "freed"]
  /\ list' = RemoveAt(list, Newest)
  /\ UNCHANGED <<pc, tried, table, called>>

Freed ==
  /\ pc = "free" /\ list = <<>>
  /\ pc' = "done"
  /\ UNCHANGED <<tried, ctx, list, table, called>>

Next ==
  \/ Register \/ RegisterAborts \/ Serve
  \/ \E m \in Messages : Invalid(m) \/ Dispatch(m)
  \/ Reply
  \/ Free \/ FreePlugin \/ Freed

Spec == Init /\ [][Next]_vars

-----------------------------------------------------------------------------
(* TLC checks it as a part of IInv. *)
TypeOK ==
  /\ pc \in {"load", "serve", "reply", "free", "done", "aborted"}
  /\ tried \in 0..Len(Plugins)
  /\ ctx \in [Names -> {"none", "live", "freed"}]
  /\ list \in Seq(Names)
  /\ DOMAIN table \subseteq Seq(Capitals)
  /\ \A c \in DOMAIN table : table[c] \in Names
  /\ called.text \in Seq(Chars) /\ called.param \in Seq(Chars)
  /\ called.plugin \in Names \cup {NULL}

(* No command leads to a plugin whose context is not there: not while      *)
(* plugins are registered, of which some refuse or take over the commands  *)
(* of others, and not while they are unloaded.                             *)
NoDanglingContext ==
  \A c \in DOMAIN table : ctx[table[c]] = "live" /\ c \in Registers[table[c]]

(* Plugins are unloaded each once and the newest first, so that the first  *)
(* ones registered are there for all others, and in the end none is left.  *)
UnloadedNewestFirst ==
  /\ \A i, j \in 1..tried :
       i < j /\ ctx[Plugins[j]] = "live" /\ Plugins[i] \notin Refuses =>
         ctx[Plugins[i]] = "live"
  /\ pc = "done" => \A p \in Names : ctx[p] = "freed"

-----------------------------------------------------------------------------
(* How far the capitals go at the head of t, and where its line ends. *)
CapitalsEnd(t) == CHOOSE n \in 0..Len(t) :
  (\A i \in 1..n : t[i] \in Capitals) /\ (n < Len(t) => t[n + 1] \notin Capitals)

LineEnd(t) ==
  IF t # <<>> /\ t[Len(t)] = "newline" THEN Len(t) - 1 ELSE Len(t)

(* A text is understood if it is one line of UTF-8, of two characters or   *)
(* more, that begins with a capital.  Its command is all of the capitals   *)
(* at its head, but never the whole line: a command without a parameter    *)
(* loses its last letter to one.                                           *)
Understood(t) ==
  /\ LineEnd(t) >= 2 /\ t[1] \in Capitals
  /\ \A i \in 1..Len(t) : t[i] # "bad"
  /\ \A i \in 1..LineEnd(t) : t[i] # "newline"

WordEnd(t) ==
  IF CapitalsEnd(t) = LineEnd(t) THEN CapitalsEnd(t) - 1 ELSE CapitalsEnd(t)

ParamStart(t) ==
  IF t[WordEnd(t) + 1] = "space" /\ WordEnd(t) + 1 < LineEnd(t)
  THEN WordEnd(t) + 2 ELSE WordEnd(t) + 1

(* A message goes to the plugin that registered its command last, with the *)
(* parameter that follows it, whatever ways there were to match it; and a  *)
(* message with no such plugin goes to none.                               *)
Owner(c) == {i \in 1..Len(Plugins) :
               Plugins[i] \notin Refuses /\ c \in Registers[Plugins[i]]}

HandedToOwner ==
  LET t == called.text  c == SubSeq(t, 1, WordEnd(t)) IN
    IF Understood(t) /\ Owner(c) # {}
    THEN /\ \E i \in Owner(c) : /\ called.plugin = Plugins[i]
                                /\ \A j \in Owner(c) : j <= i
         /\ called.param = SubSeq(t, ParamStart(t), LineEnd(t))
    ELSE called.plugin = NULL

(* The inductive invariant.  The contexts that live are those in the list, *)
(* in the order they were made in; while messages are served they are all  *)
(* that did not refuse, and the table has exactly their commands, each for *)
(* the last plugin that registered it.                                     *)
ListOK ==
  /\ \A i \in 1..Len(Plugins) : LET p == Plugins[i] IN
       /\ ctx[p] = "none" <=> i > tried
       /\ p \in Refuses => ctx[p] # "live"
       /\ pc \notin {"free", "done"} /\ i <= tried /\ p \notin Refuses => ctx[p] = "live"
       /\ ctx[p] = "live" => \E k \in DOMAIN list : list[k] = p
  /\ \A k \in DOMAIN list : ctx[list[k]] = "live"
  /\ \A k, l \in DOMAIN list, i, j \in 1..Len(Plugins) :
       k < l /\ list[k] = Plugins[i] /\ list[l] = Plugins[j] => j < i
  /\ pc \notin {"load", "aborted"} => tried = Len(Plugins)
  /\ pc = "done" => list = <<>>

TableOK ==
  IF pc \in {"free", "done"} THEN DOMAIN table = {} ELSE
  /\ \A i \in 1..tried : Plugins[i] \notin Refuses =>
       Registers[Plugins[i]] \subseteq DOMAIN table
  /\ \A c \in DOMAIN table : \E i \in Owner(c) :
       /\ table[c] = Plugins[i] /\ i <= tried
       /\ \A j \in Owner(c) : j <= i \/ j > tried

IInv ==
  /\ TypeOK /\ ListOK /\ TableOK /\ HandedToOwner
  /\ pc # "reply" => called = NoCall

(* README.md:49: a command can be sent with no parameter, as STOP is       *)
(* there, and then the plugin that registered it gets it.                  *)
BareCommandHandled ==
  \A p \in Names \ Refuses :
    called.text \in Registers[p] => called.plugin # NULL
=============================================================================
