------------------------------ MODULE MCParser ------------------------------
(***************************************************************************)
(* Three plugins whose commands are made of two letters, so that every     *)
(* message of up to five characters can be tried: the second takes over a  *)
(* command of the first, the third refuses.  And the plugins of gst_playd  *)
(* with their own commands.                                                *)
(***************************************************************************)
EXTENDS Parser

Letters == {"A", "B"}
SmallPlugins == <<"first", "second", "third">>
SmallRegisters ==
  [first |-> {<<"A">>, <<"A", "B">>}, second |-> {<<"A">>, <<"B", "B">>},
   third |-> {<<"B">>, <<"A", "B">>}]
SmallMessages == UNION {[1..n -> Chars] : n \in 0..5}

Alphabet == {"A", "B", "D", "E", "G", "H", "I", "L", "M", "N", "O", "P", "Q", "R", "S",
             "T", "U", "Y"}
PING == <<"P", "I", "N", "G">>
PUBSUB == <<"P", "U", "B", "S", "U", "B">>
QUIT == <<"Q", "U", "I", "T">>
TAGS == <<"T", "A", "G", "S">>
PLAY == <<"P", "L", "A", "Y">>
STOP == <<"S", "T", "O", "P">>
DUMPGRAPH == <<"D", "U", "M", "P", "G", "R", "A", "P", "H">>

PlaydPlugins == <<"Ping", "Control", "Playback">>
PlaydRegisters ==
  [Ping |-> {PING}, Control |-> {PUBSUB, QUIT},
   Playback |-> {TAGS, PLAY, STOP, DUMPGRAPH}]
PlaydCommands == UNION {PlaydRegisters[p] : p \in {"Ping", "Control", "Playback"}}
PlaydMessages ==
  PlaydCommands
    \cup {c \o s : c \in PlaydCommands,
                   s \in {<<"space">>, <<"space", "other">>, <<"other">>}}
=============================================================================
