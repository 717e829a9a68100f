------------------------------ MODULE MCBase64 ------------------------------
(***************************************************************************)
(* Sources of up to seven bytes, whose text is longer than the input       *)
(* buffer, and every file of up to six characters out of five.             *)
(***************************************************************************)
EXTENDS Base64

SeqsUpTo(S, n) == UNION {[1..m -> S] : m \in 0..n}

MCSources == SeqsUpTo({0, 90, 255}, 4) \cup [1..7 -> {90, 255}]
MCStreams == SeqsUpTo({22, 41, Pad, Junk, Blank}, 6)
=============================================================================
