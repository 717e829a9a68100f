------------------------------- MODULE MCTags -------------------------------
(***************************************************************************)
(* Two tags of several types.  The lists differ in their values, in how    *)
(* many there are, and in the tags they leave out; one is empty.           *)
(***************************************************************************)
EXTENDS Tags

V(type, n) == [type |-> type, n |-> n]

MCValues ==
  {V("string", n) : n \in 1..3} \cup {V("uint64", 1), V("uint", 164), V("double", 15)}

MCTagLists ==
  {[t \in {} |-> <<>>],
   [t \in {"title"} |-> <<V("string", 1), V("string", 2)>>],
   [t \in {"title"} |-> <<V("string", 3)>>],
   [t \in {"title", "bitrate"} |->
      IF t = "title" THEN <<V("string", 1)>> ELSE <<V("uint64", 1), V("uint", 164), V("double", 15)>>]}
=============================================================================
