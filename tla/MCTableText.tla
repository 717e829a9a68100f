---------------------------- MODULE MCTableText -----------------------------
(***************************************************************************)
(* Tables of no entry and of one with every value of up to three          *)
(* characters, and tables of two to four entries: a tag with two or three  *)
(* indices, tags with an underscore and none at all.  From four entries    *)
(* on, a buffer that is short by a character for each has no room for the  *)
(* NUL.                                                                    *)
(***************************************************************************)
EXTENDS TableText

K(tag, index) == [tag |-> tag, index |-> index]
One == K(<<"a">>, <<"0">>)
Other == K(<<"a">>, <<"1">>)
Third == K(<<"a">>, <<"1", "0">>)
Odd == K(<<"a", "underscore", "0">>, <<"0">>)
Bare == K(<<>>, <<"1", "0">>)

MCNumber == (<<"0">> :> 0) @@ (<<"1">> :> 1) @@ (<<"1", "0">> :> 10)

MCValues == UNION {[1..n -> {"a", "underscore", "0", "newline", "cr"}] : n \in 0..3}
FewValues == {<<>>, <<"a", "underscore", "0">>, <<"newline">>, <<"cr">>}

MCTables ==
  {[k \in {} |-> <<>>]}
    \cup UNION {[{k} -> MCValues] : k \in {One, Odd}}
    \cup UNION {[ks -> FewValues] : ks \in {{One, Other}, {One, Odd}, {One, Other, Third},
                                            {One, Other, Odd, Bare}}}
=============================================================================
