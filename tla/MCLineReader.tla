---------------------------- MODULE MCLineReader ----------------------------
(***************************************************************************)
(* Small files over a small arena.                                         *)
(***************************************************************************)
EXTENDS LineReader

(* Lines of every length from nothing to behind the second growth; those   *)
(* of 2 and 4 characters fill their block.                                 *)
FewLines == {<<>>, <<"x">>, <<"x", "s", "n", "n">>, <<"x", "x">>}
AllLines == FewLines \cup
  {<<"n">>, <<"s", "x">>, <<"x", "s", "n">>, <<"x", "s", "n", "x">>, <<"x", "s", "n", "s">>,
   <<"x", "x", "x", "s", "n">>, <<"x", "n", "s", "n", "s", "n", "n", "n">>}
SmallFiles == UNION {[1 .. k -> AllLines] : k \in 0 .. 3} \cup [1 .. 4 -> FewLines]

SomeSizes == {1, 2, 4, 8, 16}
SomeNames == {"A", "B", "C"}
SomeCapacities == {2, 4, 8}
=============================================================================
