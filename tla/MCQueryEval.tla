---------------------------- MODULE MCQueryEval ----------------------------
(* Up to two documents and two calls.  The queries have every operator at  *)
(* the root or below another one; the texts let each of them tell two      *)
(* documents apart.                                                        *)
EXTENDS QueryEval

x == "x"
y == "y"

MCTerms == {x, y}

MCTexts == {<<>>, <<x>>, <<y, x, x>>}

MCNodes == <<
  Term(x), Term(y), Near(1, x, y), Near(-1, x, y), Adj(x, y),         \* 1 to 5
  EdgeStart(x), EdgeEnd(x), EdgeEnd(y),                               \* 6 to 8
  MSM(1, <<x, y>>), MSM(2, <<x, x>>), MSM(-1, <<x>>),                 \* 9 to 11
  NotOf(1), NotOf(2), NotOf(9),                                       \* 12 to 14
  OrOf(1, 2), OrOf(2, 1), OrOf(13, 4), AndOf(<<1, 2>>),               \* 15 to 18
  AndOf(<<1, 13, 7>>), AndOf(<<2, 1, 16>>), OrOf(2, 18), NotOf(21),   \* 19 to 22
  Near(1, x, x), OrOf(6, 8), AndOf(<<24, 3>>), OrOf(5, 10) >>

MCQueries == {1, 14, 17, 19, 20, 22, 25, 26}

DocQueries == MCQueries \cup {11, 23}
=============================================================================
