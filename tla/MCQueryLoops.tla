---------------------------- MODULE MCQueryLoops ----------------------------
(* Every pair of lists of the numbers 0..5, and those lists of 0..6 that   *)
(* have at most two elements or all seven: so the stride is 1, 2 or 3, and *)
(* two leaps in a row occur.                                               *)
(*                                                                         *)
(* Documents of up to five tokens over two terms of the query and one that *)
(* is in no query; queries of up to three terms, with repetitions.         *)
EXTENDS QueryLoops

SeqsUpTo(S, n) == UNION {[1..m -> S] : m \in 0..n}

AscendingList(S) == SelectSeq(<<0, 1, 2, 3, 4, 5, 6>>, LAMBDA n : n \in S)

MCLists == {AscendingList(S) : S \in SUBSET (0..5)} \cup
           {AscendingList({n, 6}) : n \in 0..6} \cup {AscendingList(0..6)}

MCDocuments == SeqsUpTo({"x", "y", "z"}, 5)
MCTermLists == SeqsUpTo({"x", "y"}, 3)
(* A literal that overflows can be negative. *)
MCWidths == {-1, 0, 1, 3}

(* Texts to parse: all of up to five of the tokens that nest, all of up to *)
(* three tokens, and what one wrong, missing or surplus token makes of a   *)
(* correct text with leaves of each kind.                                  *)
Nesting == {Ident("x")} \cup {Tok(t) : t \in {"(", ")", "and", "or", "not"}}
Tokens ==
  Nesting \cup {Ident("y"), IntTok(1), IntTok(12)} \cup
  {Tok(t) : t \in {",", "near", "adj", "msm", "first", "last", "bad"}}

LB == Tok("(")
RB == Tok(")")
Comma == Tok(",")

WithLeaves ==
  {<<Tok("first"), LB, Ident("x"), RB>>,
   <<Tok("near"), LB, IntTok(12), Comma, Ident("x"), Comma, Ident("y"), RB>>,
   <<Tok("adj"), LB, Ident("x"), Comma, Ident("y"), RB>>,
   <<Tok("msm"), LB, IntTok(1), Comma, Ident("x"), Comma, Ident("y"), RB>>,
   <<Tok("not"), LB, Tok("last"), LB, Ident("x"), RB, Tok("or"), Ident("x"), RB,
     Tok("and"), Ident("y")>>}

OneOff(s) ==
  UNION {{SubSeq(s, 1, n - 1) \o more \o SubSeq(s, n + 1, Len(s)) :
            more \in {<<>>} \cup {<<t>> : t \in Tokens} \cup {<<s[n], t>> : t \in Tokens}} :
           n \in 1..Len(s)}

MCLines ==
  SeqsUpTo(Nesting, 5) \cup SeqsUpTo(Tokens, 3) \cup UNION {OneOff(s) : s \in WithLeaves}
=============================================================================
