------------------------------ MODULE QueryParse ------------------------------
(***************************************************************************)
(* The parser of queries in lab-5-irindex (parse.go), a recursive descent  *)
(* over tokens with an error field that callers look at, or not, compared  *)
(* with the grammar it stands for: NOT binds tightest, then AND, then OR;  *)
(* a chain of AND is one node, OR associates to the left.                  *)
(*                                                                         *)
(* A query is the sequence of its tokens.  Numbers in the text are         *)
(* natural; the lexer computes them in an int of IntBits bits.  A "bad"    *)
(* token is a character the lexer does not know: it sets an error and is   *)
(* the end of the input from then on.                                      *)
(***************************************************************************)
EXTENDS Integers, SequencesExt

CONSTANTS
  Lines,      \* the queries, sequences of tokens
  IntBits     \* the bits of an int

ASSUME IntBitsAssumption == IntBits \in Nat \ {0}

VARIABLES
  line,       \* the argument of Parse
  tree,       \* its result
  parsePc     \* "start" or "done"

parseVars == <<line, tree, parsePc>>

(* Tokens. *)
Ident(lex) == [kind |-> "ident", lit |-> lex, ival |-> 0]
IntTok(n)  == [kind |-> "int", lit |-> "", ival |-> n]
Tok(kind)  == [kind |-> kind, lit |-> "", ival |-> 0]

(* Nodes of the tree, with the fields that they have in common. *)
Leaf(op, num, lits) == [op |-> op, num |-> num, lits |-> lits, kids |-> <<>>]
Inner(op, kids)     == [op |-> op, num |-> 0, lits |-> <<>>, kids |-> kids]

ErrorTerm == Leaf("term", 0, <<"__error__">>)

(* The sum of digits is cut to an int as it grows. *)
Int64(n) == ((n + 2 ^ (IntBits - 1)) % 2 ^ IntBits) - 2 ^ (IntBits - 1)

-----------------------------------------------------------------------------
(* The lexer: the token in front is that at index at. *)
LexErr(s, at) == at <= Len(s) /\ s[at].kind = "bad"

Kind(s, at) == IF at > Len(s) \/ LexErr(s, at) THEN "eof" ELSE s[at].kind

Next1(s, at) == IF at > Len(s) \/ LexErr(s, at) THEN at ELSE at + 1

(* What a parse function returns: a node, the token it came to, and        *)
(* whether p.err is set by then.                                           *)
Result(node, at, err) == [node |-> node, at |-> at, err |-> err]

(* What must follow the name of a leaf.  *)
Expected ==
  [first |-> <<"(", "ident", ")">>,
   last  |-> <<"(", "ident", ")">>,
   adj   |-> <<"(", "ident", ",", "ident", ")">>,
   near  |-> <<"(", "int", ",", "ident", ",", "ident", ")">>,
   msm   |-> <<"(", "int", ",", "ident">>]

(* How many of the tokens from at on are of the kinds that are expected. *)
Matched(s, at, kinds) ==
  CHOOSE n \in 0..Len(kinds) :
    /\ \A i \in 1..n : Kind(s, at + i - 1) = kinds[i]
    /\ n = Len(kinds) \/ Kind(s, at + n) # kinds[n + 1]

OfKind(s, kind) == SelectSeq(s, LAMBDA t : t.kind = kind)
Literals(s) == [i \in 1..Len(OfKind(s, "ident")) |-> OfKind(s, "ident")[i].lit]
Numbers(s) == [i \in 1..Len(OfKind(s, "int")) |-> Int64(OfKind(s, "int")[i].ival)]

(* The leaf that tokens m..n of s spell. *)
Spelt(op, s, m, n) ==
  LET part == SubSeq(s, m, n)
  IN  Leaf(op, IF Numbers(part) = <<>> THEN 0 ELSE Numbers(part)[1], Literals(part))

(* The loop of MSM over the terms after the first, from their comma on. *)
RECURSIVE MoreTerms(_, _)
MoreTerms(s, at) ==
  IF Kind(s, at) # "," THEN [at |-> at, err |-> Kind(s, at) # ")"]
  ELSE IF Kind(s, at + 1) # "ident" THEN [at |-> at + 1, err |-> TRUE]
  ELSE MoreTerms(s, at + 2)

parseLeaf(s, at, err) ==
  LET op   == Kind(s, at)
      n    == Matched(s, at + 1, Expected[op])
      open == at + 1 + n                      \* the first token not matched
      more == IF op = "msm" THEN MoreTerms(s, open) ELSE [at |-> open - 1, err |-> FALSE]
  IN  IF n < Len(Expected[op]) THEN Result(ErrorTerm, open, TRUE)
      ELSE IF more.err THEN Result(ErrorTerm, more.at, TRUE)
      ELSE Result(Spelt(op, s, at, more.at), more.at + 1, err)

RECURSIVE parseOrExpr(_, _, _), parseAndExpr(_, _, _), parseUnary(_, _, _),
          AndParts(_, _, _), AndPart(_, _, _), OrParts(_, _, _), OrPart(_, _, _)

(* What parsePrimary makes of the expression behind a parenthesis. *)
Closed(s, body) ==
  IF Kind(s, body.at) # ")" THEN Result(body.node, body.at, TRUE)
  ELSE Result(body.node, body.at + 1, body.err)

parsePrimary(s, at, err) ==
  LET kind == Kind(s, at)
  IN  CASE LexErr(s, at)           -> Result(ErrorTerm, at, err)
        [] kind = "ident"          -> Result(Leaf("term", 0, <<s[at].lit>>), at + 1, err)
        [] kind \in DOMAIN Expected -> parseLeaf(s, at, err)
        [] kind = "("              -> Closed(s, parseOrExpr(s, Next1(s, at), err))
        [] OTHER                   -> Result(ErrorTerm, at, TRUE)

Negated(child) == Result(Inner("not", <<child.node>>), child.at, child.err)

parseUnary(s, at, err) ==
  IF Kind(s, at) = "not" THEN Negated(parseUnary(s, Next1(s, at), err))
  ELSE parsePrimary(s, at, err)

(* The loop of parseAndExpr: node is the parts so far. *)
AndPart(s, parts, part) ==
  IF part.err THEN Result(parts, part.at, TRUE)
  ELSE AndParts(s, Append(parts, part.node), part.at)

AndParts(s, parts, at) ==
  IF Kind(s, at) # "and" THEN Result(parts, at, FALSE)
  ELSE AndPart(s, parts, parseUnary(s, Next1(s, at), FALSE))

AndNode(all) ==
  IF all.err \/ Len(all.node) = 1 THEN Result(all.node[1], all.at, all.err)
  ELSE Result(Inner("and", all.node), all.at, FALSE)

AndFrom(s, first) ==
  IF first.err THEN first ELSE AndNode(AndParts(s, <<first.node>>, first.at))

parseAndExpr(s, at, err) ==
  IF LexErr(s, at) THEN Result(ErrorTerm, at, err) ELSE AndFrom(s, parseUnary(s, at, err))

OrNode(left, right) == Result(Inner("or", <<left, right.node>>), right.at, right.err)

RightToLeft(s, left, at) ==              \* mutant: the right side takes the whole rest
  IF Kind(s, at) # "or" THEN Result(left, at, FALSE)
  ELSE OrNode(left, parseOrExpr(s, Next1(s, at), FALSE))

(* The loop of parseOrExpr. *)
OrPart(s, left, right) ==
  IF right.err THEN Result(left, right.at, TRUE)
  ELSE OrParts(s, Inner("or", <<left, right.node>>), right.at)

OrParts(s, left, at) ==
  IF Kind(s, at) # "or" THEN Result(left, at, FALSE)
  ELSE OrPart(s, left, parseAndExpr(s, Next1(s, at), FALSE))

OrFrom(s, left) == IF left.err THEN left ELSE OrParts(s, left.node, left.at)

parseOrExpr(s, at, err) ==
  IF LexErr(s, at) THEN Result(ErrorTerm, at, err) ELSE OrFrom(s, parseAndExpr(s, at, err))

NoTree == Leaf("none", 0, <<>>)

(* Parse: the tree, or none and an error. *)
Parsed(s) ==
  LET n == parseOrExpr(s, 1, FALSE)
  IN  IF LexErr(s, 1) \/ LexErr(s, n.at) \/ n.err \/ Kind(s, n.at) # "eof"
      THEN NoTree ELSE n.node

-----------------------------------------------------------------------------
ParseInit == line \in Lines /\ tree = NoTree /\ parsePc = "start"

Parse ==
  /\ parsePc = "start"
  /\ tree' = Parsed(line) /\ parsePc' = "done"
  /\ UNCHANGED line

-----------------------------------------------------------------------------
(* The grammar: the trees that a sequence of tokens is derived from.       *)
Kinds(s) == [i \in 1..Len(s) |-> s[i].kind]

(* The part of s before the token at i, and the part behind it. *)
Before(s, i) == SubSeq(s, 1, i - 1)
Behind(s, i) == SubSeq(s, i + 1, Len(s))

AllOf(s, kind) == {i \in 1..Len(s) : s[i].kind = kind}

IsLeafText(s) ==
  /\ s # <<>> /\ s[1].kind \in DOMAIN Expected
  /\ LET kinds == Tail(Kinds(s)) IN
       IF s[1].kind # "msm" THEN kinds = Expected[s[1].kind]
       ELSE /\ IsPrefix(Expected["msm"], kinds) /\ Len(kinds) % 2 = 1 /\ Last(kinds) = ")"
            /\ \A i \in 4..(Len(kinds) - 1) : kinds[i] = IF i % 2 = 0 THEN "ident" ELSE ","

RECURSIVE OrTrees(_), UnaryTrees(_), AndLists(_)

UnaryTrees(s) ==
  IF s = <<>> THEN {}
  ELSE (IF Kinds(s) = <<"ident">> THEN {Leaf("term", 0, <<s[1].lit>>)} ELSE {}) \cup
       (IF IsLeafText(s) THEN {Spelt(s[1].kind, s, 1, Len(s))} ELSE {}) \cup
       (IF s[1].kind = "(" /\ Last(s).kind = ")" /\ Len(s) > 2
        THEN OrTrees(SubSeq(s, 2, Len(s) - 1)) ELSE {}) \cup
       (IF s[1].kind = "not" THEN {Inner("not", <<t>>) : t \in UnaryTrees(Tail(s))} ELSE {})

(* The ways to divide s into one unary expression or several between ANDs. *)
AndLists(s) ==
  {<<t>> : t \in UnaryTrees(s)} \cup
  UNION {{<<t>> \o rest : t \in UnaryTrees(Before(s, i)), rest \in AndLists(Behind(s, i))} :
           i \in AllOf(s, "and")}

AndTrees(s) ==
  {IF Len(list) = 1 THEN list[1] ELSE Inner("and", list) : list \in AndLists(s)}

OrTrees(s) ==
  AndTrees(s) \cup
  UNION {{Inner("or", <<l, r>>) : l \in OrTrees(Before(s, i)), r \in AndTrees(Behind(s, i))} :
           i \in AllOf(s, "or")}

(* The parser accepts exactly the texts of the grammar and returns the one *)
(* tree each of them has; every other text is an error, although errors    *)
(* deep in the recursion are only kept in a field: nothing behind an error *)
(* makes up for it, nothing is left over behind the tree.                  *)
ParsesTheGrammar ==
  parsePc = "done" =>
    OrTrees(line) = IF tree = NoTree THEN {} ELSE {tree}
=============================================================================
