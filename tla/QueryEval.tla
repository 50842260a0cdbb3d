------------------------------ MODULE QueryEval ------------------------------
(***************************************************************************)
(* Evaluation of queries over the index: EvalCtx (eval_ctx.go), the leaf   *)
(* operators of eval.go, and SlowEval (scan.go), the scan of the documents *)
(* that serves as the reference.                                           *)
(*                                                                         *)
(* EvalCtx has three buffers, of which only tmp is ever assigned: the      *)
(* doc numbers of a term are written to tmp, and the slice returned is     *)
(* tmp itself.  So slices are modelled with the arrays they share: heap    *)
(* holds the arrays, a slice is an array and a length.  The recursion is   *)
(* an explicit stack, since calls of eval in the middle of an expression   *)
(* overwrite tmp.                                                          *)
(*                                                                         *)
(* A query tree is as the parser makes it: And has at least two children,  *)
(* MSM at least one term; numbers in the text that overflow an int can be  *)
(* negative.                                                               *)
(***************************************************************************)
EXTENDS InvIndex

CONSTANTS
  Nodes,      \* the nodes of the syntax trees, a branch before what it hangs on
  Queries,    \* the trees that are evaluated
  MaxCalls    \* bound: calls of Eval

(* A tree is named by the number of its root. *)
Trees == 1..Len(Nodes)

Inner == {"not", "and", "or"}

ASSUME NodesAssumption ==
  /\ Len(Nodes) \in Nat
  /\ \A q \in Trees :
       LET n == Nodes[q] IN
         \/ n.op \in {"term", "first", "last"} /\ n.lex \in Terms
         \/ n.op = "near" /\ n.k \in Int /\ n.x \in Terms /\ n.y \in Terms
         \/ n.op = "adj" /\ n.x \in Terms /\ n.y \in Terms
         \/ n.op = "msm" /\ n.w \in Int /\ n.terms \in Seq(Terms)
         \/ n.op = "not" /\ n.kids \in Seq(1..(q - 1)) /\ Len(n.kids) = 1
         \/ n.op = "or" /\ n.kids \in Seq(1..(q - 1)) /\ Len(n.kids) = 2
         \/ n.op = "and" /\ n.kids \in Seq(1..(q - 1)) /\ Len(n.kids) >= 2

ASSUME QueriesAssumption == Queries \subseteq Trees
ASSUME MaxCallsAssumption == MaxCalls \in Nat

VARIABLES
  ram,        \* TRUE: the index is in memory; FALSE: it was saved and mapped
  heap,       \* the arrays, by number
  tmp,        \* c.tmp
  mode,       \* "idle", "eval" (of the top frame) or "return" (ret to it)
  stack,      \* the calls of c.eval, the innermost last
  ret,        \* the slice that was returned last
  call,       \* the call under way: its query (0 before the first) and how it was made
  given       \* history: what the callers were given

evalVars == <<ram, heap, tmp, mode, stack, ret, call, given>>
vars == <<indexVars, evalVars>>

(* The nodes of a tree. *)
Term(lex)       == [op |-> "term", lex |-> lex]
NotOf(c)        == [op |-> "not", kids |-> <<c>>]
AndOf(cs)       == [op |-> "and", kids |-> cs]
OrOf(c, d)      == [op |-> "or", kids |-> <<c, d>>]
Near(k, x, y)   == [op |-> "near", k |-> k, x |-> x, y |-> y]
Adj(x, y)       == [op |-> "adj", x |-> x, y |-> y]
MSM(w, ts)      == [op |-> "msm", w |-> w, terms |-> ts]
EdgeStart(lex)  == [op |-> "first", lex |-> lex]
EdgeEnd(lex)    == [op |-> "last", lex |-> lex]

-----------------------------------------------------------------------------
(* Conditions on one document; the loops behind them are PositionScan and  *)
(* TermWindow.                                                             *)
NearIn(pa, pb, k) ==
  \E x \in ToSet(pa), y \in ToSet(pb) :
    LET d == IF k < 0 THEN 0 ELSE k IN x - y <= d /\ y - x <= d

AdjIn(pa, pb) == \E x \in ToSet(pa), y \in ToSet(pb) : y = x + 1

Count(s, t) == Cardinality({n \in 1..Len(s) : s[n] = t})

WindowIn(tokens, terms, w) ==
  \E m, n \in 1..Len(tokens) :
    /\ m <= n /\ n - m <= w
    /\ \A t \in ToSet(terms) : Count(SubSeq(tokens, m, n), t) >= Count(terms, t)

(* What a leaf says of a document with these tokens.  The switch of        *)
(* slowNearDoc gives an occurrence of both terms to the first.             *)
LeafHolds(tokens, n) ==
  CASE n.op = "term"  -> n.lex \in ToSet(tokens)
    [] n.op = "near"  -> NearIn(Positions(tokens, n.x),
                                IF n.x = n.y THEN <<>> ELSE Positions(tokens, n.y), n.k)
    [] n.op = "adj"   -> \E m \in 1..(Len(tokens) - 1) :
                           tokens[m] = n.x /\ tokens[m + 1] = n.y
    [] n.op = "msm"   -> WindowIn(tokens, n.terms, n.w)
    [] n.op = "first" -> tokens # <<>> /\ tokens[1] = n.lex
    [] n.op = "last"  -> tokens # <<>> /\ tokens[Len(tokens)] = n.lex

(* slowEvalDoc: does a document with these tokens satisfy the query?       *)
Holds(tokens, q) ==
  LET holds[x \in Trees] ==
        LET n == Nodes[x] IN
        CASE n.op = "not" -> ~holds[n.kids[1]]
          [] n.op = "and" -> \A m \in 1..Len(n.kids) : holds[n.kids[m]]
          [] n.op = "or"  -> holds[n.kids[1]] \/ holds[n.kids[2]]
          [] OTHER        -> LeafHolds(tokens, n)
  IN holds[q]

(* SlowEval over the first n documents, with their full texts. *)
SlowEval(n, q) == InOrder({d \in 0..(n - 1) : Holds(texts[d + 1], q)})

-----------------------------------------------------------------------------
(* Slices and arrays. *)
Nil == [arr |-> 0, len |-> 0]

Cells(h, s) == IF s.arr = 0 THEN <<>> ELSE SubSeq(h[s.arr], 1, s.len)

(* append to a nil slice: a new array, or nil if there is nothing to add. *)
Fresh(h, vals) ==
  IF vals = <<>> THEN [heap |-> h, slice |-> Nil]
  ELSE [heap  |-> Append(h, vals),
        slice |-> [arr |-> Len(h) + 1, len |-> Len(vals)]]

Overwritten(cells, vals) == vals \o SubSeq(cells, Len(vals) + 1, Len(cells))

(* append(dst[:0], vals...): into the array of dst if it is long enough. *)
CopyTo(h, dst, vals) ==
  IF dst.arr = 0 \/ Len(vals) > Len(h[dst.arr]) THEN Fresh(h, vals)
  ELSE [heap  |-> [h EXCEPT ![dst.arr] = Overwritten(@, vals)],
        slice |-> [arr |-> dst.arr, len |-> Len(vals)]]

-----------------------------------------------------------------------------
(* The leaves that make a slice of their own. *)
DocsOf(t) == [n \in 1..Len(postings[t]) |-> postings[t][n].doc]

PossOf(t, d) == LET n == CHOOSE m \in 1..Len(postings[t]) : postings[t][m].doc = d
                IN postings[t][n].poss

DocsWithBoth(x, y) == ToSet(DocsOf(x)) \cap ToSet(DocsOf(y))

EvalNear(k, x, y) ==
  InOrder({d \in DocsWithBoth(x, y) : NearIn(PossOf(x, d), PossOf(y, d), k)})

EvalAdj(x, y) ==
  InOrder({d \in DocsWithBoth(x, y) : AdjIn(PossOf(x, d), PossOf(y, d))})

(* Without the texts, in a mapped index, MSM finds nothing. *)
EvalMSM(w, ts) ==
  IF ~ram THEN <<>>
  ELSE InOrder({d \in 0..(Len(docs) - 1) :
                    /\ \A t \in ToSet(ts) : d \in ToSet(DocsOf(t))
                    /\ WindowIn(docs[d + 1].tokens, ts, IF w < 0 THEN 0 ELSE w)})

EvalEdgeStart(t) ==
  InOrder({d \in ToSet(DocsOf(t)) : PossOf(t, d) # <<>> /\ PossOf(t, d)[1] = 0})

EvalEdgeEnd(t) ==
  InOrder({d \in ToSet(DocsOf(t)) :
             DocLen(d) > 0 /\ DocLen(d) - 1 \in ToSet(PossOf(t, d))})

LeafDocs(q) ==
  CASE q.op = "near"  -> EvalNear(q.k, q.x, q.y)
    [] q.op = "adj"   -> EvalAdj(q.x, q.y)
    [] q.op = "msm"   -> EvalMSM(q.w, q.terms)
    [] q.op = "first" -> EvalEdgeStart(q.lex)
    [] q.op = "last"  -> EvalEdgeEnd(q.lex)

-----------------------------------------------------------------------------
Init ==
  /\ IndexInit
  /\ ram = TRUE
  /\ heap = <<>> /\ tmp = Nil
  /\ mode = "idle" /\ stack = <<>> /\ ret = Nil
  /\ call = [q |-> 0, warn |-> FALSE]
  /\ given = <<>>

(* A frame: its node, how many children were evaluated, the result of them *)
(* so far, and tmp as it was when the call of the next child was prepared. *)
Frame(q) == [node |-> q, done |-> 0, acc |-> Nil, dst |-> Nil]

Top == stack[Len(stack)]
Here == Nodes[Top.node]
Below == SubSeq(stack, 1, Len(stack) - 1)

AddTo == /\ mode = "idle" /\ ram
         /\ \E tokens \in Texts, keep \in BOOLEAN : AddDoc(tokens, keep)
         /\ UNCHANGED evalVars

(* SaveCompressed and OpenMMapIndex: the postings survive, the texts are   *)
(* not in the file.                                                        *)
SaveAndMap ==
  /\ mode = "idle" /\ ram
  /\ ram' = FALSE
  /\ docs' = [n \in 1..Len(docs) |-> [tokens |-> <<>>, ntok |-> DocLen(n - 1)]]
  /\ UNCHANGED <<postings, scratch, keys, allIDs, texts,
                 heap, tmp, mode, stack, ret, call, given>>

MSMOutsideNot(q) ==                              \* mutant: no look below Not
  LET contains[x \in Trees] ==
        LET n == Nodes[x] IN
        \/ n.op = "msm"
        \/ n.op \in {"and", "or"} /\ \E m \in 1..Len(n.kids) : contains[n.kids[m]]
  IN contains[q]

ContainsMSM(q) ==
  LET contains[x \in Trees] ==
        LET n == Nodes[x] IN
        \/ n.op = "msm"
        \/ n.op \in Inner /\ \E m \in 1..Len(n.kids) : contains[n.kids[m]]
  IN contains[q]

(* A caller evaluates a query, with the context of the last call or a new  *)
(* one.  SearchBoolMMapWarnMSM turns queries with MSM away.                *)
Invoke(q, warn) ==
  /\ mode = "idle" /\ Len(given) < MaxCalls
  /\ warn => ~ram /\ ~ContainsMSM(q)
  /\ call' = [q |-> q, warn |-> warn]
  /\ stack' = <<Frame(q)>> /\ mode' = "eval"
  /\ tmp' \in {tmp, Nil}
  /\ UNCHANGED <<indexVars, ram, heap, ret, given>>

(* The documents of a term are written to tmp, which grows while they are  *)
(* appended if it is too short; the old array is full by then.             *)
EvalTerm ==
  /\ mode = "eval" /\ Here.op = "term"
  /\ LET ids == DocsOf(Here.lex)
         cap == IF tmp.arr = 0 THEN 0 ELSE Len(heap[tmp.arr])
     IN \/ /\ ids = <<>>
           /\ ret' = Nil
           /\ UNCHANGED <<heap, tmp>>
        \/ /\ ids # <<>> /\ Len(ids) <= cap
           /\ heap' = [heap EXCEPT ![tmp.arr] = Overwritten(@, ids)]
           /\ tmp' = [tmp EXCEPT !.len = Len(ids)]
           /\ ret' = tmp'
        \/ /\ Len(ids) > cap
           /\ \E spare \in {<<>>, <<0>>} :
                heap' = Append(IF cap = 0 THEN heap
                               ELSE [heap EXCEPT ![tmp.arr] = SubSeq(ids, 1, cap)],
                               ids \o spare)
           /\ tmp' = [arr |-> Len(heap) + 1, len |-> Len(ids)]
           /\ ret' = tmp'
  /\ stack' = Below /\ mode' = "return"
  /\ UNCHANGED <<indexVars, ram, call, given>>

EvalLeaf ==
  /\ mode = "eval" /\ Here.op \notin Inner \cup {"term"}
  /\ LET res == Fresh(heap, LeafDocs(Here)) IN heap' = res.heap /\ ret' = res.slice
  /\ stack' = Below /\ mode' = "return"
  /\ UNCHANGED <<indexVars, ram, tmp, call, given>>

(* An inner node calls eval for its first child; Not has copied the        *)
(* numbers of all documents before.                                        *)
Descend ==
  /\ mode = "eval" /\ Here.op \in Inner
  /\ LET not == Here.op = "not"
         all == Fresh(heap, IF not THEN AllDocIDs ELSE <<>>)
         here == [Top EXCEPT !.acc = all.slice, !.dst = tmp]
     IN /\ heap' = all.heap
        /\ stack' = Append(Append(Below, here), Frame(Here.kids[1]))
        /\ allIDs' = IF not /\ ram THEN AllDocIDs ELSE allIDs
  /\ UNCHANGED <<docs, postings, scratch, keys, texts, ram, tmp, mode, ret, call, given>>

Returning(op, n) ==
  /\ mode = "return" /\ stack # <<>>
  /\ Here.op = op /\ Top.done = n

(* Go does not say whether c.tmp in append(c.tmp[:0], c.eval(x)...) is     *)
(* read before the call or after it.                                       *)
Targets == {Top.dst, tmp}

FinishInTmp(h, vals) ==                          \* mutant: the result goes to tmp
  /\ LET res == CopyTo(h, tmp, vals) IN heap' = res.heap /\ ret' = res.slice
  /\ stack' = Below
  /\ UNCHANGED <<indexVars, ram, tmp, mode, call, given>>

Finish(h, vals) ==
  /\ LET res == Fresh(h, vals) IN heap' = res.heap /\ ret' = res.slice
  /\ stack' = Below
  /\ UNCHANGED <<indexVars, ram, tmp, mode, call, given>>

(* all minus child. *)
ResumeNot ==
  /\ Returning("not", 0)
  /\ \E dst \in Targets :
       LET child == CopyTo(heap, dst, Cells(heap, ret)) IN
         Finish(child.heap, InOrder(ToSet(Cells(child.heap, Top.acc)) \
                                      ToSet(Cells(child.heap, child.slice))))

KeepFirst ==                                     \* mutant: the copy is left out
  /\ Returning("and", 0) \/ Returning("or", 0)
  /\ LET here == [Top EXCEPT !.acc = ret, !.done = 1, !.dst = tmp]
     IN stack' = Append(Append(Below, here), Frame(Here.kids[2]))
  /\ mode' = "eval"
  /\ UNCHANGED <<indexVars, ram, heap, tmp, ret, call, given>>

(* The first of several children is copied to an array of its own, then    *)
(* the second is evaluated.                                                *)
ResumeFirst ==
  /\ Returning("and", 0) \/ Returning("or", 0)
  /\ LET acc == Fresh(heap, Cells(heap, ret))
         here == [Top EXCEPT !.acc = acc.slice, !.done = 1, !.dst = tmp]
     IN /\ heap' = acc.heap
        /\ stack' = Append(Append(Below, here), Frame(Here.kids[2]))
  /\ mode' = "eval"
  /\ UNCHANGED <<indexVars, ram, tmp, ret, call, given>>

ResumeOr ==
  /\ Returning("or", 1)
  /\ \E dst \in Targets :
       LET right == CopyTo(heap, dst, Cells(heap, ret)) IN
         Finish(right.heap, InOrder(ToSet(Cells(right.heap, Top.acc)) \cup
                                      ToSet(Cells(right.heap, right.slice))))

(* A later child of And: the intersection is the result if it is empty or  *)
(* the child was the last one.                                             *)
ResumeAnd ==
  /\ mode = "return" /\ stack # <<>>
  /\ Here.op = "and" /\ Top.done > 0
  /\ \E dst \in Targets :
       LET right == CopyTo(heap, dst, Cells(heap, ret))
           both  == InOrder(ToSet(Cells(right.heap, Top.acc)) \cap
                              ToSet(Cells(right.heap, right.slice)))
           acc   == Fresh(right.heap, both)
           next  == Top.done + 2
       IN IF both = <<>> \/ next > Len(Here.kids)
          THEN Finish(right.heap, both)
          ELSE /\ heap' = acc.heap
               /\ stack' = Append(Append(Below,
                             [Top EXCEPT !.acc = acc.slice, !.done = @ + 1, !.dst = tmp]),
                             Frame(Here.kids[next]))
               /\ mode' = "eval"
               /\ UNCHANGED <<indexVars, ram, tmp, ret, call, given>>

(* The caller gets the slice. *)
Return ==
  /\ mode = "return" /\ stack = <<>>
  /\ given' = Append(given,
       [q |-> call.q, warn |-> call.warn, slice |-> ret, ids |-> Cells(heap, ret),
        n |-> Len(docs),
        whole |-> ram /\ \A n \in 1..Len(docs) : docs[n].tokens = texts[n]])
  /\ mode' = "idle"
  /\ UNCHANGED <<indexVars, ram, heap, tmp, stack, ret, call>>

(* The caller has no more queries. *)
Rest == mode = "idle" /\ Len(given) = MaxCalls /\ UNCHANGED vars

Next ==
  \/ AddTo \/ SaveAndMap
  \/ \E q \in Queries, warn \in BOOLEAN : Invoke(q, warn)
  \/ EvalTerm \/ EvalLeaf \/ Descend
  \/ ResumeNot \/ ResumeFirst \/ ResumeOr \/ ResumeAnd
  \/ Return \/ Rest

Spec == Init /\ [][Next]_vars

-----------------------------------------------------------------------------
(* The text of a document can be needed to answer the query. *)
NeedsTexts(q) ==
  LET needs[x \in Trees] ==
        LET n == Nodes[x] IN
        CASE n.op = "not"           -> needs[n.kids[1]]
          [] n.op \in {"and", "or"} -> \E m \in 1..Len(n.kids) : needs[n.kids[m]]
          [] OTHER                  -> n.op = "msm"
  IN needs[q]

(* The leaves that Eval and SlowEval take differently: NEAR of a term and  *)
(* itself, and MSM of a negative width.                                    *)
Disputed(q) ==
  LET disputed[x \in Trees] ==
        LET n == Nodes[x] IN
        CASE n.op \in Inner -> \E m \in 1..Len(n.kids) : disputed[n.kids[m]]
          [] n.op = "near"  -> n.x = n.y
          [] n.op = "msm"   -> n.w < 0
          [] OTHER          -> FALSE
  IN disputed[q]

(* Eval gives what a scan of the texts gives, for every query without a    *)
(* disputed leaf, over an index in memory or a mapped one, though all      *)
(* branches of the tree are evaluated into one buffer and the index grows  *)
(* between calls.  MSM needs the texts of all documents.                   *)
EvalIsScan ==
  \A m \in 1..Len(given) :
    LET g == given[m] IN
      ~Disputed(g.q) /\ (NeedsTexts(g.q) => g.whole) =>
        g.ids = SlowEval(g.n, g.q)

(* The entry point that turns away queries a mapped index cannot answer    *)
(* turns all of them away.                                                 *)
WarnedAnswersExact ==
  \A m \in 1..Len(given) :
    LET g == given[m] IN
      g.warn /\ ~Disputed(g.q) => g.ids = SlowEval(g.n, g.q)

(* Later calls with the same EvalCtx leave the answers of earlier ones     *)
(* alone.  The answer to a single term is c.tmp itself and not covered.    *)
AnswersStay ==
  \A m \in 1..Len(given) :
    Nodes[given[m].q].op # "term" => Cells(heap, given[m].slice) = given[m].ids

(* scan.go:3 calls SlowEval the reference for verification: no query is    *)
(* left out.                                                               *)
EvalIsAlwaysScan ==
  \A m \in 1..Len(given) :
    LET g == given[m] IN
      (NeedsTexts(g.q) => g.whole) => g.ids = SlowEval(g.n, g.q)
=============================================================================
