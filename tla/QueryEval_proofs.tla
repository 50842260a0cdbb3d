--------------------------- MODULE QueryEval_proofs ---------------------------
(***************************************************************************)
(* Proofs about the index and the evaluation of queries over it, for any   *)
(* terms, texts and trees.                                                 *)
(*                                                                         *)
(* IndexInv says what the index holds of the texts that were added.        *)
(* CallsInv is about the calls under way: StackInv (which call waits for   *)
(* which branch), HeapInv (slices lie within their arrays), AliasInv       *)
(* (which arrays may still be overwritten, and that nothing of value is in *)
(* them) and ContentInv (what the slices hold).  The answers given so far  *)
(* are GivenInv, AnswersStay, WarnInv and EvalIsScan; MainInv is all of    *)
(* these together.                                                         *)
(***************************************************************************)
EXTENDS QueryEval, NumberSets_proofs, TLAPS

\* The documents, and those a query is true of.
Numbers == 0..(Len(texts) - 1)
Having(t) == {d \in Numbers : t \in ToSet(texts[d + 1])}
Sat(q) == {d \in Numbers : Holds(texts[d + 1], q)}

\* The posting list of t that the texts call for.
PostingsOf(t) ==
  LET having == InOrder(Having(t))
  IN [m \in 1..Len(having) |->
        [doc |-> having[m], poss |-> Positions(texts[having[m] + 1], t)]]

Documents == [tokens : Seq(Terms), ntok : Nat]

IndexInv ==
  /\ texts \in Seq(Texts)
  /\ docs \in Seq(Documents) /\ Len(docs) = Len(texts)
  /\ \A d \in Numbers : DocLen(d) = Len(texts[d + 1])
  /\ keys \subseteq Terms
  /\ scratch \in [Terms -> Seq(Int)]
  /\ \A t \in Terms \ keys : scratch[t] = <<>>
  /\ Len(allIDs) \in Nat /\ allIDs = [n \in 1..Len(allIDs) |-> n - 1]
  /\ postings = [t \in Terms |-> PostingsOf(t)]

-----------------------------------------------------------------------------
Slices == [arr : Nat, len : Nat]
Frames == [node : Trees, done : Nat, acc : Slices, dst : Slices]

\* A slice lies within its array; only nil slices have none.
IsSlice(h, s) ==
  /\ s \in Slices
  /\ s.arr <= Len(h)
  /\ s.arr = 0 => s.len = 0
  /\ s.arr # 0 => s.len <= Len(h[s.arr])

\* The branch that the call of frame f waits for, and the tree whose value
\* the n-th call computes.
Child(f) == Nodes[f.node].kids[f.done + 1]
Wanted(n) == IF n = 1 THEN call.q ELSE Child(stack[n - 1])
Returned == Wanted(Len(stack) + 1)

Waiting(f) ==
  /\ Nodes[f.node].op \in Inner
  /\ f.done \in 0..(Len(Nodes[f.node].kids) - 1)

Callers == IF mode = "eval" THEN 1..(Len(stack) - 1) ELSE 1..Len(stack)

StackInv ==
  /\ mode \in {"idle", "eval", "return"}
  /\ stack \in Seq(Frames)
  /\ mode = "idle" => stack = <<>>
  /\ mode = "eval" => stack # <<>> /\ Top = Frame(Top.node)
  /\ mode # "idle" => call.q \in Trees
  /\ \A n \in Callers : Waiting(stack[n])
  /\ \A n \in 1..Len(stack) : stack[n].node = Wanted(n)

\* The arrays that may still be written to; what must stay is in others.
Overwritable == {tmp.arr} \cup {stack[n].dst.arr : n \in 1..Len(stack)}
Kept(s) == s.arr = 0 \/ s.arr \notin Overwritable

HeapInv ==
  /\ heap \in Seq(Seq(Int))
  /\ IsSlice(heap, tmp) /\ IsSlice(heap, ret)
  /\ \A n \in 1..Len(stack) : IsSlice(heap, stack[n].acc) /\ IsSlice(heap, stack[n].dst)

AliasInv ==
  /\ \A n \in 1..Len(stack) : Kept(stack[n].acc)
  /\ mode = "return" /\ Nodes[Returned].op # "term" => Kept(ret)

Answers ==
  [q : Trees, warn : BOOLEAN, slice : Slices, ids : Seq(Int), n : Nat, whole : BOOLEAN]

GivenInv ==
  /\ given \in Seq(Answers)
  /\ \A m \in 1..Len(given) :
       /\ given[m].n <= Len(texts)
       /\ IsSlice(heap, given[m].slice)
       /\ Nodes[given[m].q].op # "term" => Kept(given[m].slice)

-----------------------------------------------------------------------------
\* The index has all texts.
Whole == ram /\ \A n \in 1..Len(docs) : docs[n].tokens = texts[n]

Exact(q) == ~Disputed(q) /\ (NeedsTexts(q) => Whole)

\* The documents that the branches evaluated so far leave to a call.
SoFar(f) ==
  IF Nodes[f.node].op = "not" THEN Numbers
  ELSE {d \in Numbers : \A m \in 1..f.done : Holds(texts[d + 1], Nodes[f.node].kids[m])}

ContentInv ==
  /\ \A n \in Callers :
       Exact(stack[n].node) /\ (Nodes[stack[n].node].op # "not" => stack[n].done > 0) =>
         Cells(heap, stack[n].acc) = InOrder(SoFar(stack[n]))
  /\ mode = "return" /\ Exact(Returned) => Cells(heap, ret) = InOrder(Sat(Returned))

CallsInv == StackInv /\ HeapInv /\ AliasInv /\ ContentInv

WarnInv ==
  /\ mode # "idle" /\ call.warn => ~ContainsMSM(call.q)
  /\ call.warn \in BOOLEAN
  /\ \A m \in 1..Len(given) : given[m].warn => ~ContainsMSM(given[m].q)

-----------------------------------------------------------------------------
(* The index.                                                              *)

\* Positions of a term in a text, as a set and in order.
At(tokens, t) == {p \in 0..(Len(tokens) - 1) : tokens[p + 1] = t}

LEMMA PositionsFacts ==
  ASSUME NEW tokens \in Seq(Terms), NEW t
  PROVE  /\ At(tokens, t) \in SUBSET Int /\ IsFiniteSet(At(tokens, t))
         /\ Positions(tokens, t) = InOrder(At(tokens, t))
         /\ Positions(tokens, t) \in Seq(Int) /\ Ascends(Positions(tokens, t))
         /\ ToSet(Positions(tokens, t)) = At(tokens, t)
         /\ Positions(tokens, t) = <<>> <=> t \notin ToSet(tokens)
<1> DEFINE S == At(tokens, t)
<1>1. S \in SUBSET Int /\ S \in SUBSET (0..(Len(tokens) - 1))
  BY DEF At
<1>2. IsFiniteSet(S)
  <2>1. 0 \in Int /\ Len(tokens) - 1 \in Int
    OBVIOUS
  <2> QED BY <1>1, <2>1, FS_Interval, FS_Subset
<1>3. Positions(tokens, t) = InOrder(S)
  BY DEF Positions, At
<1> HIDE DEF S
<1>4. /\ InOrder(S) \in Seq(S) /\ Len(InOrder(S)) = Cardinality(S) /\ Ascends(InOrder(S))
      /\ {InOrder(S)[m] : m \in 1..Len(InOrder(S))} = S
  BY <1>1, <1>2, InOrderAscends
<1>5. InOrder(S) \in Seq(Int)
  BY <1>1, <1>4, SeqMonotonic
<1>6. ToSet(InOrder(S)) = S
  BY <1>4 DEF ToSet
<1>7. InOrder(S) = <<>> <=> S = {}
  BY <1>4
<1>8. S = {} <=> t \notin ToSet(tokens)
  <2>1. ASSUME NEW p \in S PROVE t \in ToSet(tokens)
    BY <2>1 DEF S, At, ToSet
  <2>2. ASSUME NEW n \in 1..Len(tokens), tokens[n] = t PROVE n - 1 \in S
    BY <2>2 DEF S, At
  <2> QED BY <2>1, <2>2 DEF ToSet
<1> QED BY <1>1, <1>2, <1>3, <1>4, <1>5, <1>6, <1>7, <1>8 DEF S

\* Sorting leaves an ascending sequence as it is.
LEMMA SortedStays ==
  ASSUME NEW s \in Seq(Int), Ascends(s)
  PROVE  Sort(s) = s
<1> DEFINE D == 1..Len(s)
           Sorts(p) == \A m, n \in D : m < n => s[p[m]] <= s[p[n]]
           order == CHOOSE p \in Bijection(D, D) : Sorts(p)
<1>1. DOMAIN s = D /\ \A n \in D : s[n] \in Int
  OBVIOUS
<1>2. Len(s) \in Nat /\ s = [n \in D |-> s[n]]
  OBVIOUS
<1>3. [n \in D |-> n] \in Bijection(D, D)
  BY DEF Bijection, Injection, Surjection, IsInjective
<1>4. \A m, n \in D : m < n => s[m] < s[n]
  BY DEF Ascends
<1>5. Sorts([n \in D |-> n])
  BY <1>1, <1>4
<1> HIDE DEF Sorts
<1>6. order \in Bijection(D, D) /\ Sorts(order)
  BY <1>3, <1>5
<1>7. Sort(s) = [n \in D |-> s[order[n]]]
  BY <1>1 DEF Sort, Sorts
<1> HIDE DEF order
<1>8. /\ order \in [D -> D]
      /\ \A m, n \in D : order[m] = order[n] => m = n
      /\ \A n \in D : \E m \in D : order[m] = n
  BY <1>6 DEF Bijection, Injection, Surjection, IsInjective
<1> DEFINE r == [n \in D |-> s[order[n]]]
<1>9. r \in Seq(Int) /\ Len(r) = Len(s)
  <2>1. r \in [D -> Int]
    BY <1>1, <1>8
  <2> QED BY <1>2, <2>1
<1>10. Ascends(r)
  <2> SUFFICES ASSUME NEW m \in D, NEW n \in D, m < n PROVE s[order[m]] < s[order[n]]
    BY <1>9 DEF Ascends
  <2>1. order[m] \in D /\ order[n] \in D /\ order[m] # order[n]
    <3>1. m # n
      BY <1>2
    <3> HIDE DEF D
    <3> QED BY <1>8, <3>1
  <2>2. s[order[m]] <= s[order[n]]
    BY <1>6 DEF Sorts
  <2>3. s[order[m]] # s[order[n]]
    <3>1. order[m] < order[n] \/ order[n] < order[m]
      BY <2>1
    <3> QED BY <1>1, <1>4, <2>1, <3>1
  <2> QED BY <1>1, <2>1, <2>2, <2>3
<1>11. {r[n] : n \in 1..Len(r)} = {s[n] : n \in 1..Len(s)}
  <2>1. \A n \in D : r[n] = s[order[n]]
    OBVIOUS
  <2> HIDE DEF r
  <2>2. \A n \in D : \E m \in D : r[n] = s[m]
    BY <1>8, <2>1
  <2>3. ASSUME NEW m \in D PROVE \E n \in D : r[n] = s[m]
    <3>1. PICK n \in D : order[n] = m
      BY <1>8
    <3> QED BY <2>1, <3>1
  <2>4. {r[n] : n \in D} = {s[m] : m \in D}
    <3>1. ASSUME NEW n \in D PROVE r[n] \in {s[m] : m \in D}
      BY <2>2
    <3>2. ASSUME NEW m \in D PROVE s[m] \in {r[n] : n \in D}
      <4>1. PICK n \in D : r[n] = s[m]
        BY <2>3
      <4> QED BY <4>1
    <3> HIDE DEF D
    <3> QED BY <3>1, <3>2
  <2>5. Len(r) = Len(s)
    BY <1>9 DEF r
  <2> QED BY <2>4, <2>5
<1>12. r = s
  <2> HIDE DEF r
  <2> QED BY <1>9, <1>10, <1>11, InOrderUnique
<1> QED BY <1>7, <1>12

LEMMA HavingFacts ==
  ASSUME IndexInv, NEW t \in Terms
  PROVE  /\ Len(texts) \in Nat /\ \A d \in Numbers : texts[d + 1] \in Seq(Terms)
         /\ Having(t) \in SUBSET Int /\ IsFiniteSet(Having(t))
         /\ InOrder(Having(t)) \in Seq(Having(t)) /\ Ascends(InOrder(Having(t)))
         /\ {InOrder(Having(t))[m] : m \in 1..Len(InOrder(Having(t)))} = Having(t)
<1>1. Len(texts) \in Nat /\ \A d \in Numbers : d \in Int /\ texts[d + 1] \in Texts
  BY DEF IndexInv, Numbers
<1>2. Having(t) \in SUBSET Int /\ Having(t) \in SUBSET Numbers
  BY <1>1 DEF Having
<1>3. IsFiniteSet(Numbers)
  <2>1. 0 \in Int /\ Len(texts) - 1 \in Int
    BY <1>1
  <2> QED BY <2>1, FS_Interval DEF Numbers
<1>4. IsFiniteSet(Having(t))
  BY <1>2, <1>3, FS_Subset
<1> QED BY <1>1, <1>2, <1>4, InOrderAscends, TextsAssumption

\* Another text at the end: the documents that have t are the old ones, and
\* the new one if it has t.
LEMMA HavingGrows ==
  ASSUME IndexInv, NEW tokens \in Texts, texts' = Append(texts, tokens), NEW t \in Terms
  PROVE  Having(t)' = IF t \in ToSet(tokens) THEN Having(t) \cup {Len(texts)} ELSE Having(t)
<1>1. /\ Len(texts) \in Nat /\ Len(texts') = Len(texts) + 1
      /\ \A d \in 0..(Len(texts) - 1) : texts'[d + 1] = texts[d + 1]
      /\ texts'[Len(texts) + 1] = tokens
  BY DEF IndexInv
<1>2. \A d : d \in Numbers' <=> d \in Numbers \/ d = Len(texts)
  BY <1>1 DEF Numbers
<1>3. \A d \in Numbers : texts'[d + 1] = texts[d + 1] /\ d # Len(texts)
  BY <1>1 DEF Numbers
<1> QED BY <1>1, <1>2, <1>3 DEF Having

\* The posting list of a term grows by the new document if it has the term.
LEMMA PostingsGrow ==
  ASSUME IndexInv, NEW tokens \in Texts, texts' = Append(texts, tokens), NEW t \in Terms
  PROVE  PostingsOf(t)' =
           IF t \in ToSet(tokens)
           THEN Append(PostingsOf(t), [doc |-> Len(texts), poss |-> Positions(tokens, t)])
           ELSE PostingsOf(t)
<1> DEFINE old == InOrder(Having(t))
           new == InOrder(Having(t)')
           item(h, T, m) == [doc |-> h[m], poss |-> Positions(T[h[m] + 1], t)]
<1>1. /\ Len(texts) \in Nat
      /\ \A d \in 0..(Len(texts) - 1) : texts'[d + 1] = texts[d + 1]
      /\ texts'[Len(texts) + 1] = tokens
  BY DEF IndexInv
<1>2. old \in Seq(Having(t)) /\ \A m \in 1..Len(old) : old[m] \in Having(t)
  BY HavingFacts
<1>3. \A m \in 1..Len(old) : texts'[old[m] + 1] = texts[old[m] + 1]
  BY <1>1, <1>2 DEF Having, Numbers
<1>4. /\ PostingsOf(t) = [m \in 1..Len(old) |-> item(old, texts, m)]
      /\ PostingsOf(t)' = [m \in 1..Len(new) |-> item(new, texts', m)]
  BY DEF PostingsOf
<1>5. CASE t \notin ToSet(tokens)
  <2>1. new = old
    BY <1>5, HavingGrows
  <2> HIDE DEF old, new
  <2> QED BY <1>3, <1>4, <1>5, <2>1
<1>6. CASE t \in ToSet(tokens)
  <2>1. Having(t)' = Having(t) \cup {Len(texts)}
    BY <1>6, HavingGrows
  <2>2. \A d \in Having(t) : d < Len(texts)
    BY <1>1 DEF Having, Numbers
  <2>3. new = Append(old, Len(texts))
    <3>1. Having(t) \in SUBSET Int /\ IsFiniteSet(Having(t)) /\ Len(texts) \in Int
      BY <1>1, HavingFacts
    <3> QED BY <2>1, <2>2, <3>1, GreatestLast
  <2> HIDE DEF old, new
  <2>4. /\ Len(new) = Len(old) + 1 /\ Len(old) \in Nat
        /\ \A m \in 1..Len(old) : new[m] = old[m]
        /\ new[Len(old) + 1] = Len(texts)
    BY <1>2, <2>3
  <2>5. \A m \in 1..Len(old) : item(new, texts', m) = item(old, texts, m)
    BY <1>3, <2>4
  <2>6. item(new, texts', Len(old) + 1) = [doc |-> Len(texts), poss |-> Positions(tokens, t)]
    BY <1>1, <2>4
  <2> DEFINE p == PostingsOf(t)
             x == [doc |-> Len(texts), poss |-> Positions(tokens, t)]
  <2> HIDE DEF item, x
  <2>7. PostingsOf(t)' = [m \in 1..(Len(old) + 1) |-> IF m = Len(old) + 1 THEN x ELSE p[m]]
    <3>1. \A m \in 1..Len(old) : p[m] = item(old, texts, m)
      BY <1>4
    <3>2. \A m \in 1..(Len(old) + 1) : m # Len(old) + 1 => m \in 1..Len(old)
      BY <2>4
    <3>3. item(new, texts', Len(old) + 1) = x
      BY <2>6 DEF item, x
    <3> HIDE DEF p
    <3> QED BY <1>4, <2>4, <2>5, <3>1, <3>2, <3>3
  <2>8. DOMAIN p = 1..Len(old)
    BY <1>4
  <2>9. Len(p) = Len(old) /\ Append(p, x) = [m \in 1..(Len(old) + 1) |-> IF m = Len(old) + 1 THEN x ELSE p[m]]
    <3>1. p \in Seq({p[m] : m \in 1..Len(old)}) /\ Len(p) = Len(old)
      <4> HIDE DEF p
      <4>1. p \in [1..Len(old) -> {p[m] : m \in 1..Len(old)}]
        <5>1. p = [m \in 1..Len(old) |-> p[m]]
          BY <1>4 DEF p
        <5> QED BY <5>1
      <4> QED BY <2>4, <4>1
    <3> HIDE DEF p
    <3>2. p \in Seq({p[m] : m \in 1..Len(old)} \cup {x})
      BY <3>1, SeqMonotonic
    <3>3. Append(p, x) \in Seq({p[m] : m \in 1..Len(old)} \cup {x})
      BY <3>2
    <3>4. Len(Append(p, x)) = Len(old) + 1
      BY <3>1
    <3>5. \A m \in 1..(Len(old) + 1) : Append(p, x)[m] = IF m = Len(old) + 1 THEN x ELSE p[m]
      BY <3>1, <2>4
    <3>6. Append(p, x) = [m \in 1..(Len(old) + 1) |-> Append(p, x)[m]]
      <4> DEFINE a == Append(p, x)
      <4> HIDE DEF a
      <4>1. a \in Seq({p[m] : m \in 1..Len(old)} \cup {x}) /\ Len(a) = Len(old) + 1
        BY <3>3, <3>4 DEF a
      <4>2. a = [m \in 1..Len(a) |-> a[m]]
        BY <4>1
      <4> QED BY <4>1, <4>2 DEF a
    <3> QED BY <3>1, <3>5, <3>6
  <2> QED BY <1>6, <2>7, <2>9 DEF x
<1> QED BY <1>5, <1>6

LEMMA AddDocKeepsIndex ==
  ASSUME IndexInv, NEW tokens \in Texts, NEW keep \in BOOLEAN, AddDoc(tokens, keep)
  PROVE  IndexInv'
<1> DEFINE filled == [t \in Terms |-> Cleared[t] \o Positions(tokens, t)]
           now == {t \in ToSet(tokens) : Cleared[t] = <<>>}
<1>1. tokens \in Seq(Terms)
  BY TextsAssumption
<1>2. \A t \in Terms : Cleared[t] = <<>>
  BY DEF Cleared, IndexInv
<1>3. ToSet(tokens) \subseteq Terms /\ now = ToSet(tokens)
  BY <1>1, <1>2 DEF ToSet
<1>4. \A t \in Terms : filled[t] = Positions(tokens, t) /\ Positions(tokens, t) \in Seq(Int)
  <2> SUFFICES ASSUME NEW t \in Terms
               PROVE  filled[t] = Positions(tokens, t) /\ Positions(tokens, t) \in Seq(Int)
    OBVIOUS
  <2>1. Positions(tokens, t) \in Seq(Int)
    BY <1>1, PositionsFacts
  <2>2. <<>> \o Positions(tokens, t) = Positions(tokens, t)
    BY <2>1
  <2> QED BY <1>2, <2>1, <2>2
<1>5. \A t \in Terms : Sort(filled[t]) = Positions(tokens, t)
  BY <1>1, <1>4, PositionsFacts, SortedStays
<1> HIDE DEF filled
<1>6. /\ docs' = Append(docs, [tokens |-> IF keep THEN tokens ELSE <<>>, ntok |-> Len(tokens)])
      /\ keys' = ToSet(tokens)
      /\ scratch' = [t \in Terms |-> IF t \in ToSet(tokens) THEN Sort(filled[t]) ELSE filled[t]]
      /\ postings' =
           [t \in Terms |->
              IF t \in ToSet(tokens)
              THEN Append(postings[t], [doc |-> Len(docs), poss |-> Sort(filled[t])])
              ELSE postings[t]]
      /\ texts' = Append(texts, tokens)
      /\ allIDs' = allIDs
  BY <1>3 DEF AddDoc, filled
<1>7. texts' \in Seq(Texts) /\ Len(texts') = Len(texts) + 1 /\ Len(texts) \in Nat
  BY <1>6 DEF IndexInv
<1> DEFINE new == [tokens |-> IF keep THEN tokens ELSE <<>>, ntok |-> Len(tokens)]
<1>8. new \in Documents
  BY <1>1 DEF Documents
<1> HIDE DEF new
<1>9. docs' \in Seq(Documents) /\ Len(docs') = Len(texts')
  BY <1>6, <1>7, <1>8 DEF IndexInv, new
<1>10. \A d \in Numbers' : DocLen(d)' = Len(texts'[d + 1])
  <2> SUFFICES ASSUME NEW d \in Numbers' PROVE DocLen(d)' = Len(texts'[d + 1])
    OBVIOUS
  <2>1. d \in 0..Len(texts) /\ ~(d >= Len(docs'))
    BY <1>7, <1>9 DEF Numbers
  <2>2. CASE d = Len(texts)
    <3>1. docs'[d + 1] = new /\ texts'[d + 1] = tokens
      BY <1>6, <1>7, <1>8, <2>2 DEF IndexInv, new
    <3>2. DocLen(d)' = IF new.ntok > 0 THEN new.ntok ELSE Len(new.tokens)
      BY <2>1, <3>1 DEF DocLen
    <3>3. new.ntok = Len(tokens) /\ new.tokens \in {tokens, <<>>}
      BY DEF new
    <3>4. Len(tokens) > 0 \/ tokens = <<>>
      BY <1>1
    <3>5. CASE Len(tokens) > 0
      BY <3>1, <3>2, <3>3, <3>5
    <3>6. CASE tokens = <<>>
      BY <3>1, <3>2, <3>3, <3>6
    <3> QED BY <3>4, <3>5, <3>6
  <2>3. CASE d # Len(texts)
    <3>1. d \in Numbers /\ ~(d >= Len(docs))
      BY <1>7, <2>1, <2>3 DEF Numbers, IndexInv
    <3>2. docs'[d + 1] = docs[d + 1] /\ texts'[d + 1] = texts[d + 1]
      BY <1>6, <1>7, <1>8, <3>1 DEF IndexInv, Numbers, new
    <3>3. DocLen(d)' = DocLen(d)
      BY <2>1, <3>1, <3>2 DEF DocLen
    <3> QED BY <3>1, <3>2, <3>3 DEF IndexInv
  <2> QED BY <2>2, <2>3
<1>11. /\ keys' \subseteq Terms
       /\ scratch' \in [Terms -> Seq(Int)]
       /\ \A t \in Terms \ keys' : scratch'[t] = <<>>
  <2>1. \A t \in Terms : scratch'[t] = Positions(tokens, t)
    BY <1>4, <1>5, <1>6
  <2>2. \A t \in Terms \ keys' : Positions(tokens, t) = <<>>
    BY <1>1, <1>6, PositionsFacts
  <2>3. scratch' = [t \in Terms |-> scratch'[t]]
    BY <1>6
  <2> QED BY <1>3, <1>4, <1>6, <2>1, <2>2, <2>3
<1>12. postings' = [t \in Terms |-> PostingsOf(t)']
  <2> SUFFICES ASSUME NEW t \in Terms PROVE postings'[t] = PostingsOf(t)'
    BY <1>6
  <2>1. postings[t] = PostingsOf(t) /\ Len(docs) = Len(texts)
    BY DEF IndexInv
  <2> QED BY <1>5, <1>6, <2>1, PostingsGrow
<1> QED BY <1>6, <1>7, <1>9, <1>10, <1>11, <1>12 DEF IndexInv

\* The buffer holds all document numbers whenever it is read.
LEMMA AllDocIDsExact ==
  ASSUME IndexInv
  PROVE  /\ AllDocIDs = [n \in 1..Len(texts) |-> n - 1]
         /\ AllDocIDs = InOrder(Numbers) /\ AllDocIDs \in Seq(Int)
         /\ Len(AllDocIDs) = Len(texts)
<1> DEFINE s == [n \in 1..Len(texts) |-> n - 1]
<1>1. AllDocIDs = s /\ Len(texts) \in Nat
  BY DEF AllDocIDs, IndexInv
<1>2. s \in Seq(Int) /\ Len(s) = Len(texts)
  BY <1>1
<1>3. Ascends(s)
  BY <1>1, <1>2 DEF Ascends
<1>4. Numbers = {s[m] : m \in 1..Len(s)}
  <2>1. \A d \in Numbers : d + 1 \in 1..Len(s) /\ s[d + 1] = d
    BY <1>1, <1>2 DEF Numbers
  <2>2. \A m \in 1..Len(s) : s[m] \in Numbers
    BY <1>1, <1>2 DEF Numbers
  <2> QED BY <2>1, <2>2
<1> HIDE DEF s
<1>5. InOrder(Numbers) = s
  BY <1>2, <1>3, <1>4, InOrderUnique
<1> QED BY <1>1, <1>2, <1>5 DEF s

-----------------------------------------------------------------------------
(* The recursive functions over trees.                                     *)

\* A branch has a smaller number than the tree, so a value for each tree can
\* be made from the set of the branches with the value TRUE.
LEMMA ValuesExist ==
  ASSUME NEW F
  PROVE  \E h : h = [x \in Trees |-> F[x][{y \in 1..(x - 1) : h[y]}]]
<1> DEFINE Solves(h, n) == h = [x \in 1..n |-> F[x][{y \in 1..(x - 1) : h[y]}]]
           T == {n \in Nat : ~ \E h : Solves(h, n)}
           size == Len(Nodes)
<1> SUFFICES size \notin T
  <2>1. size \in Nat /\ Trees = 1..size
    BY NodesAssumption DEF Trees
  <2> HIDE DEF size
  <2> QED BY <2>1
<1> SUFFICES ASSUME T # {} PROVE FALSE
  OBVIOUS
<1>1. PICK n \in T : \A m \in T : n <= m
  <2> HIDE DEF T
  <2> QED BY LeastExists DEF T
<1>2. n # 0
  <2>1. Solves([x \in 1..0 |-> 0], 0)
    OBVIOUS
  <2> QED BY <2>1
<1>3. n - 1 \in Nat /\ n - 1 \notin T
  <2>1. n \in Nat /\ n - 1 \in Nat /\ ~(n <= n - 1)
    BY <1>2
  <2> HIDE DEF T
  <2> QED BY <1>1, <2>1
<1>4. PICK h : Solves(h, n - 1)
  BY <1>3
<1> DEFINE g == [x \in 1..n |-> F[x][{y \in 1..(x - 1) : h[y]}]]
<1>5. \A x \in 1..n : \A y \in 1..(x - 1) : y \in 1..(n - 1) /\ y \in 1..n
  BY <1>3
<1>6. \A y \in 1..(n - 1) : h[y] = g[y]
  <2> SUFFICES ASSUME NEW y \in 1..(n - 1) PROVE h[y] = g[y]
    OBVIOUS
  <2>1. y \in 1..n
    BY <1>3
  <2>2. h[y] = F[y][{z \in 1..(y - 1) : h[z]}]
    BY <1>4
  <2> QED BY <2>1, <2>2
<1>7. \A x \in 1..n : {y \in 1..(x - 1) : h[y]} = {y \in 1..(x - 1) : g[y]}
  <2> HIDE DEF g
  <2> QED BY <1>5, <1>6
<1>8. g = [x \in 1..n |-> F[x][{y \in 1..(x - 1) : g[y]}]]
  <2> DEFINE old(x) == {y \in 1..(x - 1) : h[y]}
             new(x) == {y \in 1..(x - 1) : g[y]}
  <2>1. \A x \in 1..n : old(x) = new(x)
    BY <1>7
  <2>2. g = [x \in 1..n |-> F[x][old(x)]]
    OBVIOUS
  <2> HIDE DEF g, old, new
  <2>3. g = [x \in 1..n |-> F[x][new(x)]]
    BY <2>1, <2>2
  <2> QED BY <2>3 DEF new
<1>9. Solves(g, n)
  BY <1>8
<1> QED BY <1>9

\* The branches of an inner node.
LEMMA Branches ==
  ASSUME NEW q \in Trees, Nodes[q].op \in Inner
  PROVE  /\ q \in Nat /\ Len(Nodes[q].kids) \in Nat /\ Len(Nodes[q].kids) >= 1
         /\ Nodes[q].op = "not" => Len(Nodes[q].kids) = 1
         /\ Nodes[q].op = "or" => Len(Nodes[q].kids) = 2
         /\ Nodes[q].op = "and" => Len(Nodes[q].kids) >= 2
         /\ \A m \in 1..Len(Nodes[q].kids) :
              /\ Nodes[q].kids[m] \in 1..(q - 1)
              /\ Nodes[q].kids[m] \in Trees
<1>1. q \in Nat /\ \A n \in 1..(q - 1) : n \in Trees
  BY NodesAssumption DEF Trees
<1> DEFINE ks == Nodes[q].kids
<1>2. /\ ks \in Seq(1..(q - 1))
      /\ \/ Nodes[q].op = "not" /\ Len(ks) = 1
         \/ Nodes[q].op = "or" /\ Len(ks) = 2
         \/ Nodes[q].op = "and" /\ Len(ks) >= 2
  BY NodesAssumption DEF Inner
<1> HIDE DEF ks
<1>3. Len(ks) \in Nat /\ \A m \in 1..Len(ks) : ks[m] \in 1..(q - 1)
  <2>1. ks \in Seq(1..(q - 1)) /\ q \in Nat
    BY <1>1, <1>2
  <2> QED BY <2>1
<1>4. Len(ks) >= 1 /\ \A m \in 1..Len(ks) : ks[m] \in Trees
  <2>1. Len(ks) >= 1
    BY <1>2, <1>3
  <2> QED BY <1>1, <1>3, <2>1
<1>5. /\ Nodes[q].op = "not" => Len(ks) = 1
      /\ Nodes[q].op = "or" => Len(ks) = 2
      /\ Nodes[q].op = "and" => Len(ks) >= 2
  BY <1>2
<1> QED BY <1>1, <1>3, <1>4, <1>5 DEF ks

\* A property of trees that follows from the branches is true of all trees.
LEMMA TreeInduction ==
  ASSUME NEW Bad \in SUBSET Trees,
         \A q \in Bad : Nodes[q].op \in Inner
                         /\ \E m \in 1..Len(Nodes[q].kids) : Nodes[q].kids[m] \in Bad
  PROVE  Bad = {}
<1> SUFFICES ASSUME Bad # {} PROVE FALSE
  OBVIOUS
<1>1. Bad \in SUBSET Nat
  BY NodesAssumption DEF Trees
<1>2. PICK q \in Bad : \A x \in Bad : q <= x
  BY <1>1, LeastExists
<1>3. PICK m \in 1..Len(Nodes[q].kids) : Nodes[q].kids[m] \in Bad
  BY <1>2
<1>4. Nodes[q].kids[m] \in 1..(q - 1) /\ q \in Nat
  BY <1>2, <1>3, Branches
<1>5. q <= Nodes[q].kids[m]
  BY <1>2, <1>3
<1> QED BY <1>4, <1>5

LEMMA NeedsTextsUnfolds ==
  ASSUME NEW q \in Trees
  PROVE  NeedsTexts(q) <=> IF Nodes[q].op \in Inner
                           THEN \E m \in 1..Len(Nodes[q].kids) : NeedsTexts(Nodes[q].kids[m])
                           ELSE Nodes[q].op = "msm"
<1> DEFINE Eqn(h) ==
             [x \in Trees |->
                LET n == Nodes[x] IN
                CASE n.op = "not"           -> h[n.kids[1]]
                  [] n.op \in {"and", "or"} -> \E m \in 1..Len(n.kids) : h[n.kids[m]]
                  [] OTHER                  -> n.op = "msm"]
           val(x, Y) == IF Nodes[x].op \in Inner
                        THEN \E m \in 1..Len(Nodes[x].kids) : Nodes[x].kids[m] \in Y
                        ELSE Nodes[x].op = "msm"
           F == [x \in Trees |-> [Y \in SUBSET (1..(x - 1)) |-> val(x, Y)]]
           h == CHOOSE f : f = Eqn(f)
<1>1. PICK g : g = [x \in Trees |-> F[x][{y \in 1..(x - 1) : g[y]}]]
  <2> HIDE DEF F
  <2> QED BY ValuesExist
<1>2. ASSUME NEW x \in Trees PROVE g[x] = val(x, {y \in 1..(x - 1) : g[y]})
  <2>1. \A Y \in SUBSET (1..(x - 1)) : F[x][Y] = val(x, Y)
    OBVIOUS
  <2>2. g[x] = F[x][{y \in 1..(x - 1) : g[y]}]
    <3> HIDE DEF F
    <3> QED BY <1>1
  <2>3. {y \in 1..(x - 1) : g[y]} \in SUBSET (1..(x - 1))
    OBVIOUS
  <2> HIDE DEF val, F
  <2> QED BY <2>1, <2>2, <2>3
<1>3. \A x \in Trees : g[x] \in BOOLEAN
  BY <1>2
<1>4. ASSUME NEW x \in Trees, Nodes[x].op \in Inner
      PROVE  g[x] = \E m \in 1..Len(Nodes[x].kids) : g[Nodes[x].kids[m]]
  BY <1>2, <1>4, Branches
<1>5. ASSUME NEW x \in Trees, Nodes[x].op \notin Inner
      PROVE  g[x] = (Nodes[x].op = "msm")
  BY <1>2, <1>5
<1>6. g = Eqn(g)
  <2>1. ASSUME NEW x \in Trees PROVE g[x] = Eqn(g)[x]
    <3>1. CASE Nodes[x].op = "not"
      <4>1. Len(Nodes[x].kids) = 1 /\ Nodes[x].kids[1] \in Trees
        BY <3>1, Branches DEF Inner
      <4>2. g[x] = g[Nodes[x].kids[1]]
        <5>1. g[x] = \E m \in 1..1 : g[Nodes[x].kids[m]]
          BY <1>4, <3>1, <4>1 DEF Inner
        <5>2. g[x] \in BOOLEAN /\ g[Nodes[x].kids[1]] \in BOOLEAN
          BY <1>3, <4>1
        <5>3. g[x] <=> g[Nodes[x].kids[1]]
          BY <5>1
        <5> QED BY <5>2, <5>3
      <4>3. Eqn(g)[x] = g[Nodes[x].kids[1]]
        BY <3>1
      <4> QED BY <4>2, <4>3
    <3>2. CASE Nodes[x].op \in {"and", "or"}
      BY <1>4, <3>2 DEF Inner
    <3>3. CASE Nodes[x].op \notin Inner
      BY <1>5, <3>3 DEF Inner
    <3> QED BY <3>1, <3>2, <3>3 DEF Inner
  <2>2. g = [x \in Trees |-> g[x]]
    BY <1>1
  <2> QED BY <2>1, <2>2
<1>7. h = Eqn(h)
  BY <1>6
<1>8. \A x : NeedsTexts(x) = h[x]
  BY DEF NeedsTexts
<1> HIDE DEF h
<1>9. CASE Nodes[q].op = "not"
  <2>1. Len(Nodes[q].kids) = 1
    BY <1>9, Branches DEF Inner
  <2>2. h[q] = h[Nodes[q].kids[1]]
    BY <1>7, <1>9
  <2>3. NeedsTexts(q) <=> NeedsTexts(Nodes[q].kids[1])
    BY <1>8, <2>2
  <2> QED BY <1>9, <2>1, <2>3 DEF Inner
<1>10. CASE Nodes[q].op \in {"and", "or"}
  BY <1>7, <1>8, <1>10 DEF Inner
<1>11. CASE Nodes[q].op \notin Inner
  BY <1>7, <1>8, <1>11 DEF Inner
<1> QED BY <1>9, <1>10, <1>11 DEF Inner

LEMMA ContainsMSMUnfolds ==
  ASSUME NEW q \in Trees
  PROVE  ContainsMSM(q) <=> IF Nodes[q].op \in Inner
                            THEN \E m \in 1..Len(Nodes[q].kids) : ContainsMSM(Nodes[q].kids[m])
                            ELSE Nodes[q].op = "msm"
<1> DEFINE Eqn(h) ==
             [x \in Trees |->
                LET n == Nodes[x] IN
                \/ n.op = "msm"
                \/ n.op \in Inner /\ \E m \in 1..Len(n.kids) : h[n.kids[m]]]
           val(x, Y) == \/ Nodes[x].op = "msm"
                        \/ /\ Nodes[x].op \in Inner
                           /\ \E m \in 1..Len(Nodes[x].kids) : Nodes[x].kids[m] \in Y
           F == [x \in Trees |-> [Y \in SUBSET (1..(x - 1)) |-> val(x, Y)]]
           h == CHOOSE f : f = Eqn(f)
<1>1. PICK g : g = [x \in Trees |-> F[x][{y \in 1..(x - 1) : g[y]}]]
  <2> HIDE DEF F
  <2> QED BY ValuesExist
<1>2. ASSUME NEW x \in Trees PROVE g[x] = val(x, {y \in 1..(x - 1) : g[y]})
  <2>1. \A Y \in SUBSET (1..(x - 1)) : F[x][Y] = val(x, Y)
    OBVIOUS
  <2>2. g[x] = F[x][{y \in 1..(x - 1) : g[y]}]
    <3> HIDE DEF F
    <3> QED BY <1>1
  <2>3. {y \in 1..(x - 1) : g[y]} \in SUBSET (1..(x - 1))
    OBVIOUS
  <2> HIDE DEF val, F
  <2> QED BY <2>1, <2>2, <2>3
<1>3. g = Eqn(g)
  <2>1. ASSUME NEW x \in Trees PROVE g[x] = Eqn(g)[x]
    BY <1>2, Branches
  <2>2. g = [x \in Trees |-> g[x]]
    BY <1>1
  <2> QED BY <2>1, <2>2
<1>4. h = Eqn(h)
  BY <1>3
<1>5. \A x : ContainsMSM(x) = h[x]
  BY DEF ContainsMSM
<1> HIDE DEF h
<1> QED BY <1>4, <1>5 DEF Inner

LEMMA DisputedUnfolds ==
  ASSUME NEW q \in Trees
  PROVE  /\ Nodes[q].op \in Inner =>
              (Disputed(q) <=> \E m \in 1..Len(Nodes[q].kids) : Disputed(Nodes[q].kids[m]))
         /\ Nodes[q].op = "near" => (Disputed(q) <=> Nodes[q].x = Nodes[q].y)
         /\ Nodes[q].op = "msm" => (Disputed(q) <=> Nodes[q].w < 0)
<1> DEFINE Eqn(h) ==
             [x \in Trees |->
                LET n == Nodes[x] IN
                CASE n.op \in Inner -> \E m \in 1..Len(n.kids) : h[n.kids[m]]
                  [] n.op = "near"  -> n.x = n.y
                  [] n.op = "msm"   -> n.w < 0
                  [] OTHER          -> FALSE]
           val(x, Y) == IF Nodes[x].op \in Inner
                        THEN \E m \in 1..Len(Nodes[x].kids) : Nodes[x].kids[m] \in Y
                        ELSE CASE Nodes[x].op = "near"  -> Nodes[x].x = Nodes[x].y
                               [] Nodes[x].op = "msm"   -> Nodes[x].w < 0
                               [] OTHER                 -> FALSE
           F == [x \in Trees |-> [Y \in SUBSET (1..(x - 1)) |-> val(x, Y)]]
           h == CHOOSE f : f = Eqn(f)
<1>1. PICK g : g = [x \in Trees |-> F[x][{y \in 1..(x - 1) : g[y]}]]
  <2> HIDE DEF F
  <2> QED BY ValuesExist
<1>2. ASSUME NEW x \in Trees PROVE g[x] = val(x, {y \in 1..(x - 1) : g[y]})
  <2>1. \A Y \in SUBSET (1..(x - 1)) : F[x][Y] = val(x, Y)
    OBVIOUS
  <2>2. g[x] = F[x][{y \in 1..(x - 1) : g[y]}]
    <3> HIDE DEF F
    <3> QED BY <1>1
  <2>3. {y \in 1..(x - 1) : g[y]} \in SUBSET (1..(x - 1))
    OBVIOUS
  <2> HIDE DEF val, F
  <2> QED BY <2>1, <2>2, <2>3
<1>3. g = Eqn(g)
  <2>1. ASSUME NEW x \in Trees PROVE g[x] = Eqn(g)[x]
    <3>1. CASE Nodes[x].op \in Inner
      <4>1. g[x] = \E m \in 1..Len(Nodes[x].kids) : g[Nodes[x].kids[m]]
        BY <1>2, <3>1, Branches
      <4>2. Eqn(g)[x] = \E m \in 1..Len(Nodes[x].kids) : g[Nodes[x].kids[m]]
        BY <3>1 DEF Inner
      <4> QED BY <4>1, <4>2
    <3>2. CASE Nodes[x].op \notin Inner
      BY <1>2, <3>2
    <3> QED BY <3>1, <3>2
  <2>2. g = [x \in Trees |-> g[x]]
    BY <1>1
  <2> QED BY <2>1, <2>2
<1>4. h = Eqn(h)
  BY <1>3
<1>5. \A x : Disputed(x) = h[x]
  BY DEF Disputed
<1> HIDE DEF h
<1>6. CASE Nodes[q].op \in Inner
  BY <1>4, <1>5, <1>6 DEF Inner
<1>7. CASE Nodes[q].op \notin Inner
  BY <1>4, <1>5, <1>7 DEF Inner
<1> QED BY <1>6, <1>7

\* The entry point that warns looks for the leaves that need the texts.
LEMMA WarnedNeedNoTexts ==
  ASSUME NEW q \in Trees
  PROVE  ContainsMSM(q) <=> NeedsTexts(q)
<1> DEFINE Bad == {x \in Trees : ~(ContainsMSM(x) <=> NeedsTexts(x))}
<1>1. ASSUME NEW x \in Bad
      PROVE  Nodes[x].op \in Inner /\ \E m \in 1..Len(Nodes[x].kids) : Nodes[x].kids[m] \in Bad
  BY ContainsMSMUnfolds, NeedsTextsUnfolds, Branches
<1>2. Bad = {}
  <2> HIDE DEF Bad
  <2>1. Bad \in SUBSET Trees
    BY DEF Bad
  <2> QED BY <1>1, <2>1, TreeInduction
<1> QED BY <1>2

LEMMA HoldsUnfolds ==
  ASSUME NEW tokens, NEW q \in Trees
  PROVE  /\ Nodes[q].op = "not" => (Holds(tokens, q) <=> ~Holds(tokens, Nodes[q].kids[1]))
         /\ Nodes[q].op = "and" =>
              (Holds(tokens, q) <=>
                 \A m \in 1..Len(Nodes[q].kids) : Holds(tokens, Nodes[q].kids[m]))
         /\ Nodes[q].op = "or" =>
              (Holds(tokens, q) <=>
                 Holds(tokens, Nodes[q].kids[1]) \/ Holds(tokens, Nodes[q].kids[2]))
         /\ Nodes[q].op \notin Inner => (Holds(tokens, q) <=> LeafHolds(tokens, Nodes[q]))
<1> DEFINE Eqn(h) ==
             [x \in Trees |->
                LET n == Nodes[x] IN
                CASE n.op = "not" -> ~h[n.kids[1]]
                  [] n.op = "and" -> \A m \in 1..Len(n.kids) : h[n.kids[m]]
                  [] n.op = "or"  -> h[n.kids[1]] \/ h[n.kids[2]]
                  [] OTHER        -> LeafHolds(tokens, n)]
           val(x, Y) == CASE Nodes[x].op = "not" -> ~(Nodes[x].kids[1] \in Y)
                          [] Nodes[x].op = "and" ->
                               \A m \in 1..Len(Nodes[x].kids) : Nodes[x].kids[m] \in Y
                          [] Nodes[x].op = "or" ->
                               Nodes[x].kids[1] \in Y \/ Nodes[x].kids[2] \in Y
                          [] OTHER -> LeafHolds(tokens, Nodes[x])
           F == [x \in Trees |-> [Y \in SUBSET (1..(x - 1)) |-> val(x, Y)]]
           h == CHOOSE f : f = Eqn(f)
<1>1. PICK g : g = [x \in Trees |-> F[x][{y \in 1..(x - 1) : g[y]}]]
  <2> HIDE DEF F
  <2> QED BY ValuesExist
<1>2. ASSUME NEW x \in Trees PROVE g[x] = val(x, {y \in 1..(x - 1) : g[y]})
  <2>1. \A Y \in SUBSET (1..(x - 1)) : F[x][Y] = val(x, Y)
    OBVIOUS
  <2>2. g[x] = F[x][{y \in 1..(x - 1) : g[y]}]
    <3> HIDE DEF F
    <3> QED BY <1>1
  <2>3. {y \in 1..(x - 1) : g[y]} \in SUBSET (1..(x - 1))
    OBVIOUS
  <2> HIDE DEF val, F
  <2> QED BY <2>1, <2>2, <2>3
<1>3. g = Eqn(g)
  <2>1. ASSUME NEW x \in Trees PROVE g[x] = Eqn(g)[x]
    <3>1. CASE Nodes[x].op = "not"
      <4>1. Nodes[x].kids[1] \in 1..(x - 1)
        BY <3>1, Branches DEF Inner
      <4>2. g[x] = ~g[Nodes[x].kids[1]]
        BY <1>2, <3>1, <4>1
      <4> QED BY <3>1, <4>2
    <3>2. CASE Nodes[x].op = "and"
      <4>1. \A m \in 1..Len(Nodes[x].kids) : Nodes[x].kids[m] \in 1..(x - 1)
        BY <3>2, Branches DEF Inner
      <4>2. g[x] = \A m \in 1..Len(Nodes[x].kids) : g[Nodes[x].kids[m]]
        BY <1>2, <3>2, <4>1
      <4> QED BY <3>2, <4>2
    <3>3. CASE Nodes[x].op = "or"
      <4>1. Nodes[x].kids[1] \in 1..(x - 1) /\ Nodes[x].kids[2] \in 1..(x - 1)
        BY <3>3, Branches DEF Inner
      <4>2. g[x] = (g[Nodes[x].kids[1]] \/ g[Nodes[x].kids[2]])
        BY <1>2, <3>3, <4>1
      <4> QED BY <3>3, <4>2
    <3>4. CASE Nodes[x].op \notin Inner
      BY <1>2, <3>4 DEF Inner
    <3> QED BY <3>1, <3>2, <3>3, <3>4 DEF Inner
  <2>2. g = [x \in Trees |-> g[x]]
    BY <1>1
  <2> QED BY <2>1, <2>2
<1>4. h = Eqn(h)
  BY <1>3
<1>5. \A x : Holds(tokens, x) = h[x]
  BY DEF Holds
<1> HIDE DEF h
<1>6. h[q] = Eqn(h)[q]
  BY <1>4
<1>7. CASE Nodes[q].op = "not"
  BY <1>5, <1>6, <1>7 DEF Inner
<1>8. CASE Nodes[q].op = "and"
  BY <1>5, <1>6, <1>8 DEF Inner
<1>9. CASE Nodes[q].op = "or"
  BY <1>5, <1>6, <1>9 DEF Inner
<1>10. CASE Nodes[q].op \notin Inner
  BY <1>5, <1>6, <1>10 DEF Inner
<1> QED BY <1>7, <1>8, <1>9, <1>10 DEF Inner

-----------------------------------------------------------------------------
(* The leaves.                                                             *)

LEMMA PostingFacts ==
  ASSUME IndexInv, NEW t \in Terms
  PROVE  /\ DocsOf(t) = InOrder(Having(t)) /\ DocsOf(t) \in Seq(Int)
         /\ ToSet(DocsOf(t)) = Having(t)
         /\ \A d \in Having(t) : PossOf(t, d) = Positions(texts[d + 1], t)
<1> DEFINE having == InOrder(Having(t))
<1>1. postings[t] = [m \in 1..Len(having) |->
                       [doc |-> having[m], poss |-> Positions(texts[having[m] + 1], t)]]
  BY DEF IndexInv, PostingsOf
<1>2. /\ having \in Seq(Having(t)) /\ Having(t) \in SUBSET Int
      /\ {having[m] : m \in 1..Len(having)} = Having(t)
  BY HavingFacts
<1> HIDE DEF having
<1>3. Len(having) \in Nat /\ Len(postings[t]) = Len(having) /\ having = [m \in 1..Len(having) |-> having[m]]
  BY <1>1, <1>2
<1>4. DocsOf(t) = having
  BY <1>1, <1>3 DEF DocsOf
<1>5. having \in Seq(Int)
  BY <1>2, SeqMonotonic
<1>6. ToSet(having) = Having(t)
  <2>1. DOMAIN having = 1..Len(having)
    BY <1>2
  <2> QED BY <1>2, <2>1 DEF ToSet
<1>7. ASSUME NEW d \in Having(t) PROVE PossOf(t, d) = Positions(texts[d + 1], t)
  <2> DEFINE n == CHOOSE m \in 1..Len(postings[t]) : postings[t][m].doc = d
  <2>1. \E m \in 1..Len(postings[t]) : postings[t][m].doc = d
    BY <1>1, <1>2, <1>3
  <2>2. n \in 1..Len(postings[t]) /\ postings[t][n].doc = d
    BY <2>1
  <2>3. PossOf(t, d) = postings[t][n].poss
    BY DEF PossOf
  <2> HIDE DEF n
  <2> QED BY <1>1, <1>3, <2>2, <2>3
<1> QED BY <1>4, <1>5, <1>6, <1>7 DEF having

LEMMA NumbersFacts ==
  ASSUME IndexInv
  PROVE  /\ Len(texts) \in Nat /\ Numbers \in SUBSET Int /\ IsFiniteSet(Numbers)
         /\ \A d \in Numbers : d \in Int /\ texts[d + 1] \in Seq(Terms)
<1>1. Len(texts) \in Nat /\ \A d \in Numbers : d \in Int /\ texts[d + 1] \in Texts
  BY DEF IndexInv, Numbers
<1>2. 0 \in Int /\ Len(texts) - 1 \in Int
  BY <1>1
<1> QED BY <1>1, <1>2, FS_Interval, TextsAssumption DEF Numbers

LEMMA NearExact ==
  ASSUME IndexInv, NEW x \in Terms, NEW y \in Terms, NEW k
  PROVE  EvalNear(k, x, y) =
           InOrder({d \in Numbers : NearIn(Positions(texts[d + 1], x),
                                           Positions(texts[d + 1], y), k)})
<1>1. DocsWithBoth(x, y) = Having(x) \cap Having(y)
  BY PostingFacts DEF DocsWithBoth
<1>2. ASSUME NEW d \in Numbers,
             NearIn(Positions(texts[d + 1], x), Positions(texts[d + 1], y), k)
      PROVE  d \in Having(x) /\ d \in Having(y)
  <2>1. texts[d + 1] \in Seq(Terms)
    BY NumbersFacts
  <2>2. /\ ToSet(Positions(texts[d + 1], x)) # {}
        /\ ToSet(Positions(texts[d + 1], y)) # {}
    BY <1>2 DEF NearIn
  <2>3. /\ ToSet(Positions(texts[d + 1], x)) = At(texts[d + 1], x)
        /\ ToSet(Positions(texts[d + 1], y)) = At(texts[d + 1], y)
    BY <2>1, PositionsFacts
  <2>4. At(texts[d + 1], x) # {} => x \in ToSet(texts[d + 1])
    BY <2>1 DEF At, ToSet
  <2>5. At(texts[d + 1], y) # {} => y \in ToSet(texts[d + 1])
    BY <2>1 DEF At, ToSet
  <2> QED BY <2>2, <2>3, <2>4, <2>5 DEF Having
<1>3. \A d \in Having(x) \cap Having(y) :
        /\ d \in Numbers
        /\ PossOf(x, d) = Positions(texts[d + 1], x)
        /\ PossOf(y, d) = Positions(texts[d + 1], y)
  BY PostingFacts DEF Having
<1>4. {d \in Having(x) \cap Having(y) : NearIn(PossOf(x, d), PossOf(y, d), k)}
        = {d \in Numbers : NearIn(Positions(texts[d + 1], x), Positions(texts[d + 1], y), k)}
  BY <1>2, <1>3
<1> QED BY <1>1, <1>4 DEF EvalNear

LEMMA AdjExact ==
  ASSUME IndexInv, NEW x \in Terms, NEW y \in Terms
  PROVE  EvalAdj(x, y) =
           InOrder({d \in Numbers : \E m \in 1..(Len(texts[d + 1]) - 1) :
                                      texts[d + 1][m] = x /\ texts[d + 1][m + 1] = y})
<1>1. DocsWithBoth(x, y) = Having(x) \cap Having(y)
  BY PostingFacts DEF DocsWithBoth
<1>2. ASSUME NEW s \in Seq(Terms)
      PROVE  AdjIn(Positions(s, x), Positions(s, y))
               <=> \E m \in 1..(Len(s) - 1) : s[m] = x /\ s[m + 1] = y
  <2>1. /\ ToSet(Positions(s, x)) = At(s, x)
        /\ ToSet(Positions(s, y)) = At(s, y)
    BY PositionsFacts
  <2>2. ASSUME NEW p \in At(s, x), NEW q \in At(s, y), q = p + 1
        PROVE  \E m \in 1..(Len(s) - 1) : s[m] = x /\ s[m + 1] = y
    <3>1. /\ p + 1 \in 1..(Len(s) - 1)
          /\ s[p + 1] = x /\ s[p + 1 + 1] = y
      BY <2>2 DEF At
    <3> QED BY <3>1
  <2>3. ASSUME NEW m \in 1..(Len(s) - 1), s[m] = x, s[m + 1] = y
        PROVE  m - 1 \in At(s, x) /\ m \in At(s, y) /\ m = (m - 1) + 1
    BY <2>3 DEF At
  <2> QED BY <2>1, <2>2, <2>3 DEF AdjIn
<1>3. \A d \in Numbers : texts[d + 1] \in Seq(Terms)
  BY NumbersFacts
<1>4. ASSUME NEW d \in Numbers, NEW m \in 1..(Len(texts[d + 1]) - 1),
             texts[d + 1][m] = x, texts[d + 1][m + 1] = y
      PROVE  d \in Having(x) /\ d \in Having(y)
  BY <1>3, <1>4 DEF Having, ToSet
<1>5. \A d \in Having(x) \cap Having(y) :
        /\ d \in Numbers
        /\ PossOf(x, d) = Positions(texts[d + 1], x)
        /\ PossOf(y, d) = Positions(texts[d + 1], y)
  BY PostingFacts DEF Having
<1> DEFINE P(d) == AdjIn(Positions(texts[d + 1], x), Positions(texts[d + 1], y))
           Q(d) == \E m \in 1..(Len(texts[d + 1]) - 1) :
                      texts[d + 1][m] = x /\ texts[d + 1][m + 1] = y
<1>6. \A d \in Numbers : P(d) <=> Q(d)
  BY <1>2, <1>3
<1>7. \A d \in Numbers : Q(d) => d \in Having(x) /\ d \in Having(y)
  BY <1>4
<1>8. \A d \in Having(x) \cap Having(y) :
        d \in Numbers /\ (AdjIn(PossOf(x, d), PossOf(y, d)) <=> P(d))
  BY <1>5
<1> HIDE DEF P, Q
<1>9. {d \in Having(x) \cap Having(y) : AdjIn(PossOf(x, d), PossOf(y, d))}
        = {d \in Numbers : Q(d)}
  BY <1>6, <1>7, <1>8
<1> QED BY <1>1, <1>9 DEF EvalAdj, Q

\* A window that meets the quotas holds every term.
LEMMA WindowHasTerms ==
  ASSUME NEW tokens \in Seq(Terms), NEW terms \in Seq(Terms), NEW w, WindowIn(tokens, terms, w)
  PROVE  \A t \in ToSet(terms) : t \in ToSet(tokens)
<1> SUFFICES ASSUME NEW t \in ToSet(terms) PROVE t \in ToSet(tokens)
  OBVIOUS
<1>1. PICK m \in 1..Len(tokens), n \in 1..Len(tokens) :
        m <= n /\ Count(SubSeq(tokens, m, n), t) >= Count(terms, t)
  BY DEF WindowIn
<1> DEFINE A(s) == {i \in 1..Len(s) : s[i] = t}
           win == SubSeq(tokens, m, n)
<1>2. win \in Seq(Terms) /\ Len(win) = n - m + 1
      /\ \A i \in 1..Len(win) : win[i] = tokens[m + i - 1] /\ m + i - 1 \in 1..Len(tokens)
  BY <1>1
<1> HIDE DEF win
<1>3. ASSUME NEW s \in Seq(Terms)
      PROVE  IsFiniteSet(A(s)) /\ Cardinality(A(s)) \in Nat /\ Count(s, t) = Cardinality(A(s))
             /\ (Cardinality(A(s)) = 0 <=> A(s) = {})
  <2>1. A(s) \in SUBSET (1..Len(s)) /\ 1 \in Int /\ Len(s) \in Int
    OBVIOUS
  <2>2. IsFiniteSet(A(s))
    BY <2>1, FS_Interval, FS_Subset
  <2> QED BY <2>2, FS_CardinalityType, FS_EmptySet DEF Count
<1>4. A(terms) # {}
  BY DEF ToSet
<1>5. A(win) # {}
  <2> HIDE DEF A
  <2>1. Count(win, t) >= Count(terms, t)
    BY <1>1 DEF win
  <2> QED BY <1>2, <1>3, <1>4, <2>1
<1>6. PICK i \in 1..Len(win) : win[i] = t
  BY <1>5
<1>7. tokens[m + i - 1] = t /\ m + i - 1 \in 1..Len(tokens)
  BY <1>2, <1>6
<1> QED BY <1>7 DEF ToSet

LEMMA MSMExact ==
  ASSUME IndexInv, Whole, NEW ts \in Seq(Terms), NEW w \in Int, w >= 0
  PROVE  EvalMSM(w, ts) = InOrder({d \in Numbers : WindowIn(texts[d + 1], ts, w)})
<1>1. Len(docs) = Len(texts) /\ Len(texts) \in Nat
  BY DEF IndexInv
<1>2. \A d \in Numbers : docs[d + 1].tokens = texts[d + 1] /\ texts[d + 1] \in Seq(Terms)
  <2>1. \A d \in Numbers : d + 1 \in 1..Len(docs)
    BY <1>1 DEF Numbers
  <2> QED BY <2>1, NumbersFacts DEF Whole
<1>3. ASSUME NEW d \in Numbers, WindowIn(texts[d + 1], ts, w), NEW t \in ToSet(ts)
      PROVE  d \in ToSet(DocsOf(t))
  <2>1. t \in ToSet(texts[d + 1])
    BY <1>2, <1>3, WindowHasTerms
  <2>2. t \in Terms
    BY DEF ToSet
  <2> QED BY <2>1, <2>2, PostingFacts DEF Having
<1>4. {d \in 0..(Len(docs) - 1) :
         /\ \A t \in ToSet(ts) : d \in ToSet(DocsOf(t))
         /\ WindowIn(docs[d + 1].tokens, ts, IF w < 0 THEN 0 ELSE w)}
        = {d \in Numbers : WindowIn(texts[d + 1], ts, w)}
  <2>1. (IF w < 0 THEN 0 ELSE w) = w
    OBVIOUS
  <2>2. 0..(Len(docs) - 1) = Numbers
    BY <1>1 DEF Numbers
  <2> QED BY <1>2, <1>3, <2>1, <2>2
<1> QED BY <1>4 DEF EvalMSM, Whole

LEMMA EdgesExact ==
  ASSUME IndexInv, NEW t \in Terms
  PROVE  /\ EvalEdgeStart(t) =
              InOrder({d \in Numbers : texts[d + 1] # <<>> /\ texts[d + 1][1] = t})
         /\ EvalEdgeEnd(t) =
              InOrder({d \in Numbers : texts[d + 1] # <<>>
                                       /\ texts[d + 1][Len(texts[d + 1])] = t})
<1>1. \A d \in Numbers : texts[d + 1] \in Seq(Terms)
  BY NumbersFacts
<1>2. \A d : d \in Having(t) <=> d \in Numbers /\ t \in ToSet(texts[d + 1])
  BY DEF Having
<1>3. ASSUME NEW s \in Seq(Terms)
      PROVE  Positions(s, t) # <<>> /\ Positions(s, t)[1] = 0 <=> s # <<>> /\ s[1] = t
  <2>1. /\ At(s, t) \in SUBSET Int /\ IsFiniteSet(At(s, t))
        /\ Positions(s, t) = InOrder(At(s, t)) /\ ToSet(Positions(s, t)) = At(s, t)
        /\ Positions(s, t) \in Seq(Int)
    BY PositionsFacts
  <2>2. ASSUME s # <<>>, s[1] = t
        PROVE  Positions(s, t) # <<>> /\ Positions(s, t)[1] = 0
    <3>1. 0 \in At(s, t) /\ \A y \in At(s, t) : 0 <= y
      BY <2>2 DEF At
    <3> QED BY <2>1, <3>1, LeastFirst
  <2>3. ASSUME Positions(s, t) # <<>>, Positions(s, t)[1] = 0
        PROVE  s # <<>> /\ s[1] = t
    <3>1. 0 \in ToSet(Positions(s, t))
      BY <2>1, <2>3 DEF ToSet
    <3> QED BY <2>1, <3>1 DEF At
  <2> QED BY <2>2, <2>3
<1>4. {d \in Having(t) : PossOf(t, d) # <<>> /\ PossOf(t, d)[1] = 0}
        = {d \in Numbers : texts[d + 1] # <<>> /\ texts[d + 1][1] = t}
  <2>1. \A d \in Numbers : texts[d + 1] # <<>> /\ texts[d + 1][1] = t => d \in Having(t)
    BY <1>1, <1>2 DEF ToSet
  <2>2. \A d \in Having(t) : d \in Numbers /\ PossOf(t, d) = Positions(texts[d + 1], t)
    BY <1>2, PostingFacts
  <2> QED BY <1>1, <1>3, <2>1, <2>2
<1>5. {d \in Having(t) : DocLen(d) > 0 /\ DocLen(d) - 1 \in ToSet(PossOf(t, d))}
        = {d \in Numbers : texts[d + 1] # <<>> /\ texts[d + 1][Len(texts[d + 1])] = t}
  <2>1. \A d \in Numbers : texts[d + 1] # <<>> /\ texts[d + 1][Len(texts[d + 1])] = t
                             => d \in Having(t)
    BY <1>1, <1>2 DEF ToSet
  <2>2. \A d \in Having(t) : d \in Numbers /\ ToSet(PossOf(t, d)) = At(texts[d + 1], t)
    BY <1>1, <1>2, PostingFacts, PositionsFacts
  <2>3. \A d \in Numbers : DocLen(d) = Len(texts[d + 1])
    BY DEF IndexInv
  <2>4. \A s \in Seq(Terms) :
          Len(s) > 0 /\ Len(s) - 1 \in At(s, t) <=> s # <<>> /\ s[Len(s)] = t
    BY DEF At
  <2> QED BY <1>1, <2>1, <2>2, <2>3, <2>4
<1>6. ToSet(DocsOf(t)) = Having(t)
  BY PostingFacts
<1> QED BY <1>4, <1>5, <1>6 DEF EvalEdgeStart, EvalEdgeEnd

\* A leaf gives the documents that satisfy it.
LEMMA LeafExact ==
  ASSUME IndexInv, NEW q \in Trees, Nodes[q].op \notin Inner, Exact(q)
  PROVE  /\ Nodes[q].op = "term" => DocsOf(Nodes[q].lex) = InOrder(Sat(q))
         /\ Nodes[q].op # "term" => LeafDocs(Nodes[q]) = InOrder(Sat(q))
<1> DEFINE n == Nodes[q]
<1>1. Sat(q) = {d \in Numbers : LeafHolds(texts[d + 1], n)}
  BY HoldsUnfolds DEF Sat
<1>2. ~Disputed(q) /\ (n.op = "msm" => Whole)
  BY NeedsTextsUnfolds DEF Exact, Inner
<1>3. CASE n.op = "term"
  <2>1. n.lex \in Terms
    BY <1>3, NodesAssumption
  <2>2. \A d \in Numbers : LeafHolds(texts[d + 1], n) <=> n.lex \in ToSet(texts[d + 1])
    BY <1>3 DEF LeafHolds
  <2>3. Sat(q) = Having(n.lex)
    BY <1>1, <2>2 DEF Having
  <2> QED BY <1>3, <2>1, <2>3, PostingFacts
<1>4. CASE n.op = "near"
  <2>1. n.x \in Terms /\ n.y \in Terms /\ n.x # n.y
    BY <1>2, <1>4, NodesAssumption, DisputedUnfolds
  <2>2. \A d \in Numbers : LeafHolds(texts[d + 1], n) <=>
           NearIn(Positions(texts[d + 1], n.x), Positions(texts[d + 1], n.y), n.k)
    BY <1>4, <2>1 DEF LeafHolds
  <2>3. LeafDocs(n) = EvalNear(n.k, n.x, n.y)
    BY <1>4 DEF LeafDocs
  <2> HIDE DEF n
  <2>4. Sat(q) = {d \in Numbers : NearIn(Positions(texts[d + 1], n.x),
                                         Positions(texts[d + 1], n.y), n.k)}
    BY <1>1, <2>2
  <2> QED BY <1>4, <2>1, <2>3, <2>4, NearExact DEF n
<1>5. CASE n.op = "adj"
  <2>1. n.x \in Terms /\ n.y \in Terms
    BY <1>5, NodesAssumption
  <2>2. \A d \in Numbers : LeafHolds(texts[d + 1], n) <=>
           \E m \in 1..(Len(texts[d + 1]) - 1) :
              texts[d + 1][m] = n.x /\ texts[d + 1][m + 1] = n.y
    BY <1>5 DEF LeafHolds
  <2>3. LeafDocs(n) = EvalAdj(n.x, n.y)
    BY <1>5 DEF LeafDocs
  <2> HIDE DEF n
  <2>4. Sat(q) = {d \in Numbers : \E m \in 1..(Len(texts[d + 1]) - 1) :
                     texts[d + 1][m] = n.x /\ texts[d + 1][m + 1] = n.y}
    BY <1>1, <2>2
  <2> QED BY <1>5, <2>1, <2>3, <2>4, AdjExact DEF n
<1>6. CASE n.op = "msm"
  <2>1. n.w \in Int /\ n.w >= 0 /\ n.terms \in Seq(Terms) /\ Whole
    BY <1>2, <1>6, NodesAssumption, DisputedUnfolds
  <2>2. \A d \in Numbers : LeafHolds(texts[d + 1], n) <=>
           WindowIn(texts[d + 1], n.terms, n.w)
    BY <1>6 DEF LeafHolds
  <2>3. LeafDocs(n) = EvalMSM(n.w, n.terms)
    BY <1>6 DEF LeafDocs
  <2> HIDE DEF n
  <2>4. Sat(q) = {d \in Numbers : WindowIn(texts[d + 1], n.terms, n.w)}
    BY <1>1, <2>2
  <2> QED BY <1>6, <2>1, <2>3, <2>4, MSMExact DEF n
<1>7. CASE n.op = "first"
  <2>1. n.lex \in Terms
    BY <1>7, NodesAssumption
  <2>2. \A d \in Numbers : LeafHolds(texts[d + 1], n) <=>
           texts[d + 1] # <<>> /\ texts[d + 1][1] = n.lex
    BY <1>7 DEF LeafHolds
  <2>3. LeafDocs(n) = EvalEdgeStart(n.lex)
    BY <1>7 DEF LeafDocs
  <2> HIDE DEF n
  <2>4. Sat(q) = {d \in Numbers : texts[d + 1] # <<>> /\ texts[d + 1][1] = n.lex}
    BY <1>1, <2>2
  <2> QED BY <1>7, <2>1, <2>3, <2>4, EdgesExact DEF n
<1>8. CASE n.op = "last"
  <2>1. n.lex \in Terms
    BY <1>8, NodesAssumption
  <2>2. \A d \in Numbers : LeafHolds(texts[d + 1], n) <=>
           texts[d + 1] # <<>> /\ texts[d + 1][Len(texts[d + 1])] = n.lex
    BY <1>8 DEF LeafHolds
  <2>3. LeafDocs(n) = EvalEdgeEnd(n.lex)
    BY <1>8 DEF LeafDocs
  <2> HIDE DEF n
  <2>4. Sat(q) = {d \in Numbers : texts[d + 1] # <<>>
                                  /\ texts[d + 1][Len(texts[d + 1])] = n.lex}
    BY <1>1, <2>2
  <2> QED BY <1>8, <2>1, <2>3, <2>4, EdgesExact DEF n
<1>9. n.op \in {"term", "near", "adj", "msm", "first", "last"}
  BY NodesAssumption DEF Inner
<1> QED BY <1>3, <1>4, <1>5, <1>6, <1>7, <1>8, <1>9

LEMMA InOrderSubset ==
  ASSUME NEW A \in SUBSET Int, IsFiniteSet(A), NEW B \in SUBSET A
  PROVE  InOrder(B) \in Seq(Int)
<1>1. IsFiniteSet(B) /\ B \in SUBSET Int
  BY FS_Subset
<1>2. InOrder(B) \in Seq(B)
  BY <1>1, InOrderAscends
<1> QED BY <1>1, <1>2, SeqMonotonic

LEMMA LeafType ==
  ASSUME IndexInv, NEW q \in Trees, Nodes[q].op \notin Inner \cup {"term"}
  PROVE  LeafDocs(Nodes[q]) \in Seq(Int)
<1> DEFINE n == Nodes[q]
<1>1. Numbers \in SUBSET Int /\ IsFiniteSet(Numbers)
  BY NumbersFacts
<1>2. \A t \in Terms : ToSet(DocsOf(t)) \in SUBSET Numbers
  BY PostingFacts DEF Having
<1>3. CASE n.op = "near"
  <2>1. n.x \in Terms /\ n.y \in Terms
    BY <1>3, NodesAssumption
  <2>2. LeafDocs(n) = EvalNear(n.k, n.x, n.y)
    BY <1>3 DEF LeafDocs
  <2> HIDE DEF n
  <2>3. {d \in DocsWithBoth(n.x, n.y) : NearIn(PossOf(n.x, d), PossOf(n.y, d), n.k)}
          \in SUBSET Numbers
    BY <1>2, <2>1 DEF DocsWithBoth
  <2>4. EvalNear(n.k, n.x, n.y) \in Seq(Int)
    BY <1>1, <2>3, InOrderSubset DEF EvalNear
  <2> QED BY <2>2, <2>4 DEF n
<1>4. CASE n.op = "adj"
  <2>1. n.x \in Terms /\ n.y \in Terms
    BY <1>4, NodesAssumption
  <2>2. LeafDocs(n) = EvalAdj(n.x, n.y)
    BY <1>4 DEF LeafDocs
  <2> HIDE DEF n
  <2>3. {d \in DocsWithBoth(n.x, n.y) : AdjIn(PossOf(n.x, d), PossOf(n.y, d))}
          \in SUBSET Numbers
    BY <1>2, <2>1 DEF DocsWithBoth
  <2>4. EvalAdj(n.x, n.y) \in Seq(Int)
    BY <1>1, <2>3, InOrderSubset DEF EvalAdj
  <2> QED BY <2>2, <2>4 DEF n
<1>5. CASE n.op = "msm"
  <2>1. LeafDocs(n) = EvalMSM(n.w, n.terms)
    BY <1>5 DEF LeafDocs
  <2> HIDE DEF n
  <2>2. 0..(Len(docs) - 1) = Numbers
    BY DEF IndexInv, Numbers
  <2> DEFINE B == {d \in 0..(Len(docs) - 1) :
                     /\ \A t \in ToSet(n.terms) : d \in ToSet(DocsOf(t))
                     /\ WindowIn(docs[d + 1].tokens, n.terms, IF n.w < 0 THEN 0 ELSE n.w)}
  <2>3. B \in SUBSET Numbers
    BY <2>2
  <2>4. EvalMSM(n.w, n.terms) \in {<<>>, InOrder(B)}
    BY DEF EvalMSM
  <2> HIDE DEF B
  <2>5. InOrder(B) \in Seq(Int)
    BY <1>1, <2>3, InOrderSubset
  <2>6. EvalMSM(n.w, n.terms) \in Seq(Int)
    <3>1. <<>> \in Seq(Int)
      OBVIOUS
    <3> QED BY <2>4, <2>5, <3>1
  <2> QED BY <2>1, <2>6 DEF n
<1>6. CASE n.op = "first"
  <2>1. n.lex \in Terms
    BY <1>6, NodesAssumption
  <2>2. LeafDocs(n) = EvalEdgeStart(n.lex)
    BY <1>6 DEF LeafDocs
  <2> HIDE DEF n
  <2>3. {d \in ToSet(DocsOf(n.lex)) : PossOf(n.lex, d) # <<>> /\ PossOf(n.lex, d)[1] = 0}
          \in SUBSET Numbers
    BY <1>2, <2>1
  <2>4. EvalEdgeStart(n.lex) \in Seq(Int)
    BY <1>1, <2>3, InOrderSubset DEF EvalEdgeStart
  <2> QED BY <2>2, <2>4 DEF n
<1>7. CASE n.op = "last"
  <2>1. n.lex \in Terms
    BY <1>7, NodesAssumption
  <2>2. LeafDocs(n) = EvalEdgeEnd(n.lex)
    BY <1>7 DEF LeafDocs
  <2> HIDE DEF n
  <2>3. {d \in ToSet(DocsOf(n.lex)) :
           DocLen(d) > 0 /\ DocLen(d) - 1 \in ToSet(PossOf(n.lex, d))} \in SUBSET Numbers
    BY <1>2, <2>1
  <2>4. EvalEdgeEnd(n.lex) \in Seq(Int)
    BY <1>1, <2>3, InOrderSubset DEF EvalEdgeEnd
  <2> QED BY <2>2, <2>4 DEF n
<1>8. n.op \in {"near", "adj", "msm", "first", "last"}
  BY NodesAssumption DEF Inner
<1> QED BY <1>3, <1>4, <1>5, <1>6, <1>7, <1>8

-----------------------------------------------------------------------------
(* The heap.                                                               *)

\* Arrays are added, keep their lengths, and keep their contents outside W.
Grows(h, h2, W) ==
  /\ h2 \in Seq(Seq(Int))
  /\ Len(h) <= Len(h2)
  /\ \A a \in 1..Len(h) : Len(h2[a]) = Len(h[a]) /\ (a \notin W => h2[a] = h[a])

LEMMA GrowsOn ==
  ASSUME NEW h, NEW h2, NEW h3, NEW V, NEW W,
         h \in Seq(Seq(Int)), Grows(h, h2, V), Grows(h2, h3, W)
  PROVE  Grows(h, h3, V \cup W)
<1>1. /\ Len(h) \in Nat /\ Len(h2) \in Nat /\ Len(h3) \in Nat
      /\ Len(h) <= Len(h2) /\ Len(h2) <= Len(h3)
  BY DEF Grows
<1>2. ASSUME NEW a \in 1..Len(h)
      PROVE  Len(h3[a]) = Len(h[a]) /\ (a \notin V \cup W => h3[a] = h[a])
  <2>1. a \in 1..Len(h2)
    BY <1>1
  <2>2. /\ Len(h2[a]) = Len(h[a]) /\ (a \notin V => h2[a] = h[a])
        /\ Len(h3[a]) = Len(h2[a]) /\ (a \notin W => h3[a] = h2[a])
    BY <2>1 DEF Grows
  <2> QED BY <2>2
<1>3. h3 \in Seq(Seq(Int)) /\ Len(h) <= Len(h3)
  BY <1>1 DEF Grows
<1> QED BY <1>2, <1>3 DEF Grows

LEMMA GrowsKeeps ==
  ASSUME NEW h, NEW h2, NEW W, NEW s, h \in Seq(Seq(Int)), Grows(h, h2, W), IsSlice(h, s)
  PROVE  /\ IsSlice(h2, s)
         /\ s.arr = 0 \/ s.arr \notin W => Cells(h2, s) = Cells(h, s)
<1>1. s.arr # 0 => s.arr \in 1..Len(h)
  BY DEF IsSlice, Slices
<1> QED BY <1>1 DEF Grows, IsSlice, Slices, Cells

LEMMA CellsType ==
  ASSUME NEW h, NEW s, h \in Seq(Seq(Int)), IsSlice(h, s)
  PROVE  Cells(h, s) \in Seq(Int)
<1>1. CASE s.arr = 0
  BY <1>1 DEF Cells
<1>2. CASE s.arr # 0
  <2>1. h[s.arr] \in Seq(Int) /\ s.len \in 0..Len(h[s.arr])
    BY <1>2 DEF IsSlice, Slices
  <2>2. SubSeq(h[s.arr], 1, s.len) \in Seq(Int)
    BY <2>1
  <2> QED BY <1>2, <2>2 DEF Cells
<1> QED BY <1>1, <1>2

LEMMA FreshFacts ==
  ASSUME NEW h, NEW vals, h \in Seq(Seq(Int)), vals \in Seq(Int)
  PROVE  LET r == Fresh(h, vals) IN
         /\ Grows(h, r.heap, {})
         /\ IsSlice(r.heap, r.slice)
         /\ Cells(r.heap, r.slice) = vals
         /\ r.slice.arr = 0 \/ r.slice.arr > Len(h)
<1> DEFINE r == Fresh(h, vals)
<1>1. CASE vals = <<>>
  <2>1. r = [heap |-> h, slice |-> Nil]
    BY <1>1 DEF Fresh
  <2> HIDE DEF r
  <2>2. r.heap = h /\ r.slice = Nil
    BY <2>1
  <2> QED BY <1>1, <2>2 DEF r, Grows, IsSlice, Slices, Cells, Nil
<1>2. CASE vals # <<>>
  <2>1. r.heap = Append(h, vals) /\ r.slice = [arr |-> Len(h) + 1, len |-> Len(vals)]
    BY <1>2 DEF Fresh
  <2> HIDE DEF r
  <2>2. /\ r.heap \in Seq(Seq(Int)) /\ Len(r.heap) = Len(h) + 1 /\ Len(h) \in Nat
        /\ r.heap[Len(h) + 1] = vals
        /\ \A a \in 1..Len(h) : r.heap[a] = h[a]
    BY <2>1
  <2>3. Len(vals) \in Nat /\ SubSeq(vals, 1, Len(vals)) = vals
    BY SubSeqFull
  <2>4. r.slice \in Slices /\ r.slice.arr = Len(h) + 1 /\ r.slice.len = Len(vals)
    BY <2>1, <2>2, <2>3 DEF Slices
  <2>5. Cells(r.heap, r.slice) = vals
    BY <2>2, <2>3, <2>4 DEF Cells
  <2> QED BY <2>2, <2>3, <2>4, <2>5 DEF r, Grows, IsSlice
<1> QED BY <1>1, <1>2

LEMMA OverwrittenFacts ==
  ASSUME NEW cells \in Seq(Int), NEW vals \in Seq(Int), Len(vals) <= Len(cells)
  PROVE  /\ Overwritten(cells, vals) \in Seq(Int)
         /\ Len(Overwritten(cells, vals)) = Len(cells)
         /\ SubSeq(Overwritten(cells, vals), 1, Len(vals)) = vals
<1> DEFINE rest == SubSeq(cells, Len(vals) + 1, Len(cells))
<1>1. rest \in Seq(Int) /\ Len(rest) = Len(cells) - Len(vals)
  <2>1. Len(vals) \in Nat /\ Len(cells) \in Nat
    OBVIOUS
  <2> QED BY <2>1
<1> HIDE DEF rest
<1>2. vals \o rest \in Seq(Int) /\ Len(vals \o rest) = Len(cells)
  BY <1>1
<1>3. SubSeq(vals \o rest, 1, Len(vals)) = vals
  BY <1>1, SubSeqOfConcat1
<1> QED BY <1>2, <1>3 DEF Overwritten, rest

\* The values of a slice are written over an array.
LEMMA WriteFacts ==
  ASSUME NEW h, NEW vals, NEW a, h \in Seq(Seq(Int)), vals \in Seq(Int),
         a \in 1..Len(h), Len(vals) <= Len(h[a])
  PROVE  LET h2 == [h EXCEPT ![a] = Overwritten(@, vals)]
             s == [arr |-> a, len |-> Len(vals)]
         IN Grows(h, h2, {a}) /\ IsSlice(h2, s) /\ Cells(h2, s) = vals
<1> DEFINE x == Overwritten(h[a], vals)
           h2 == [h EXCEPT ![a] = x]
           s == [arr |-> a, len |-> Len(vals)]
<1>1. h[a] \in Seq(Int) /\ Len(vals) \in Nat
  OBVIOUS
<1>2. x \in Seq(Int) /\ Len(x) = Len(h[a]) /\ SubSeq(x, 1, Len(vals)) = vals
  BY <1>1, OverwrittenFacts
<1> HIDE DEF x
<1>3. h2 \in Seq(Seq(Int)) /\ Len(h2) = Len(h)
      /\ \A b \in 1..Len(h) : h2[b] = IF b = a THEN x ELSE h[b]
  BY <1>2
<1>4. s \in Slices /\ s.arr = a /\ s.len = Len(vals) /\ a # 0
  BY <1>1 DEF Slices
<1> HIDE DEF h2, s
<1>5. Grows(h, h2, {a})
  BY <1>2, <1>3 DEF Grows
<1>6. IsSlice(h2, s)
  BY <1>2, <1>3, <1>4 DEF IsSlice
<1>7. Cells(h2, s) = vals
  BY <1>2, <1>3, <1>4 DEF Cells
<1> QED BY <1>5, <1>6, <1>7 DEF h2, s, x

LEMMA CopyFacts ==
  ASSUME NEW h, NEW vals, NEW dst, h \in Seq(Seq(Int)), vals \in Seq(Int), IsSlice(h, dst)
  PROVE  LET r == CopyTo(h, dst, vals) IN
         /\ Grows(h, r.heap, {dst.arr})
         /\ IsSlice(r.heap, r.slice)
         /\ Cells(r.heap, r.slice) = vals
<1> DEFINE r == CopyTo(h, dst, vals)
<1>1. CASE dst.arr = 0 \/ Len(vals) > Len(h[dst.arr])
  <2>1. r = Fresh(h, vals)
    BY <1>1 DEF CopyTo
  <2> HIDE DEF r
  <2>2. /\ Grows(h, r.heap, {}) /\ IsSlice(r.heap, r.slice)
        /\ Cells(r.heap, r.slice) = vals
    BY <2>1, FreshFacts
  <2>3. Grows(h, r.heap, {dst.arr})
    BY <2>2 DEF Grows
  <2> QED BY <2>2, <2>3 DEF r
<1>2. CASE ~(dst.arr = 0 \/ Len(vals) > Len(h[dst.arr]))
  <2> DEFINE a == dst.arr
             h2 == [h EXCEPT ![a] = Overwritten(@, vals)]
             s == [arr |-> a, len |-> Len(vals)]
  <2>1. r.heap = h2 /\ r.slice = s
    BY <1>2 DEF CopyTo
  <2>2. a \in 1..Len(h) /\ Len(vals) <= Len(h[a])
    <3>1. a \in 1..Len(h)
      BY <1>2 DEF IsSlice, Slices
    <3>2. Len(h[a]) \in Nat /\ Len(vals) \in Nat
      BY <3>1
    <3> QED BY <1>2, <3>1, <3>2
  <2> HIDE DEF r, a
  <2>3. Grows(h, h2, {a}) /\ IsSlice(h2, s) /\ Cells(h2, s) = vals
    BY <2>2, WriteFacts
  <2> HIDE DEF h2, s
  <2> QED BY <2>1, <2>3 DEF r, a
<1> QED BY <1>1, <1>2

-----------------------------------------------------------------------------
(* The steps of the evaluator: what a call that returns leaves, and what a *)
(* call that calls for a branch leaves.                                    *)

\* Only arrays that may be overwritten are, and only new ones join them.
HeapStep ==
  /\ Grows(heap, heap', Overwritable)
  /\ \A a \in Overwritable' : a = 0 \/ a \in Overwritable \/ a > Len(heap)

LEMMA OverwritableOld ==
  ASSUME HeapInv
  PROVE  Len(heap) \in Nat /\ \A a \in Overwritable : a \in Nat /\ a <= Len(heap)
BY DEF HeapInv, Overwritable, IsSlice, Slices

LEMMA KeptStays ==
  ASSUME HeapInv, HeapStep, NEW s, IsSlice(heap, s)
  PROVE  /\ IsSlice(heap', s)
         /\ s.arr = 0 \/ s.arr \notin Overwritable =>
              /\ s.arr = 0 \/ s.arr \notin Overwritable'
              /\ Cells(heap', s) = Cells(heap, s)
<1>1. heap \in Seq(Seq(Int)) /\ Grows(heap, heap', Overwritable)
  BY DEF HeapInv, HeapStep
<1>2. s.arr \in Nat /\ s.arr <= Len(heap) /\ Len(heap) \in Nat
  BY <1>1 DEF IsSlice, Slices
<1>3. ASSUME s.arr # 0, s.arr \notin Overwritable PROVE s.arr \notin Overwritable'
  <2>1. ~(s.arr > Len(heap))
    BY <1>2
  <2> QED BY <1>3, <2>1 DEF HeapStep
<1> QED BY <1>1, <1>3, GrowsKeeps

LEMMA GivenStays ==
  ASSUME HeapInv, GivenInv, AnswersStay, HeapStep, given' = given,
         Len(texts) \in Nat, Len(texts') \in Nat, Len(texts) <= Len(texts')
  PROVE  GivenInv' /\ AnswersStay'
<1>1. ASSUME NEW m \in 1..Len(given)
      PROVE  /\ given[m].n <= Len(texts')
             /\ IsSlice(heap', given[m].slice)
             /\ Nodes[given[m].q].op # "term" =>
                  /\ given[m].slice.arr = 0 \/ given[m].slice.arr \notin Overwritable'
                  /\ Cells(heap', given[m].slice) = given[m].ids
  <2>1. given[m] \in Answers /\ given[m].n <= Len(texts) /\ IsSlice(heap, given[m].slice)
        /\ (Nodes[given[m].q].op # "term" =>
              given[m].slice.arr = 0 \/ given[m].slice.arr \notin Overwritable)
    BY DEF GivenInv, Kept
  <2>2. given[m].n \in Nat
    BY <2>1 DEF Answers
  <2>3. given[m].n <= Len(texts')
    BY <2>1, <2>2
  <2>4. Nodes[given[m].q].op # "term" => Cells(heap, given[m].slice) = given[m].ids
    BY DEF AnswersStay
  <2> QED BY <2>1, <2>3, <2>4, KeptStays
<1>2. given' \in Seq(Answers)
  BY DEF GivenInv
<1> QED BY <1>1, <1>2 DEF GivenInv, AnswersStay, Kept

LEMMA BelowFacts ==
  ASSUME StackInv, stack # <<>>
  PROVE  /\ Len(stack) \in Nat /\ Len(stack) >= 1 /\ Top \in Frames /\ Top = stack[Len(stack)]
         /\ Below \in Seq(Frames) /\ Len(Below) = Len(stack) - 1
         /\ \A n \in 1..(Len(stack) - 1) : Below[n] = stack[n]
         /\ Top.node \in Trees
<1>1. stack \in Seq(Frames) /\ Len(stack) \in Nat /\ Len(stack) >= 1
  BY DEF StackInv
<1>2. Top \in Frames /\ Top = stack[Len(stack)]
  BY <1>1 DEF Top
<1>3. /\ Below \in Seq(Frames) /\ Len(Below) = Len(stack) - 1
      /\ \A n \in 1..(Len(stack) - 1) : Below[n] = stack[n]
  <2> DEFINE k == Len(stack) - 1
  <2>1. k \in Nat /\ Below = SubSeq(stack, 1, k) /\ Len(stack) = k + 1
    BY <1>1 DEF Below
  <2> HIDE DEF k
  <2>2. \A n \in 1..k : stack[n] \in Frames
    BY <1>1, <2>1
  <2>3. /\ Below \in Seq(Frames) /\ Len(Below) = IF 1 <= k THEN k - 1 + 1 ELSE 0
        /\ \A n \in 1..(k - 1 + 1) : Below[n] = stack[1 + n - 1]
    BY <2>1, <2>2, SubSeqProperties
  <2>4. Len(Below) = k /\ \A n \in 1..k : Below[n] = stack[n]
    BY <2>1, <2>3
  <2> QED BY <2>3, <2>4 DEF k
<1> QED BY <1>1, <1>2, <1>3 DEF Frames

\* A call returns: what it returns is new, or it is of a term and in tmp.
LEMMA PopKeeps ==
  ASSUME StackInv, HeapInv, AliasInv, mode # "idle", stack # <<>>,
         mode' = "return", stack' = Below, call' = call,
         Grows(heap, heap', Overwritable), IsSlice(heap', tmp'), IsSlice(heap', ret'),
         \/ tmp' = tmp /\ (ret'.arr = 0 \/ ret'.arr > Len(heap))
         \/ Nodes[Top.node].op = "term" /\ (tmp'.arr = tmp.arr \/ tmp'.arr > Len(heap))
  PROVE  StackInv' /\ HeapInv' /\ AliasInv' /\ HeapStep /\ Returned' = Top.node
<1> PICK k \in Nat : Len(stack) = k + 1
  <2>1. Len(stack) - 1 \in Nat /\ Len(stack) = (Len(stack) - 1) + 1
    BY BelowFacts
  <2> QED BY <2>1
<1>1. /\ stack' \in Seq(Frames) /\ Len(stack') = k /\ k \in Nat /\ Len(stack) = k + 1
      /\ \A n \in 1..k : stack'[n] = stack[n]
      /\ \A n \in 1..k : n \in 1..Len(stack)
      /\ Top = stack[k + 1] /\ k + 1 \in 1..Len(stack)
  BY BelowFacts
<1>2. \A n \in 1..(k + 1) : Wanted(n)' = Wanted(n)
  BY <1>1 DEF Wanted, Child
<1>3. StackInv'
  <2>1. Callers' = 1..k /\ \A n \in 1..k : n \in Callers
    BY <1>1 DEF StackInv, Callers
  <2>2. \A n \in Callers' : Waiting(stack'[n])
    BY <1>1, <2>1 DEF StackInv
  <2>3. \A n \in 1..k : stack'[n].node = Wanted(n)'
    BY <1>1, <1>2 DEF StackInv
  <2>4. call'.q \in Trees
    BY DEF StackInv
  <2> QED BY <1>1, <2>2, <2>3, <2>4 DEF StackInv
<1>4. Returned' = Top.node
  <2>1. Returned' = Wanted(k + 1)'
    BY <1>1 DEF Returned
  <2>2. Top.node = Wanted(k + 1)
    BY <1>1 DEF StackInv
  <2>3. k + 1 \in 1..(k + 1)
    BY <1>1
  <2> QED BY <1>2, <2>1, <2>2, <2>3
<1>5. HeapStep
  <2> SUFFICES ASSUME NEW a \in Overwritable'
               PROVE  a = 0 \/ a \in Overwritable \/ a > Len(heap)
    BY DEF HeapStep
  <2>1. CASE a = tmp'.arr
    BY <2>1 DEF Overwritable
  <2>2. ASSUME NEW n \in 1..k, a = stack'[n].dst.arr PROVE a \in Overwritable
    BY <1>1, <2>2 DEF Overwritable
  <2> QED BY <1>1, <2>1, <2>2 DEF Overwritable
<1>6. HeapInv'
  <2>1. heap' \in Seq(Seq(Int))
    BY DEF Grows
  <2>2. \A n \in 1..k : IsSlice(heap', stack'[n].acc) /\ IsSlice(heap', stack'[n].dst)
    <3> SUFFICES ASSUME NEW n \in 1..k
                 PROVE  IsSlice(heap', stack[n].acc) /\ IsSlice(heap', stack[n].dst)
      BY <1>1
    <3>1. IsSlice(heap, stack[n].acc) /\ IsSlice(heap, stack[n].dst)
      BY <1>1 DEF HeapInv
    <3> QED BY <1>5, <3>1, KeptStays
  <2> QED BY <1>1, <2>1, <2>2 DEF HeapInv
<1>7. AliasInv'
  <2>1. \A n \in 1..k : Kept(stack[n].acc)'
    <3> SUFFICES ASSUME NEW n \in 1..k
                 PROVE  stack'[n].acc.arr = 0 \/ stack'[n].acc.arr \notin Overwritable'
      BY DEF Kept
    <3>1. IsSlice(heap, stack[n].acc)
      BY <1>1 DEF HeapInv
    <3>2. stack[n].acc.arr = 0 \/ stack[n].acc.arr \notin Overwritable
      BY <1>1 DEF AliasInv, Kept
    <3>3. stack'[n].acc = stack[n].acc
      BY <1>1
    <3> QED BY <1>5, <3>1, <3>2, <3>3, KeptStays
  <2>2. ASSUME Nodes[Top.node].op # "term"
        PROVE  ret'.arr = 0 \/ ret'.arr \notin Overwritable'
    <3>1. tmp' = tmp /\ (ret'.arr = 0 \/ ret'.arr > Len(heap))
      BY <2>2
    <3>2. \A a \in Overwritable' : a \in Overwritable
      BY <1>1, <3>1 DEF Overwritable
    <3>3. \A a \in Overwritable' : ~(a > Len(heap))
      BY <3>2, OverwritableOld
    <3> QED BY <3>1, <3>3
  <2> QED BY <1>1, <1>4, <2>1, <2>2 DEF AliasInv, Kept
<1> QED BY <1>3, <1>4, <1>5, <1>6, <1>7

\* A call has evaluated some branches and calls for the next one; what it
\* holds so far is new.
LEMMA PushKeeps ==
  ASSUME StackInv, HeapInv, AliasInv, mode # "idle", stack # <<>>,
         NEW here \in Frames, here.node = Top.node, Waiting(here), here.dst = tmp,
         here.acc.arr = 0 \/ here.acc.arr > Len(heap), IsSlice(heap', here.acc),
         Grows(heap, heap', Overwritable),
         stack' = Append(Append(Below, here), Frame(Child(here))), mode' = "eval",
         call' = call, tmp' = tmp, ret' = ret
  PROVE  /\ StackInv' /\ HeapInv' /\ AliasInv' /\ HeapStep
         /\ Len(stack') = Len(stack) + 1 /\ stack'[Len(stack)] = here
         /\ \A n \in 1..(Len(stack) - 1) : stack'[n] = stack[n]
<1> PICK k \in Nat : Len(stack) = k + 1
  <2>1. Len(stack) - 1 \in Nat /\ Len(stack) = (Len(stack) - 1) + 1
    BY BelowFacts
  <2> QED BY <2>1
<1> DEFINE new == Frame(Child(here))
<1>1. new \in Frames /\ new.node = Child(here) /\ new.acc = Nil /\ new.dst = Nil
  <2>1. Child(here) \in Trees
    <3>1. here.node \in Trees /\ here.done + 1 \in 1..Len(Nodes[here.node].kids)
      BY Branches DEF Frames, Waiting
    <3> QED BY <3>1, Branches DEF Waiting, Child
  <2>2. new = [node |-> Child(here), done |-> 0, acc |-> Nil, dst |-> Nil]
    BY DEF Frame
  <2> HIDE DEF new
  <2> QED BY <2>1, <2>2 DEF Frames, Nil, Slices
<1>2. new = Frame(new.node)
  BY <1>1
<1> HIDE DEF new
<1>3. /\ stack' \in Seq(Frames) /\ Len(stack') = k + 2
      /\ \A n \in 1..k : stack'[n] = stack[n] /\ n \in 1..Len(stack)
      /\ stack'[k + 1] = here /\ stack'[k + 2] = new
      /\ Top = stack[k + 1] /\ k + 1 \in 1..Len(stack)
  <2>1. /\ Below \in Seq(Frames) /\ Len(Below) = k /\ \A n \in 1..k : Below[n] = stack[n]
        /\ Top = stack[k + 1]
    BY BelowFacts
  <2>2. stack' = Append(Append(Below, here), new)
    BY DEF new
  <2>3. \A n \in 1..k : n \in 1..Len(stack)
    OBVIOUS
  <2> QED BY <1>1, <2>1, <2>2, <2>3
<1>4. \A n \in 1..(k + 1) : Wanted(n)' = Wanted(n)
  <2> SUFFICES ASSUME NEW n \in 1..(k + 1) PROVE Wanted(n)' = Wanted(n)
    OBVIOUS
  <2>1. CASE n = 1
    BY <2>1 DEF Wanted
  <2>2. CASE n # 1
    <3>1. n - 1 \in 1..k
      BY <2>2
    <3>2. stack'[n - 1] = stack[n - 1]
      BY <1>3, <3>1
    <3> QED BY <2>2, <3>2 DEF Wanted, Child
  <2> QED BY <2>1, <2>2
<1>5. Wanted(k + 2)' = new.node
  <2>1. k + 2 # 1 /\ k + 2 - 1 = k + 1
    OBVIOUS
  <2>2. \A n \in Nat : n # 1 => Wanted(n)' = Nodes[stack'[n - 1].node].kids[stack'[n - 1].done + 1]
    BY DEF Wanted, Child
  <2>3. PICK n \in Nat : n = k + 2
    OBVIOUS
  <2>4. n # 1 /\ n - 1 = k + 1
    BY <2>3
  <2>5. Wanted(n)' = Nodes[stack'[k + 1].node].kids[stack'[k + 1].done + 1]
    BY <2>2, <2>4
  <2>6. Wanted(n)' = new.node
    BY <1>1, <1>3, <2>5 DEF Child
  <2> QED BY <2>3, <2>6
<1>6. StackInv'
  <2>1. Callers' = 1..(k + 1) /\ \A n \in 1..k : n \in Callers
    <3>1. Callers' = 1..(Len(stack') - 1)
      BY DEF Callers
    <3> QED BY <1>3, <3>1 DEF StackInv, Callers
  <2>2. \A n \in Callers' : Waiting(stack'[n])
    <3> SUFFICES ASSUME NEW n \in 1..(k + 1) PROVE Waiting(stack'[n])
      BY <2>1
    <3>1. CASE n = k + 1
      BY <1>3, <3>1
    <3>2. CASE n # k + 1
      BY <1>3, <2>1, <3>2 DEF StackInv
    <3> QED BY <3>1, <3>2
  <2>3. \A n \in 1..(k + 2) : stack'[n].node = Wanted(n)'
    <3> SUFFICES ASSUME NEW n \in 1..(k + 2) PROVE stack'[n].node = Wanted(n)'
      OBVIOUS
    <3>1. CASE n = k + 2
      BY <1>3, <1>5, <3>1
    <3>2. CASE n = k + 1
      BY <1>3, <1>4, <3>2 DEF StackInv
    <3>3. CASE n \in 1..k
      BY <1>3, <1>4, <3>3 DEF StackInv
    <3>4. n \in 1..k \/ n = k + 1 \/ n = k + 2
      OBVIOUS
    <3> QED BY <3>1, <3>2, <3>3, <3>4
  <2>4. call'.q \in Trees
    BY DEF StackInv
  <2>5. Top' = new /\ stack' # <<>>
    <3>1. Top' = stack'[Len(stack')]
      BY DEF Top
    <3> QED BY <1>3, <3>1
  <2>6. (Top = Frame(Top.node))'
    <3>1. Frame(Top.node)' = Frame(Top'.node)
      BY DEF Frame
    <3> QED BY <1>2, <2>5, <3>1
  <2> QED BY <1>3, <2>2, <2>3, <2>4, <2>5, <2>6 DEF StackInv
<1>7. \A a \in Overwritable' : a = 0 \/ a \in Overwritable
  <2> SUFFICES ASSUME NEW a \in Overwritable' PROVE a = 0 \/ a \in Overwritable
    OBVIOUS
  <2>1. CASE a = tmp'.arr
    BY <2>1 DEF Overwritable
  <2>2. ASSUME NEW n \in 1..k, a = stack'[n].dst.arr PROVE a \in Overwritable
    BY <1>3, <2>2 DEF Overwritable
  <2>3. CASE a = stack'[k + 1].dst.arr
    BY <1>3, <2>3 DEF Overwritable
  <2>4. CASE a = stack'[k + 2].dst.arr
    BY <1>1, <1>3, <2>4 DEF Nil
  <2>5. \A n \in 1..(k + 2) : n \in 1..k \/ n = k + 1 \/ n = k + 2
    OBVIOUS
  <2> QED BY <1>3, <2>1, <2>2, <2>3, <2>4, <2>5 DEF Overwritable
<1>8. HeapStep
  BY <1>7 DEF HeapStep
<1>9. HeapInv'
  <2>1. heap' \in Seq(Seq(Int))
    BY DEF Grows
  <2>2. IsSlice(heap', tmp') /\ IsSlice(heap', ret')
    BY <1>8, KeptStays DEF HeapInv
  <2>3. ASSUME NEW n \in 1..(k + 2)
        PROVE  IsSlice(heap', stack'[n].acc) /\ IsSlice(heap', stack'[n].dst)
    <3>1. CASE n \in 1..k
      <4>1. IsSlice(heap, stack[n].acc) /\ IsSlice(heap, stack[n].dst)
        BY <1>3, <3>1 DEF HeapInv
      <4> QED BY <1>3, <1>8, <3>1, <4>1, KeptStays
    <3>2. CASE n = k + 1
      BY <1>3, <2>2, <3>2
    <3>3. CASE n = k + 2
      <4>1. IsSlice(heap', Nil)
        BY <2>1 DEF IsSlice, Slices, Nil
      <4> QED BY <1>1, <1>3, <3>3, <4>1
    <3>4. n \in 1..k \/ n = k + 1 \/ n = k + 2
      OBVIOUS
    <3> QED BY <3>1, <3>2, <3>3, <3>4
  <2> QED BY <1>3, <2>1, <2>2, <2>3 DEF HeapInv
<1>10. AliasInv'
  <2> SUFFICES ASSUME NEW n \in 1..(k + 2)
               PROVE  stack'[n].acc.arr = 0 \/ stack'[n].acc.arr \notin Overwritable'
    BY <1>3 DEF AliasInv, Kept
  <2>1. CASE n \in 1..k
    <3>1. IsSlice(heap, stack[n].acc)
      BY <1>3, <2>1 DEF HeapInv
    <3>2. stack[n].acc.arr = 0 \/ stack[n].acc.arr \notin Overwritable
      BY <1>3, <2>1 DEF AliasInv, Kept
    <3>3. stack'[n].acc = stack[n].acc
      BY <1>3, <2>1
    <3> QED BY <1>8, <3>1, <3>2, <3>3, KeptStays
  <2>2. CASE n = k + 1
    <3>1. \A a \in Overwritable' : a = 0 \/ ~(a > Len(heap))
      BY <1>7, OverwritableOld
    <3>2. here.acc.arr = 0 \/ here.acc.arr \notin Overwritable'
      BY <3>1
    <3> QED BY <1>3, <2>2, <3>2
  <2>3. CASE n = k + 2
    BY <1>1, <1>3, <2>3 DEF Nil
  <2>4. n \in 1..k \/ n = k + 1 \/ n = k + 2
    OBVIOUS
  <2> QED BY <2>1, <2>2, <2>3, <2>4
<1> QED BY <1>3, <1>6, <1>8, <1>9, <1>10

\* What a waiting call holds stays what it was.
LEMMA HeldStays ==
  ASSUME StackInv, HeapInv, AliasInv, ContentInv, HeapStep,
         docs' = docs, texts' = texts, ram' = ram,
         NEW n \in Callers, stack'[n] = stack[n]
  PROVE  (Exact(stack[n].node)
            /\ (Nodes[stack[n].node].op # "not" => stack[n].done > 0) =>
            Cells(heap, stack[n].acc) = InOrder(SoFar(stack[n])))'
<1>1. n \in 1..Len(stack)
  BY DEF Callers, StackInv
<1>2. IsSlice(heap, stack[n].acc)
  BY <1>1 DEF HeapInv
<1>3. stack[n].acc.arr = 0 \/ stack[n].acc.arr \notin Overwritable
  BY <1>1 DEF AliasInv, Kept
<1>4. Cells(heap', stack[n].acc) = Cells(heap, stack[n].acc)
  BY <1>2, <1>3, KeptStays
<1>5. Exact(stack[n].node)' => Exact(stack[n].node)
  BY DEF Exact, Whole
<1>6. SoFar(stack[n])' = SoFar(stack[n])
  BY DEF SoFar, Numbers
<1>7. Cells(heap, stack[n].acc)' = Cells(heap', stack[n].acc)
  BY DEF Cells
<1> QED BY <1>4, <1>5, <1>6, <1>7 DEF ContentInv

LEMMA PopContent ==
  ASSUME StackInv, HeapInv, AliasInv, ContentInv, HeapStep, mode # "idle", stack # <<>>,
         stack' = Below, mode' = "return", Returned' = Top.node,
         docs' = docs, texts' = texts, ram' = ram,
         Exact(Top.node) => Cells(heap', ret') = InOrder(Sat(Top.node))
  PROVE  ContentInv'
<1>1. \A n \in Callers' : n \in Callers /\ stack'[n] = stack[n]
  BY BelowFacts DEF Callers, StackInv
<1>2. \A n \in Callers' :
        (Exact(stack[n].node) /\ (Nodes[stack[n].node].op # "not" => stack[n].done > 0) =>
           Cells(heap, stack[n].acc) = InOrder(SoFar(stack[n])))'
  BY <1>1, HeldStays
<1>3. Exact(Returned)' => Exact(Top.node)
  BY DEF Exact, Whole
<1>4. Sat(Returned)' = Sat(Top.node)
  BY DEF Sat, Numbers
<1>5. Cells(heap, ret)' = Cells(heap', ret')
  BY DEF Cells
<1> QED BY <1>2, <1>3, <1>4, <1>5 DEF ContentInv

LEMMA PushContent ==
  ASSUME StackInv, HeapInv, AliasInv, ContentInv, HeapStep, mode # "idle", stack # <<>>,
         NEW here, here.node = Top.node,
         Len(stack') = Len(stack) + 1, stack'[Len(stack)] = here,
         \A n \in 1..(Len(stack) - 1) : stack'[n] = stack[n], mode' = "eval",
         docs' = docs, texts' = texts, ram' = ram,
         Exact(Top.node) /\ (Nodes[Top.node].op # "not" => here.done > 0) =>
           Cells(heap', here.acc) = InOrder(SoFar(here))
  PROVE  ContentInv'
<1> PICK k \in Nat : Len(stack) = k + 1
  <2>1. Len(stack) - 1 \in Nat /\ Len(stack) = (Len(stack) - 1) + 1
    BY BelowFacts
  <2> QED BY <2>1
<1>1. Callers' = 1..(k + 1)
  BY DEF Callers
<1>2. \A n \in 1..k : n \in Callers /\ stack'[n] = stack[n]
  BY DEF Callers, StackInv
<1>3. \A n \in 1..k :
        (Exact(stack[n].node) /\ (Nodes[stack[n].node].op # "not" => stack[n].done > 0) =>
           Cells(heap, stack[n].acc) = InOrder(SoFar(stack[n])))'
  BY <1>2, HeldStays
<1>4. (Exact(stack[k + 1].node)
         /\ (Nodes[stack[k + 1].node].op # "not" => stack[k + 1].done > 0) =>
         Cells(heap, stack[k + 1].acc) = InOrder(SoFar(stack[k + 1])))'
  <2>1. stack'[k + 1] = here
    OBVIOUS
  <2>2. Exact(stack[k + 1].node)' => Exact(Top.node)
    BY <2>1 DEF Exact, Whole
  <2>3. SoFar(stack[k + 1])' = SoFar(here)
    BY <2>1 DEF SoFar, Numbers
  <2>4. Cells(heap, stack[k + 1].acc)' = Cells(heap', here.acc)
    BY <2>1 DEF Cells
  <2> QED BY <2>1, <2>2, <2>3, <2>4
<1>5. \A n \in Callers' : n \in 1..k \/ n = k + 1
  BY <1>1
<1>6. \A n \in Callers' :
        (Exact(stack[n].node) /\ (Nodes[stack[n].node].op # "not" => stack[n].done > 0) =>
           Cells(heap, stack[n].acc) = InOrder(SoFar(stack[n])))'
  BY <1>3, <1>4, <1>5
<1> QED BY <1>6 DEF ContentInv

-----------------------------------------------------------------------------
(* One lemma for each kind of step.                                        *)

\* Another slice in place of what is in an array, and one that grows.
LEMMA AppendGrows ==
  ASSUME NEW h, NEW vals, h \in Seq(Seq(Int)), vals \in Seq(Int)
  PROVE  Grows(h, Append(h, vals), {}) /\ Append(h, vals)[Len(h) + 1] = vals
BY DEF Grows

LEMMA TermStep ==
  ASSUME IndexInv, CallsInv, EvalTerm
  PROVE  CallsInv' /\ HeapStep
<1> DEFINE q == Top.node
           ids == DocsOf(Here.lex)
           cap == IF tmp.arr = 0 THEN 0 ELSE Len(heap[tmp.arr])
<1>1. /\ mode = "eval" /\ stack # <<>> /\ q \in Trees /\ Nodes[q].op = "term"
      /\ Nodes[q].lex \in Terms /\ Here = Nodes[q]
  <2>1. mode = "eval" /\ stack # <<>> /\ Here.op = "term" /\ Here = Nodes[q]
    BY DEF EvalTerm, CallsInv, StackInv, Here
  <2>2. q \in Trees
    BY <2>1, BelowFacts DEF CallsInv
  <2> QED BY <2>1, <2>2, NodesAssumption
<1>2. /\ ids \in Seq(Int) /\ Len(ids) \in Nat
      /\ Exact(q) => ids = InOrder(Sat(q))
  BY <1>1, PostingFacts, LeafExact DEF Inner
<1>3. /\ heap \in Seq(Seq(Int)) /\ Len(heap) \in Nat /\ IsSlice(heap, tmp)
      /\ tmp.arr \in Nat /\ (tmp.arr # 0 => tmp.arr \in 1..Len(heap))
      /\ tmp.arr \in Overwritable /\ tmp = [arr |-> tmp.arr, len |-> tmp.len]
  BY DEF CallsInv, HeapInv, IsSlice, Slices, Overwritable
<1>4. cap \in Nat /\ (cap # 0 => tmp.arr \in 1..Len(heap) /\ cap = Len(heap[tmp.arr]))
  BY <1>3
<1>5. /\ stack' = Below /\ mode' = "return" /\ call' = call
      /\ docs' = docs /\ texts' = texts /\ ram' = ram
      /\ \/ /\ ids = <<>> /\ ret' = Nil /\ heap' = heap /\ tmp' = tmp
         \/ /\ ids # <<>> /\ Len(ids) <= cap
            /\ heap' = [heap EXCEPT ![tmp.arr] = Overwritten(@, ids)]
            /\ tmp' = [tmp EXCEPT !.len = Len(ids)]
            /\ ret' = tmp'
         \/ /\ Len(ids) > cap
            /\ \E spare \in {<<>>, <<0>>} :
                 heap' = Append(IF cap = 0 THEN heap
                                ELSE [heap EXCEPT ![tmp.arr] = SubSeq(ids, 1, cap)],
                                ids \o spare)
            /\ tmp' = [arr |-> Len(heap) + 1, len |-> Len(ids)]
            /\ ret' = tmp'
  BY DEF EvalTerm, indexVars
<1> HIDE DEF ids, cap
<1>6. /\ Grows(heap, heap', Overwritable)
      /\ IsSlice(heap', tmp') /\ IsSlice(heap', ret') /\ Cells(heap', ret') = ids
      /\ tmp'.arr = tmp.arr \/ tmp'.arr > Len(heap)
  <2>1. CASE ids = <<>> /\ ret' = Nil /\ heap' = heap /\ tmp' = tmp
    BY <1>3, <2>1 DEF Grows, IsSlice, Slices, Nil, Cells
  <2>2. CASE /\ ids # <<>> /\ Len(ids) <= cap
             /\ heap' = [heap EXCEPT ![tmp.arr] = Overwritten(@, ids)]
             /\ tmp' = [tmp EXCEPT !.len = Len(ids)]
             /\ ret' = tmp'
    <3>1. tmp.arr \in 1..Len(heap) /\ Len(ids) <= Len(heap[tmp.arr])
      BY <1>2, <1>4, <2>2
    <3>2. tmp' = [arr |-> tmp.arr, len |-> Len(ids)] /\ tmp'.arr = tmp.arr
      BY <1>3, <2>2
    <3>3. /\ Grows(heap, heap', {tmp.arr}) /\ IsSlice(heap', tmp')
          /\ Cells(heap', tmp') = ids
      <4>1. PICK a \in 1..Len(heap) : a = tmp.arr
        BY <3>1
      <4>2. LET h2 == [heap EXCEPT ![a] = Overwritten(@, ids)]
                s == [arr |-> a, len |-> Len(ids)]
            IN Grows(heap, h2, {a}) /\ IsSlice(h2, s) /\ Cells(h2, s) = ids
        BY <1>2, <1>3, <3>1, <4>1, WriteFacts
      <4>3. heap' = [heap EXCEPT ![a] = Overwritten(@, ids)]
        BY <2>2, <4>1
      <4>4. tmp' = [arr |-> a, len |-> Len(ids)]
        BY <3>2, <4>1
      <4> QED BY <4>1, <4>2, <4>3, <4>4
    <3>4. Grows(heap, heap', Overwritable)
      BY <1>3, <3>3 DEF Grows
    <3> QED BY <2>2, <3>2, <3>3, <3>4
  <2>3. CASE /\ Len(ids) > cap
             /\ \E spare \in {<<>>, <<0>>} :
                  heap' = Append(IF cap = 0 THEN heap
                                 ELSE [heap EXCEPT ![tmp.arr] = SubSeq(ids, 1, cap)],
                                 ids \o spare)
             /\ tmp' = [arr |-> Len(heap) + 1, len |-> Len(ids)]
             /\ ret' = tmp'
    <3>1. PICK spare \in {<<>>, <<0>>} :
            heap' = Append(IF cap = 0 THEN heap
                           ELSE [heap EXCEPT ![tmp.arr] = SubSeq(ids, 1, cap)],
                           ids \o spare)
      BY <2>3
    <3> DEFINE old == SubSeq(ids, 1, cap)
               h == IF cap = 0 THEN heap ELSE [heap EXCEPT ![tmp.arr] = old]
               all == ids \o spare
    <3>2. h \in Seq(Seq(Int)) /\ Len(h) = Len(heap) /\ Grows(heap, h, {tmp.arr})
      <4>1. CASE cap = 0
        BY <1>3, <4>1 DEF Grows
      <4>2. CASE cap # 0
        <5>1. old \in Seq(Int) /\ Len(old) = cap
          BY <1>2, <1>4, <2>3
        <5> HIDE DEF old
        <5> QED BY <1>3, <1>4, <4>2, <5>1 DEF Grows
      <4> QED BY <4>1, <4>2
    <3>3. all \in Seq(Int) /\ Len(all) \in Nat /\ Len(ids) <= Len(all)
          /\ SubSeq(all, 1, Len(ids)) = ids
      <4>1. spare \in Seq(Int) /\ Len(spare) \in Nat
        <5>1. CASE spare = <<>>
          BY <5>1
        <5>2. CASE spare = <<0>>
          <6>1. <<0>> \in Seq(Int) /\ Len(<<0>>) = 1
            OBVIOUS
          <6> QED BY <5>2, <6>1
        <5> QED BY <3>1, <5>1, <5>2
      <4> QED BY <1>2, <4>1, SubSeqOfConcat1
    <3>4. heap' = Append(h, all)
      BY <3>1
    <3> HIDE DEF h, all
    <3>5. Grows(h, heap', {}) /\ heap'[Len(heap) + 1] = all /\ heap' \in Seq(Seq(Int))
          /\ Len(heap') = Len(heap) + 1
      BY <3>2, <3>3, <3>4, AppendGrows
    <3>6. Grows(heap, heap', {tmp.arr})
      <4>1. Grows(heap, heap', {tmp.arr} \cup {})
        BY <1>3, <3>2, <3>5, GrowsOn
      <4> QED BY <4>1
    <3>7. Grows(heap, heap', Overwritable)
      BY <1>3, <3>6 DEF Grows
    <3>8. tmp' \in Slices /\ tmp'.arr = Len(heap) + 1 /\ tmp'.len = Len(ids)
      BY <1>2, <1>3, <2>3 DEF Slices
    <3>9. IsSlice(heap', tmp')
      BY <1>3, <3>3, <3>5, <3>8 DEF IsSlice
    <3>10. Cells(heap', tmp') = ids
      BY <1>3, <3>3, <3>5, <3>8 DEF Cells
    <3>11. tmp'.arr > Len(heap)
      BY <1>3, <3>8
    <3> QED BY <2>3, <3>7, <3>9, <3>10, <3>11
  <2> QED BY <1>5, <2>1, <2>2, <2>3
<1>7. StackInv' /\ HeapInv' /\ AliasInv' /\ HeapStep /\ Returned' = Top.node
  BY <1>1, <1>5, <1>6, PopKeeps DEF CallsInv
<1>8. ContentInv'
  BY <1>1, <1>2, <1>5, <1>6, <1>7, PopContent DEF CallsInv
<1> QED BY <1>7, <1>8 DEF CallsInv

\* A call returns a new slice with the given contents.
LEMMA FinishStep ==
  ASSUME CallsInv, mode # "idle", stack # <<>>,
         NEW h, NEW vals, Grows(heap, h, Overwritable), vals \in Seq(Int),
         LET res == Fresh(h, vals) IN heap' = res.heap /\ ret' = res.slice,
         stack' = Below, mode' = "return", call' = call, tmp' = tmp,
         docs' = docs, texts' = texts, ram' = ram,
         Exact(Top.node) => vals = InOrder(Sat(Top.node))
  PROVE  CallsInv' /\ HeapStep
<1> DEFINE res == Fresh(h, vals)
<1>1. heap \in Seq(Seq(Int)) /\ h \in Seq(Seq(Int)) /\ Len(heap) \in Nat /\ Len(h) \in Nat
      /\ Len(heap) <= Len(h)
  BY DEF CallsInv, HeapInv, Grows
<1>2. /\ Grows(h, res.heap, {}) /\ IsSlice(res.heap, res.slice)
      /\ Cells(res.heap, res.slice) = vals
      /\ res.slice.arr = 0 \/ res.slice.arr > Len(h)
  BY <1>1, FreshFacts
<1>3. heap' = res.heap /\ ret' = res.slice
  OBVIOUS
<1> HIDE DEF res
<1>4. Grows(heap, heap', Overwritable)
  <2>1. Grows(heap, heap', Overwritable \cup {})
    BY <1>1, <1>2, <1>3, GrowsOn
  <2> QED BY <2>1
<1>5. ret'.arr = 0 \/ ret'.arr > Len(heap)
  <2>1. ret'.arr \in Nat
    BY <1>2, <1>3 DEF IsSlice, Slices
  <2> QED BY <1>1, <1>2, <1>3, <2>1
<1>6. IsSlice(heap', tmp')
  BY <1>1, <1>4, GrowsKeeps DEF CallsInv, HeapInv
<1>7. StackInv' /\ HeapInv' /\ AliasInv' /\ HeapStep /\ Returned' = Top.node
  BY <1>2, <1>3, <1>4, <1>5, <1>6, PopKeeps DEF CallsInv
<1>8. ContentInv'
  BY <1>2, <1>3, <1>7, PopContent DEF CallsInv
<1> QED BY <1>7, <1>8 DEF CallsInv

LEMMA LeafStep ==
  ASSUME IndexInv, CallsInv, EvalLeaf
  PROVE  CallsInv' /\ HeapStep
<1>1. mode = "eval" /\ stack # <<>> /\ Here = Nodes[Top.node] /\ Top.node \in Trees
  <2>1. mode = "eval" /\ stack # <<>> /\ Here = Nodes[Top.node]
    BY DEF EvalLeaf, CallsInv, StackInv, Here
  <2> QED BY <2>1, BelowFacts DEF CallsInv
<1>2. Nodes[Top.node].op \notin Inner \cup {"term"}
  BY <1>1 DEF EvalLeaf
<1>3. LeafDocs(Here) \in Seq(Int)
  BY <1>1, <1>2, LeafType
<1>4. Exact(Top.node) => LeafDocs(Here) = InOrder(Sat(Top.node))
  BY <1>1, <1>2, LeafExact
<1>5. Grows(heap, heap, Overwritable)
  BY DEF Grows, CallsInv, HeapInv
<1>6. /\ LET res == Fresh(heap, LeafDocs(Here)) IN heap' = res.heap /\ ret' = res.slice
      /\ stack' = Below /\ mode' = "return" /\ call' = call /\ tmp' = tmp
      /\ docs' = docs /\ texts' = texts /\ ram' = ram
  BY DEF EvalLeaf, indexVars
<1> QED BY <1>1, <1>3, <1>4, <1>5, <1>6, FinishStep

\* What a call that calls for a branch leaves behind.
LEMMA PushStep ==
  ASSUME CallsInv, mode # "idle", stack # <<>>,
         NEW here \in Frames, here.node = Top.node, Waiting(here), here.dst = tmp,
         here.acc.arr = 0 \/ here.acc.arr > Len(heap), IsSlice(heap', here.acc),
         Grows(heap, heap', Overwritable),
         stack' = Append(Append(Below, here), Frame(Child(here))), mode' = "eval",
         call' = call, tmp' = tmp, ret' = ret,
         docs' = docs, texts' = texts, ram' = ram,
         Exact(Top.node) /\ (Nodes[Top.node].op # "not" => here.done > 0) =>
           Cells(heap', here.acc) = InOrder(SoFar(here))
  PROVE  CallsInv' /\ HeapStep
<1>1. /\ StackInv' /\ HeapInv' /\ AliasInv' /\ HeapStep
      /\ Len(stack') = Len(stack) + 1 /\ stack'[Len(stack)] = here
      /\ \A n \in 1..(Len(stack) - 1) : stack'[n] = stack[n]
  BY PushKeeps DEF CallsInv
<1>2. ContentInv'
  BY <1>1, PushContent DEF CallsInv
<1> QED BY <1>1, <1>2 DEF CallsInv

LEMMA DescendStep ==
  ASSUME IndexInv, CallsInv, Descend
  PROVE  CallsInv' /\ HeapStep
<1> DEFINE not == Here.op = "not"
           vals == IF not THEN AllDocIDs ELSE <<>>
           all == Fresh(heap, vals)
           here == [Top EXCEPT !.acc = all.slice, !.dst = tmp]
<1>1. /\ mode = "eval" /\ stack # <<>> /\ Here = Nodes[Top.node] /\ Here.op \in Inner
      /\ Top \in Frames /\ Top.node \in Trees /\ Top = Frame(Top.node)
  <2>1. mode = "eval" /\ stack # <<>> /\ Here = Nodes[Top.node] /\ Here.op \in Inner
    BY DEF Descend, CallsInv, StackInv, Here
  <2> QED BY <2>1, BelowFacts DEF CallsInv, StackInv
<1>2. Top.done = 0 /\ here.done = 0 /\ here.node = Top.node
      /\ here.acc = all.slice /\ here.dst = tmp
  BY <1>1 DEF Frames, Frame
<1>3. heap \in Seq(Seq(Int)) /\ tmp \in Slices /\ Len(heap) \in Nat
  BY DEF CallsInv, HeapInv, IsSlice
<1>4. vals \in Seq(Int)
  <2>1. <<>> \in Seq(Int)
    OBVIOUS
  <2> QED BY <2>1, AllDocIDsExact
<1>5. /\ heap' = all.heap /\ stack' = Append(Append(Below, here), Frame(Here.kids[1]))
      /\ mode' = "eval" /\ call' = call /\ tmp' = tmp /\ ret' = ret
      /\ docs' = docs /\ texts' = texts /\ ram' = ram
  BY <1>1 DEF Descend
<1>6. /\ Grows(heap, all.heap, {}) /\ IsSlice(all.heap, all.slice)
      /\ Cells(all.heap, all.slice) = vals
      /\ all.slice.arr = 0 \/ all.slice.arr > Len(heap)
  <2> HIDE DEF vals
  <2> QED BY <1>3, <1>4, FreshFacts
<1>7. here \in Frames
  <2>1. all.slice \in Slices
    BY <1>6 DEF IsSlice
  <2> HIDE DEF all
  <2> QED BY <1>1, <1>3, <2>1 DEF Frames
<1>8. Child(here) = Here.kids[1]
  BY <1>1, <1>2 DEF Child
<1>9. Waiting(here)
  BY <1>1, <1>2, Branches DEF Waiting
<1>10. Grows(heap, heap', Overwritable)
  BY <1>5, <1>6 DEF Grows
<1>11. ASSUME Nodes[Top.node].op # "not" => here.done > 0
       PROVE  Cells(heap', here.acc) = InOrder(SoFar(here))
  <2>1. Here.op = "not"
    BY <1>1, <1>2, <1>11
  <2>2. vals = InOrder(Numbers)
    BY <2>1, AllDocIDsExact
  <2>3. SoFar(here) = Numbers
    BY <1>1, <1>2, <2>1 DEF SoFar
  <2> QED BY <1>2, <1>5, <1>6, <2>2, <2>3
<1> HIDE DEF here, all
<1> QED BY <1>1, <1>2, <1>5, <1>6, <1>7, <1>8, <1>9, <1>10, <1>11, PushStep

\* A slice of numbers as a set, and what is made of two of them.
LEMMA CellSets ==
  ASSUME NEW s \in Seq(Int), NEW t \in Seq(Int)
  PROVE  /\ InOrder(ToSet(s) \ ToSet(t)) \in Seq(Int)
         /\ InOrder(ToSet(s) \cup ToSet(t)) \in Seq(Int)
         /\ InOrder(ToSet(s) \cap ToSet(t)) \in Seq(Int)
<1>1. ASSUME NEW u \in Seq(Int) PROVE ToSet(u) \in SUBSET Int /\ IsFiniteSet(ToSet(u))
  <2>1. Len(u) \in Nat /\ DOMAIN u = 1..Len(u) /\ \A m \in 1..Len(u) : u[m] \in Int
    OBVIOUS
  <2>2. ToSet(u) \in SUBSET Int
    BY <2>1 DEF ToSet
  <2>3. IsFiniteSet(1..Len(u))
    <3>1. 1 \in Int /\ Len(u) \in Int
      BY <2>1
    <3> QED BY <3>1, FS_Interval
  <2>4. u \in Surjection(1..Len(u), ToSet(u))
    <3>1. u \in [1..Len(u) -> ToSet(u)]
      BY <2>1 DEF ToSet
    <3> QED BY <2>1, <3>1 DEF Surjection, ToSet
  <2> QED BY <2>2, <2>3, <2>4, FS_Surjection
<1> DEFINE A == ToSet(s)
           B == ToSet(t)
<1>2. A \cup B \in SUBSET Int /\ IsFiniteSet(A \cup B)
  BY <1>1, FS_Union
<1>3. A \ B \in SUBSET (A \cup B) /\ A \cap B \in SUBSET (A \cup B)
  OBVIOUS
<1>4. A \cup B \in SUBSET (A \cup B)
  OBVIOUS
<1> HIDE DEF A, B
<1>5. /\ InOrder(A \ B) \in Seq(Int) /\ InOrder(A \cup B) \in Seq(Int)
      /\ InOrder(A \cap B) \in Seq(Int)
  BY <1>2, <1>3, <1>4, InOrderSubset
<1> QED BY <1>5 DEF A, B

LEMMA InOrderSet ==
  ASSUME IndexInv, NEW A \in SUBSET Numbers
  PROVE  ToSet(InOrder(A)) = A
<1>1. A \in SUBSET Int /\ IsFiniteSet(A)
  BY NumbersFacts, FS_Subset
<1>2. InOrder(A) \in Seq(A) /\ {InOrder(A)[m] : m \in 1..Len(InOrder(A))} = A
  BY <1>1, InOrderAscends
<1>3. DOMAIN InOrder(A) = 1..Len(InOrder(A))
  BY <1>2
<1> QED BY <1>2, <1>3 DEF ToSet

\* An inner node whose value is exact has exact branches.
LEMMA BranchExact ==
  ASSUME NEW q \in Trees, Nodes[q].op \in Inner, Exact(q), NEW m \in 1..Len(Nodes[q].kids)
  PROVE  Exact(Nodes[q].kids[m])
BY DisputedUnfolds, NeedsTextsUnfolds DEF Exact

LEMMA InnerSat ==
  ASSUME NEW q \in Trees, Nodes[q].op \in Inner
  PROVE  /\ Nodes[q].op = "not" => Sat(q) = Numbers \ Sat(Nodes[q].kids[1])
         /\ Nodes[q].op = "or" => Sat(q) = Sat(Nodes[q].kids[1]) \cup Sat(Nodes[q].kids[2])
         /\ Nodes[q].op = "and" =>
              Sat(q) = {d \in Numbers : \A m \in 1..Len(Nodes[q].kids) :
                                          Holds(texts[d + 1], Nodes[q].kids[m])}
<1>1. CASE Nodes[q].op = "not"
  BY <1>1, HoldsUnfolds DEF Sat
<1>2. CASE Nodes[q].op = "or"
  BY <1>2, HoldsUnfolds DEF Sat
<1>3. CASE Nodes[q].op = "and"
  BY <1>3, HoldsUnfolds DEF Sat
<1> QED BY <1>1, <1>2, <1>3 DEF Inner

\* The state in which a branch has returned to the call that waits for it.
LEMMA ReturningFacts ==
  ASSUME CallsInv, mode = "return", stack # <<>>
  PROVE  /\ Top \in Frames /\ Top.node \in Trees /\ Here = Nodes[Top.node]
         /\ Waiting(Top) /\ Returned = Child(Top) /\ Here.op \in Inner
         /\ Top.done + 1 \in 1..Len(Here.kids)
         /\ heap \in Seq(Seq(Int)) /\ IsSlice(heap, ret) /\ IsSlice(heap, Top.acc)
         /\ Top.acc.arr = 0 \/ Top.acc.arr \notin Overwritable
         /\ Exact(Top.node) /\ (Here.op # "not" => Top.done > 0) =>
              Cells(heap, Top.acc) = InOrder(SoFar(Top))
         /\ Exact(Top.node) => Cells(heap, ret) = InOrder(Sat(Child(Top)))
<1>1. /\ Top \in Frames /\ Top = stack[Len(stack)] /\ Len(stack) \in Nat /\ Len(stack) >= 1
      /\ Top.node \in Trees /\ Here = Nodes[Top.node]
  BY BelowFacts DEF CallsInv, Here
<1>2. Len(stack) \in Callers /\ Len(stack) \in 1..Len(stack)
  BY <1>1 DEF Callers
<1>3. Waiting(Top)
  BY <1>1, <1>2 DEF CallsInv, StackInv
<1>4. Here.op \in Inner /\ Top.done + 1 \in 1..Len(Here.kids)
  BY <1>1, <1>3, Branches DEF Waiting
<1>5. Returned = Child(Top)
  <2>1. Len(stack) + 1 # 1 /\ Len(stack) + 1 - 1 = Len(stack)
    BY <1>1
  <2> QED BY <1>1, <2>1 DEF Returned, Wanted
<1>6. /\ heap \in Seq(Seq(Int)) /\ IsSlice(heap, ret) /\ IsSlice(heap, Top.acc)
      /\ Top.acc.arr = 0 \/ Top.acc.arr \notin Overwritable
  BY <1>1, <1>2 DEF CallsInv, HeapInv, AliasInv, Kept
<1>7. Exact(Top.node) /\ (Here.op # "not" => Top.done > 0) =>
        Cells(heap, Top.acc) = InOrder(SoFar(Top))
  BY <1>1, <1>2 DEF CallsInv, ContentInv
<1>8. Exact(Top.node) => Exact(Child(Top))
  BY <1>1, <1>4, BranchExact DEF Child
<1>9. Exact(Top.node) => Cells(heap, ret) = InOrder(Sat(Child(Top)))
  BY <1>5, <1>8 DEF CallsInv, ContentInv
<1> QED BY <1>1, <1>3, <1>4, <1>5, <1>6, <1>7, <1>9

\* The branch's result is copied to where tmp is or was; what the call holds
\* is not there.
LEMMA CopyRight ==
  ASSUME CallsInv, mode = "return", stack # <<>>, NEW dst \in Targets
  PROVE  LET r == CopyTo(heap, dst, Cells(heap, ret)) IN
         /\ Grows(heap, r.heap, Overwritable)
         /\ Cells(r.heap, Top.acc) = Cells(heap, Top.acc) /\ Cells(heap, Top.acc) \in Seq(Int)
         /\ Cells(r.heap, r.slice) = Cells(heap, ret) /\ Cells(heap, ret) \in Seq(Int)
<1> DEFINE r == CopyTo(heap, dst, Cells(heap, ret))
<1>1. /\ heap \in Seq(Seq(Int)) /\ IsSlice(heap, ret) /\ IsSlice(heap, Top.acc)
      /\ Top.acc.arr = 0 \/ Top.acc.arr \notin Overwritable
  BY ReturningFacts
<1>2. Cells(heap, ret) \in Seq(Int) /\ Cells(heap, Top.acc) \in Seq(Int)
  BY <1>1, CellsType
<1>3. IsSlice(heap, dst) /\ dst.arr \in Overwritable
  <2>1. Top = stack[Len(stack)] /\ Len(stack) \in 1..Len(stack)
    BY BelowFacts DEF CallsInv
  <2> QED BY <2>1 DEF CallsInv, HeapInv, Targets, Overwritable
<1>4. /\ Grows(heap, r.heap, {dst.arr})
      /\ Cells(r.heap, r.slice) = Cells(heap, ret)
  BY <1>1, <1>2, <1>3, CopyFacts
<1> HIDE DEF r
<1>5. Grows(heap, r.heap, Overwritable)
  BY <1>3, <1>4 DEF Grows
<1>6. Cells(r.heap, Top.acc) = Cells(heap, Top.acc)
  BY <1>1, <1>5, GrowsKeeps
<1> QED BY <1>2, <1>4, <1>5, <1>6 DEF r

LEMMA SatNumbers ==
  ASSUME IndexInv
  PROVE  /\ \A q : Sat(q) \in SUBSET Numbers
         /\ \A f : SoFar(f) \in SUBSET Numbers
BY DEF Sat, SoFar

LEMMA NotStep ==
  ASSUME IndexInv, CallsInv, ResumeNot
  PROVE  CallsInv' /\ HeapStep
<1>1. mode = "return" /\ stack # <<>> /\ Here.op = "not" /\ Top.done = 0
  BY DEF ResumeNot, Returning
<1>2. /\ Top \in Frames /\ Top.node \in Trees /\ Here = Nodes[Top.node]
      /\ Exact(Top.node) => Cells(heap, Top.acc) = InOrder(SoFar(Top))
      /\ Exact(Top.node) => Cells(heap, ret) = InOrder(Sat(Child(Top)))
  BY <1>1, ReturningFacts
<1>3. PICK dst \in Targets :
        LET child == CopyTo(heap, dst, Cells(heap, ret)) IN
          Finish(child.heap, InOrder(ToSet(Cells(child.heap, Top.acc)) \
                                       ToSet(Cells(child.heap, child.slice))))
  BY DEF ResumeNot
<1> DEFINE child == CopyTo(heap, dst, Cells(heap, ret))
           vals == InOrder(ToSet(Cells(heap, Top.acc)) \ ToSet(Cells(heap, ret)))
<1>4. /\ Grows(heap, child.heap, Overwritable)
      /\ Cells(child.heap, Top.acc) = Cells(heap, Top.acc) /\ Cells(heap, Top.acc) \in Seq(Int)
      /\ Cells(child.heap, child.slice) = Cells(heap, ret) /\ Cells(heap, ret) \in Seq(Int)
  BY <1>1, CopyRight
<1>5. Finish(child.heap, vals)
  BY <1>3, <1>4
<1>6. vals \in Seq(Int)
  BY <1>4, CellSets
<1>7. ASSUME Exact(Top.node) PROVE vals = InOrder(Sat(Top.node))
  <2>1. SoFar(Top) = Numbers /\ Child(Top) = Nodes[Top.node].kids[1]
    BY <1>1, <1>2 DEF SoFar, Child
  <2>2. ToSet(Cells(heap, Top.acc)) = Numbers
    BY <1>2, <1>7, <2>1, InOrderSet
  <2>3. ToSet(Cells(heap, ret)) = Sat(Nodes[Top.node].kids[1])
    BY <1>2, <1>7, <2>1, InOrderSet, SatNumbers
  <2>4. Sat(Top.node) = Numbers \ Sat(Nodes[Top.node].kids[1])
    BY <1>1, <1>2, InnerSat DEF Inner
  <2> QED BY <2>2, <2>3, <2>4
<1> HIDE DEF vals
<1>8. /\ LET res == Fresh(child.heap, vals) IN heap' = res.heap /\ ret' = res.slice
      /\ stack' = Below /\ mode' = "return" /\ call' = call /\ tmp' = tmp
      /\ docs' = docs /\ texts' = texts /\ ram' = ram
  BY <1>1, <1>5 DEF Finish, indexVars
<1> HIDE DEF child
<1> QED BY <1>1, <1>4, <1>6, <1>7, <1>8, FinishStep

LEMMA OrStep ==
  ASSUME IndexInv, CallsInv, ResumeOr
  PROVE  CallsInv' /\ HeapStep
<1>1. mode = "return" /\ stack # <<>> /\ Here.op = "or" /\ Top.done = 1
  BY DEF ResumeOr, Returning
<1>2. /\ Top \in Frames /\ Top.node \in Trees /\ Here = Nodes[Top.node]
      /\ Exact(Top.node) => Cells(heap, Top.acc) = InOrder(SoFar(Top))
      /\ Exact(Top.node) => Cells(heap, ret) = InOrder(Sat(Child(Top)))
  BY <1>1, ReturningFacts
<1>3. PICK dst \in Targets :
        LET right == CopyTo(heap, dst, Cells(heap, ret)) IN
          Finish(right.heap, InOrder(ToSet(Cells(right.heap, Top.acc)) \cup
                                       ToSet(Cells(right.heap, right.slice))))
  BY DEF ResumeOr
<1> DEFINE right == CopyTo(heap, dst, Cells(heap, ret))
           vals == InOrder(ToSet(Cells(heap, Top.acc)) \cup ToSet(Cells(heap, ret)))
<1>4. /\ Grows(heap, right.heap, Overwritable)
      /\ Cells(right.heap, Top.acc) = Cells(heap, Top.acc) /\ Cells(heap, Top.acc) \in Seq(Int)
      /\ Cells(right.heap, right.slice) = Cells(heap, ret) /\ Cells(heap, ret) \in Seq(Int)
  BY <1>1, CopyRight
<1>5. Finish(right.heap, vals)
  BY <1>3, <1>4
<1>6. vals \in Seq(Int)
  BY <1>4, CellSets
<1>7. ASSUME Exact(Top.node) PROVE vals = InOrder(Sat(Top.node))
  <2>1. SoFar(Top) = Sat(Nodes[Top.node].kids[1]) /\ Child(Top) = Nodes[Top.node].kids[2]
    BY <1>1, <1>2 DEF SoFar, Child, Sat
  <2>2. ToSet(Cells(heap, Top.acc)) = Sat(Nodes[Top.node].kids[1])
    BY <1>2, <1>7, <2>1, InOrderSet, SatNumbers
  <2>3. ToSet(Cells(heap, ret)) = Sat(Nodes[Top.node].kids[2])
    BY <1>2, <1>7, <2>1, InOrderSet, SatNumbers
  <2>4. Sat(Top.node) = Sat(Nodes[Top.node].kids[1]) \cup Sat(Nodes[Top.node].kids[2])
    BY <1>1, <1>2, InnerSat DEF Inner
  <2> QED BY <2>2, <2>3, <2>4
<1> HIDE DEF vals
<1>8. /\ LET res == Fresh(right.heap, vals) IN heap' = res.heap /\ ret' = res.slice
      /\ stack' = Below /\ mode' = "return" /\ call' = call /\ tmp' = tmp
      /\ docs' = docs /\ texts' = texts /\ ram' = ram
  BY <1>1, <1>5 DEF Finish, indexVars
<1> HIDE DEF right
<1> QED BY <1>1, <1>4, <1>6, <1>7, <1>8, FinishStep

LEMMA FirstStep ==
  ASSUME IndexInv, CallsInv, ResumeFirst
  PROVE  CallsInv' /\ HeapStep
<1> DEFINE acc == Fresh(heap, Cells(heap, ret))
           here == [Top EXCEPT !.acc = acc.slice, !.done = 1, !.dst = tmp]
<1>1. mode = "return" /\ stack # <<>> /\ Here.op \in {"and", "or"} /\ Top.done = 0
  BY DEF ResumeFirst, Returning
<1>2. /\ Top \in Frames /\ Top.node \in Trees /\ Here = Nodes[Top.node]
      /\ heap \in Seq(Seq(Int)) /\ IsSlice(heap, ret) /\ Here.op \in Inner
      /\ Exact(Top.node) => Cells(heap, ret) = InOrder(Sat(Child(Top)))
  BY <1>1, ReturningFacts
<1>3. /\ heap' = acc.heap /\ stack' = Append(Append(Below, here), Frame(Here.kids[2]))
      /\ mode' = "eval" /\ call' = call /\ tmp' = tmp /\ ret' = ret
      /\ docs' = docs /\ texts' = texts /\ ram' = ram
  BY DEF ResumeFirst, indexVars
<1>4. Cells(heap, ret) \in Seq(Int)
  BY <1>2, CellsType
<1>5. /\ Grows(heap, acc.heap, {}) /\ IsSlice(acc.heap, acc.slice)
      /\ Cells(acc.heap, acc.slice) = Cells(heap, ret)
      /\ acc.slice.arr = 0 \/ acc.slice.arr > Len(heap)
  BY <1>2, <1>4, FreshFacts
<1>6. here.node = Top.node /\ here.acc = acc.slice /\ here.done = 1 /\ here.dst = tmp
  BY <1>2 DEF Frames
<1>7. here \in Frames
  <2>1. acc.slice \in Slices /\ tmp \in Slices
    BY <1>5 DEF IsSlice, CallsInv, HeapInv
  <2> HIDE DEF acc
  <2> QED BY <1>2, <2>1 DEF Frames
<1>8. Waiting(here)
  <2>1. Len(Here.kids) \in Nat /\ Len(Here.kids) >= 2
    <3>1. CASE Here.op = "and"
      BY <1>2, <3>1, Branches
    <3>2. CASE Here.op = "or"
      <4>1. Len(Here.kids) = 2
        BY <1>2, <3>2, Branches
      <4> QED BY <4>1
    <3> QED BY <1>1, <3>1, <3>2
  <2> HIDE DEF here
  <2> QED BY <1>2, <1>6, <2>1 DEF Waiting
<1>9. Child(here) = Here.kids[2]
  BY <1>2, <1>6 DEF Child
<1>10. Grows(heap, heap', Overwritable)
  BY <1>3, <1>5 DEF Grows
<1>11. ASSUME Exact(Top.node) PROVE Cells(heap', here.acc) = InOrder(SoFar(here))
  <2>1. Child(Top) = Nodes[Top.node].kids[1]
    BY <1>1, <1>2 DEF Child
  <2> HIDE DEF here
  <2>2. SoFar(here) = Sat(Nodes[Top.node].kids[1])
    BY <1>1, <1>2, <1>6 DEF SoFar, Sat
  <2> QED BY <1>2, <1>3, <1>5, <1>6, <1>11, <2>1, <2>2
<1> HIDE DEF here, acc
<1> QED BY <1>1, <1>3, <1>5, <1>6, <1>7, <1>8, <1>9, <1>10, <1>11, PushStep

LEMMA AndStep ==
  ASSUME IndexInv, CallsInv, ResumeAnd
  PROVE  CallsInv' /\ HeapStep
<1> DEFINE both == InOrder(ToSet(Cells(heap, Top.acc)) \cap ToSet(Cells(heap, ret)))
           next == Top.done + 2
           S == {d \in Numbers : \A m \in 1..(Top.done + 1) :
                                   Holds(texts[d + 1], Here.kids[m])}
<1>1. mode = "return" /\ stack # <<>> /\ Here.op = "and" /\ Top.done > 0
  BY DEF ResumeAnd
<1>2. /\ Top \in Frames /\ Top.node \in Trees /\ Here = Nodes[Top.node]
      /\ heap \in Seq(Seq(Int)) /\ Here.op \in Inner
      /\ Top.done + 1 \in 1..Len(Here.kids) /\ Top.done \in Nat /\ Len(Here.kids) \in Nat
      /\ Exact(Top.node) => Cells(heap, Top.acc) = InOrder(SoFar(Top))
      /\ Exact(Top.node) => Cells(heap, ret) = InOrder(Sat(Child(Top)))
  BY <1>1, ReturningFacts, Branches DEF Frames
<1>3. PICK dst \in Targets :
        LET right == CopyTo(heap, dst, Cells(heap, ret))
            b     == InOrder(ToSet(Cells(right.heap, Top.acc)) \cap
                               ToSet(Cells(right.heap, right.slice)))
            acc   == Fresh(right.heap, b)
        IN IF b = <<>> \/ next > Len(Here.kids)
           THEN Finish(right.heap, b)
           ELSE /\ heap' = acc.heap
                /\ stack' = Append(Append(Below,
                              [Top EXCEPT !.acc = acc.slice, !.done = @ + 1, !.dst = tmp]),
                              Frame(Here.kids[next]))
                /\ mode' = "eval"
                /\ UNCHANGED <<indexVars, ram, tmp, ret, call, given>>
  BY DEF ResumeAnd
<1> DEFINE right == CopyTo(heap, dst, Cells(heap, ret))
           acc == Fresh(right.heap, both)
           here == [Top EXCEPT !.acc = acc.slice, !.done = @ + 1, !.dst = tmp]
<1>4. /\ Grows(heap, right.heap, Overwritable)
      /\ Cells(right.heap, Top.acc) = Cells(heap, Top.acc) /\ Cells(heap, Top.acc) \in Seq(Int)
      /\ Cells(right.heap, right.slice) = Cells(heap, ret) /\ Cells(heap, ret) \in Seq(Int)
  BY <1>1, CopyRight
<1>5. IF both = <<>> \/ next > Len(Here.kids)
      THEN Finish(right.heap, both)
      ELSE /\ heap' = acc.heap
           /\ stack' = Append(Append(Below, here), Frame(Here.kids[next]))
           /\ mode' = "eval"
           /\ UNCHANGED <<indexVars, ram, tmp, ret, call, given>>
  BY <1>3, <1>4
<1>6. both \in Seq(Int)
  BY <1>4, CellSets
<1>7. ASSUME Exact(Top.node) PROVE both = InOrder(S)
  <2>1. ToSet(Cells(heap, Top.acc)) = SoFar(Top)
    BY <1>2, <1>7, InOrderSet, SatNumbers
  <2>2. ToSet(Cells(heap, ret)) = Sat(Child(Top))
    BY <1>2, <1>7, InOrderSet, SatNumbers
  <2>3. \A d : d \in SoFar(Top) <=>
           d \in Numbers /\ \A m \in 1..Top.done : Holds(texts[d + 1], Here.kids[m])
    BY <1>1, <1>2 DEF SoFar
  <2>4. \A d : d \in Sat(Child(Top)) <=>
           d \in Numbers /\ Holds(texts[d + 1], Here.kids[Top.done + 1])
    BY <1>2 DEF Sat, Child
  <2>5. \A m : m \in 1..(Top.done + 1) <=> m \in 1..Top.done \/ m = Top.done + 1
    BY <1>2
  <2>6. SoFar(Top) \cap Sat(Child(Top)) = S
    BY <2>3, <2>4, <2>5
  <2> QED BY <2>1, <2>2, <2>6
<1>8. Sat(Top.node) = {d \in Numbers : \A m \in 1..Len(Here.kids) :
                                         Holds(texts[d + 1], Here.kids[m])}
  BY <1>1, <1>2, InnerSat
<1> HIDE DEF both
<1>9. CASE both = <<>> \/ next > Len(Here.kids)
  <2>1. ASSUME Exact(Top.node) PROVE both = InOrder(Sat(Top.node))
    <3>1. CASE next > Len(Here.kids)
      <4>1. Top.done + 1 = Len(Here.kids)
        BY <1>2, <3>1
      <4>2. S = Sat(Top.node)
        BY <1>8, <4>1
      <4> QED BY <1>7, <2>1, <4>2
    <3>2. CASE both = <<>>
      <4>1. ToSet(InOrder(S)) = S
        BY InOrderSet
      <4>2. ToSet(<<>>) = {}
        BY DEF ToSet
      <4>3. S = {}
        BY <1>7, <2>1, <3>2, <4>1, <4>2
      <4>4. \A m \in 1..(Top.done + 1) : m \in 1..Len(Here.kids)
        BY <1>2
      <4>5. Sat(Top.node) \subseteq S
        BY <1>8, <4>4
      <4>6. Sat(Top.node) = S
        BY <4>3, <4>5
      <4> QED BY <1>7, <2>1, <4>6
    <3> QED BY <1>9, <3>1, <3>2
  <2>2. /\ LET res == Fresh(right.heap, both) IN heap' = res.heap /\ ret' = res.slice
        /\ stack' = Below /\ mode' = "return" /\ call' = call /\ tmp' = tmp
        /\ docs' = docs /\ texts' = texts /\ ram' = ram
    BY <1>1, <1>5, <1>9 DEF Finish, indexVars
  <2> HIDE DEF right, next
  <2> QED BY <1>1, <1>4, <1>6, <2>1, <2>2, FinishStep
<1>10. CASE ~(both = <<>> \/ next > Len(Here.kids))
  <2>1. /\ heap' = acc.heap /\ stack' = Append(Append(Below, here), Frame(Here.kids[next]))
        /\ mode' = "eval" /\ call' = call /\ tmp' = tmp /\ ret' = ret
        /\ docs' = docs /\ texts' = texts /\ ram' = ram
    BY <1>5, <1>10 DEF indexVars
  <2>2. /\ right.heap \in Seq(Seq(Int)) /\ Len(heap) <= Len(right.heap)
        /\ Len(heap) \in Nat /\ Len(right.heap) \in Nat
    BY <1>2, <1>4 DEF Grows
  <2> HIDE DEF right
  <2>3. /\ Grows(right.heap, acc.heap, {}) /\ IsSlice(acc.heap, acc.slice)
        /\ Cells(acc.heap, acc.slice) = both
        /\ acc.slice.arr = 0 \/ acc.slice.arr > Len(right.heap)
    BY <1>6, <2>2, FreshFacts
  <2> HIDE DEF acc
  <2>4. here.node = Top.node /\ here.acc = acc.slice /\ here.done = Top.done + 1 /\ here.dst = tmp
    BY <1>2 DEF Frames
  <2>5. here \in Frames
    <3>1. acc.slice \in Slices /\ tmp \in Slices
      BY <2>3 DEF IsSlice, CallsInv, HeapInv
    <3>2. PICK n \in Nat : n = Top.done + 1
      BY <1>2
    <3>3. here = [Top EXCEPT !.acc = acc.slice, !.done = n, !.dst = tmp]
      BY <3>2
    <3> HIDE DEF here
    <3> QED BY <1>2, <3>1, <3>3 DEF Frames
  <2> HIDE DEF here
  <2>6. Waiting(here) /\ Child(here) = Here.kids[next]
    <3>1. here.done \in 0..(Len(Here.kids) - 1) /\ here.done + 1 = next
      BY <1>2, <1>10, <2>4
    <3> QED BY <1>2, <2>4, <3>1 DEF Waiting, Child
  <2>7. Grows(heap, heap', Overwritable)
    <3>1. Grows(heap, acc.heap, Overwritable \cup {})
      BY <1>2, <1>4, <2>3, GrowsOn
    <3> QED BY <2>1, <3>1
  <2>8. acc.slice.arr = 0 \/ acc.slice.arr > Len(heap)
    <3>1. acc.slice.arr \in Nat
      BY <2>3 DEF IsSlice, Slices
    <3> QED BY <2>2, <2>3, <3>1
  <2>9. ASSUME Exact(Top.node) PROVE Cells(heap', here.acc) = InOrder(SoFar(here))
    <3>1. SoFar(here) = S
      BY <1>1, <1>2, <2>4 DEF SoFar
    <3> QED BY <1>7, <2>1, <2>3, <2>4, <2>9, <3>1
  <2> HIDE DEF next
  <2> QED BY <1>1, <2>1, <2>3, <2>4, <2>5, <2>6, <2>7, <2>8, <2>9, PushStep
<1> QED BY <1>9, <1>10

-----------------------------------------------------------------------------
(* The theorems.                                                           *)

MainInv == IndexInv /\ CallsInv /\ GivenInv /\ AnswersStay /\ WarnInv /\ EvalIsScan

EvalStep ==
  \/ EvalTerm \/ EvalLeaf \/ Descend
  \/ ResumeNot \/ ResumeFirst \/ ResumeOr \/ ResumeAnd

LEMMA MainInit == Init => MainInv
<1> SUFFICES ASSUME Init PROVE MainInv
  OBVIOUS
<1>1. IndexInv
  <2>1. texts = <<>> /\ docs = <<>> /\ Len(texts) = 0
    BY DEF Init, IndexInit
  <2>2. Numbers = {}
    BY <2>1 DEF Numbers
  <2>3. ASSUME NEW t \in Terms PROVE PostingsOf(t) = <<>>
    <3>1. Having(t) = {}
      BY <2>2 DEF Having
    <3>2. InOrder({}) \in Seq({}) /\ Len(InOrder({})) = 0
      BY FS_EmptySet, InOrderAscends
    <3>3. PostingsOf(t) = [m \in 1..0 |-> [doc |-> InOrder({})[m],
                                          poss |-> Positions(texts[InOrder({})[m] + 1], t)]]
      BY <3>1, <3>2 DEF PostingsOf
    <3> QED BY <3>3
  <2>4. postings = [t \in Terms |-> PostingsOf(t)]
    BY <2>3 DEF Init, IndexInit
  <2> QED BY <2>1, <2>2, <2>4 DEF Init, IndexInit, IndexInv
<1>2. CallsInv
  BY DEF Init, CallsInv, StackInv, HeapInv, AliasInv, ContentInv, Callers, IsSlice, Slices, Nil
<1>3. GivenInv /\ AnswersStay /\ WarnInv /\ EvalIsScan
  BY DEF Init, GivenInv, AnswersStay, WarnInv, EvalIsScan
<1> QED BY <1>1, <1>2, <1>3 DEF MainInv

\* Answers that were exact stay so while texts are only added.
LEMMA ScanStays ==
  ASSUME IndexInv, GivenInv, EvalIsScan, given' = given,
         texts' = texts \/ \E tokens \in Texts : texts' = Append(texts, tokens)
  PROVE  EvalIsScan'
<1>1. ASSUME NEW m \in 1..Len(given)
      PROVE  SlowEval(given[m].n, given[m].q)' = SlowEval(given[m].n, given[m].q)
  <2>1. given[m].n \in Nat /\ given[m].n <= Len(texts) /\ Len(texts) \in Nat
    <3>1. given[m] \in Answers /\ given[m].n <= Len(texts)
      BY DEF GivenInv
    <3>2. Len(texts) \in Nat
      BY DEF IndexInv
    <3> QED BY <3>1, <3>2 DEF Answers
  <2>2. \A d \in 0..(given[m].n - 1) : texts'[d + 1] = texts[d + 1]
    <3>1. \A d \in 0..(given[m].n - 1) : d + 1 \in 1..Len(texts)
      BY <2>1
    <3>2. texts \in Seq(Texts)
      BY DEF IndexInv
    <3> QED BY <3>1, <3>2
  <2>3. {d \in 0..(given[m].n - 1) : Holds(texts'[d + 1], given[m].q)}
          = {d \in 0..(given[m].n - 1) : Holds(texts[d + 1], given[m].q)}
    BY <2>2
  <2> QED BY <2>3 DEF SlowEval
<1> QED BY <1>1 DEF EvalIsScan

\* The steps of the evaluator leave the documents and the answers alone.
LEMMA EvalStepKeeps ==
  ASSUME MainInv, EvalStep
  PROVE  MainInv'
<1>1. /\ docs' = docs /\ texts' = texts /\ postings' = postings /\ scratch' = scratch
      /\ keys' = keys /\ given' = given /\ call' = call
      /\ allIDs' \in {allIDs, AllDocIDs} /\ mode # "idle"
  <2>1. CASE EvalTerm
    BY <2>1 DEF EvalTerm, indexVars
  <2>2. CASE EvalLeaf
    BY <2>2 DEF EvalLeaf, indexVars
  <2>3. CASE Descend
    BY <2>3 DEF Descend
  <2>4. CASE ResumeNot
    BY <2>4 DEF ResumeNot, Returning, Finish, indexVars
  <2>5. CASE ResumeFirst
    BY <2>5 DEF ResumeFirst, Returning, indexVars
  <2>6. CASE ResumeOr
    BY <2>6 DEF ResumeOr, Returning, Finish, indexVars
  <2>7. CASE ResumeAnd
    BY <2>7 DEF ResumeAnd, Finish, indexVars
  <2> QED BY <2>1, <2>2, <2>3, <2>4, <2>5, <2>6, <2>7 DEF EvalStep
<1>2. IndexInv'
  <2>1. Len(allIDs') \in Nat /\ allIDs' = [n \in 1..Len(allIDs') |-> n - 1]
    BY <1>1, AllDocIDsExact DEF MainInv, IndexInv
  <2>2. \A t \in Terms : PostingsOf(t)' = PostingsOf(t)
    BY <1>1 DEF PostingsOf, Having, Numbers
  <2>3. \A d \in Numbers' : DocLen(d)' = Len(texts'[d + 1])
    BY <1>1 DEF MainInv, IndexInv, DocLen, Numbers
  <2> QED BY <1>1, <2>1, <2>2, <2>3 DEF MainInv, IndexInv
<1>3. CallsInv' /\ HeapStep
  BY TermStep, LeafStep, DescendStep, NotStep, FirstStep, OrStep, AndStep
     DEF MainInv, EvalStep
<1>4. GivenInv' /\ AnswersStay'
  <2>1. Len(texts) \in Nat /\ Len(texts') = Len(texts)
    BY <1>1 DEF MainInv, IndexInv
  <2> QED BY <1>1, <1>3, <2>1, GivenStays DEF MainInv, CallsInv
<1>5. WarnInv' /\ EvalIsScan'
  BY <1>1, ScanStays DEF MainInv, WarnInv
<1> QED BY <1>2, <1>3, <1>4, <1>5 DEF MainInv

\* Nothing is written to the heap between the calls.
LEMMA QuietStep ==
  ASSUME HeapInv, heap' = heap, \A a \in Overwritable' : a = 0 \/ a \in Overwritable
  PROVE  HeapStep
BY DEF HeapStep, Grows, HeapInv

LEMMA AddToKeeps ==
  ASSUME MainInv, AddTo
  PROVE  MainInv'
<1>1. PICK tokens \in Texts, keep \in BOOLEAN : AddDoc(tokens, keep)
  BY DEF AddTo
<1>2. /\ mode = "idle" /\ stack = <<>> /\ heap' = heap /\ tmp' = tmp /\ mode' = mode
      /\ stack' = stack /\ ret' = ret /\ call' = call /\ given' = given
  BY DEF AddTo, evalVars, MainInv, CallsInv, StackInv
<1>3. IndexInv'
  BY <1>1, AddDocKeepsIndex DEF MainInv
<1>4. texts' = Append(texts, tokens) /\ Len(texts) \in Nat /\ Len(texts') = Len(texts) + 1
  BY <1>1 DEF AddDoc, MainInv, IndexInv
<1>5. HeapStep
  BY <1>2, QuietStep DEF MainInv, CallsInv, Overwritable
<1>6. StackInv' /\ HeapInv' /\ AliasInv'
  BY <1>2 DEF MainInv, CallsInv, StackInv, HeapInv, AliasInv, Callers, Top, Frame, Waiting,
              Wanted, Child, Kept, Overwritable, IsSlice, Returned
<1>7. ContentInv'
  BY <1>2 DEF ContentInv, Callers
<1>8. GivenInv' /\ AnswersStay'
  BY <1>2, <1>4, <1>5, GivenStays DEF MainInv, CallsInv
<1>9. WarnInv' /\ EvalIsScan'
  BY <1>2, <1>4, ScanStays DEF MainInv, WarnInv
<1> QED BY <1>3, <1>6, <1>7, <1>8, <1>9 DEF MainInv, CallsInv

LEMMA SaveKeeps ==
  ASSUME MainInv, SaveAndMap
  PROVE  MainInv'
<1>1. /\ mode = "idle" /\ stack = <<>> /\ heap' = heap /\ tmp' = tmp /\ mode' = mode
      /\ stack' = stack /\ ret' = ret /\ call' = call /\ given' = given
      /\ texts' = texts /\ postings' = postings /\ scratch' = scratch /\ keys' = keys
      /\ allIDs' = allIDs
      /\ docs' = [n \in 1..Len(docs) |-> [tokens |-> <<>>, ntok |-> DocLen(n - 1)]]
  BY DEF SaveAndMap, MainInv, CallsInv, StackInv
<1>2. /\ Len(docs) = Len(texts) /\ Len(texts) \in Nat /\ texts \in Seq(Texts)
      /\ \A d \in Numbers : DocLen(d) = Len(texts[d + 1]) /\ Len(texts[d + 1]) \in Nat
  BY NumbersFacts DEF MainInv, IndexInv
<1>3. \A n \in 1..Len(docs) : DocLen(n - 1) \in Nat
  <2>1. \A n \in 1..Len(docs) : n - 1 \in Numbers
    BY <1>2 DEF Numbers
  <2> QED BY <1>2, <2>1
<1>4. docs' \in Seq(Documents) /\ Len(docs') = Len(docs)
  <2>1. \A n \in 1..Len(docs) : [tokens |-> <<>>, ntok |-> DocLen(n - 1)] \in Documents
    <3>1. <<>> \in Seq(Terms)
      OBVIOUS
    <3> QED BY <1>3, <3>1 DEF Documents
  <2>2. docs' \in [1..Len(docs) -> Documents]
    BY <1>1, <2>1
  <2> QED BY <1>2, <2>2
<1>5. \A d \in Numbers' : DocLen(d)' = Len(texts'[d + 1])
  <2> SUFFICES ASSUME NEW d \in Numbers PROVE DocLen(d)' = Len(texts[d + 1])
    BY <1>1 DEF Numbers
  <2>1. d \in Int /\ d + 1 \in 1..Len(docs) /\ ~(d >= Len(docs')) /\ d + 1 - 1 = d
    BY <1>2, <1>4 DEF Numbers
  <2>2. docs'[d + 1].ntok = DocLen(d) /\ docs'[d + 1].tokens = <<>>
    BY <1>1, <2>1
  <2>3. DocLen(d)' = IF DocLen(d) > 0 THEN DocLen(d) ELSE Len(<<>>)
    BY <2>1, <2>2 DEF DocLen
  <2> QED BY <1>2, <2>3
<1>6. IndexInv'
  <2>1. \A t \in Terms : PostingsOf(t)' = PostingsOf(t)
    BY <1>1 DEF PostingsOf, Having, Numbers
  <2> QED BY <1>1, <1>2, <1>4, <1>5, <2>1 DEF MainInv, IndexInv
<1>7. HeapStep
  BY <1>1, QuietStep DEF MainInv, CallsInv, Overwritable
<1>8. StackInv' /\ HeapInv' /\ AliasInv'
  BY <1>1 DEF MainInv, CallsInv, StackInv, HeapInv, AliasInv, Callers, Top, Frame, Waiting,
              Wanted, Child, Kept, Overwritable, IsSlice, Returned
<1>9. ContentInv'
  BY <1>1 DEF ContentInv, Callers
<1>10. GivenInv' /\ AnswersStay'
  BY <1>1, <1>2, <1>7, GivenStays DEF MainInv, CallsInv
<1>11. WarnInv' /\ EvalIsScan'
  BY <1>1, ScanStays DEF MainInv, WarnInv
<1> QED BY <1>6, <1>8, <1>9, <1>10, <1>11 DEF MainInv, CallsInv

LEMMA InvokeKeeps ==
  ASSUME MainInv, NEW q \in Queries, NEW warn \in BOOLEAN, Invoke(q, warn)
  PROVE  MainInv'
<1>1. /\ mode = "idle" /\ stack = <<>> /\ heap' = heap /\ tmp' \in {tmp, Nil}
      /\ mode' = "eval" /\ stack' = <<Frame(q)>> /\ ret' = ret /\ given' = given
      /\ call' = [q |-> q, warn |-> warn] /\ (warn => ~ContainsMSM(q))
      /\ docs' = docs /\ texts' = texts /\ postings' = postings /\ scratch' = scratch
      /\ keys' = keys /\ allIDs' = allIDs /\ ram' = ram
  BY DEF Invoke, indexVars, MainInv, CallsInv, StackInv
<1>2. q \in Trees
  BY QueriesAssumption
<1>3. IndexInv'
  <2>1. \A t \in Terms : PostingsOf(t)' = PostingsOf(t)
    BY <1>1 DEF PostingsOf, Having, Numbers
  <2>2. \A d \in Numbers' : DocLen(d)' = Len(texts'[d + 1])
    BY <1>1 DEF MainInv, IndexInv, DocLen, Numbers
  <2> QED BY <1>1, <2>1, <2>2 DEF MainInv, IndexInv
<1>4. /\ Len(stack') = 1 /\ stack' \in Seq(Frames) /\ stack'[1] = Frame(q)
      /\ Frame(q).node = q /\ Frame(q).acc = Nil /\ Frame(q).dst = Nil
  <2>1. Frame(q) \in Frames
    BY <1>2 DEF Frame, Frames, Slices, Nil
  <2> QED BY <1>1, <2>1 DEF Frame
<1>5. Overwritable' = {tmp'.arr, 0}
  BY <1>4 DEF Overwritable, Nil
<1>6. HeapStep
  <2>1. \A a \in Overwritable' : a = 0 \/ a \in Overwritable
    <3>1. tmp'.arr \in {tmp.arr, 0}
      BY <1>1 DEF Nil
    <3> QED BY <1>5, <3>1 DEF Overwritable
  <2> QED BY <1>1, <2>1, QuietStep DEF MainInv, CallsInv
<1>7. StackInv'
  <2>1. Callers' = {}
    BY <1>1, <1>4 DEF Callers
  <2>2. Top' = Frame(q) /\ (Top = Frame(Top.node))'
    BY <1>4 DEF Top, Frame
  <2>3. \A n \in 1..Len(stack') : stack'[n].node = Wanted(n)'
    BY <1>1, <1>4 DEF Wanted
  <2> QED BY <1>1, <1>2, <1>4, <2>1, <2>2, <2>3 DEF StackInv
<1>8. HeapInv'
  <2>1. IsSlice(heap', Nil)
    BY <1>1 DEF MainInv, CallsInv, HeapInv, IsSlice, Slices, Nil
  <2>2. IsSlice(heap', tmp') /\ IsSlice(heap', ret')
    BY <1>1, <2>1 DEF MainInv, CallsInv, HeapInv
  <2> QED BY <1>1, <1>4, <2>1, <2>2 DEF MainInv, CallsInv, HeapInv
<1>9. AliasInv'
  BY <1>1, <1>4 DEF AliasInv, Kept, Nil
<1>10. ContentInv'
  BY <1>1, <1>4 DEF ContentInv, Callers
<1>11. GivenInv' /\ AnswersStay'
  BY <1>1, <1>6, GivenStays DEF MainInv, CallsInv, IndexInv
<1>12. WarnInv' /\ EvalIsScan'
  BY <1>1, ScanStays DEF MainInv, WarnInv
<1> QED BY <1>3, <1>7, <1>8, <1>9, <1>10, <1>11, <1>12 DEF MainInv, CallsInv

LEMMA ReturnKeeps ==
  ASSUME MainInv, Return
  PROVE  MainInv'
<1> DEFINE g == [q |-> call.q, warn |-> call.warn, slice |-> ret, ids |-> Cells(heap, ret),
                 n |-> Len(docs), whole |-> Whole]
<1>1. /\ mode = "return" /\ stack = <<>> /\ heap' = heap /\ tmp' = tmp
      /\ mode' = "idle" /\ stack' = stack /\ ret' = ret /\ given' = Append(given, g)
      /\ call' = call
      /\ docs' = docs /\ texts' = texts /\ postings' = postings /\ scratch' = scratch
      /\ keys' = keys /\ allIDs' = allIDs /\ ram' = ram
  BY DEF Return, indexVars, Whole
<1>2. IndexInv'
  <2>1. \A t \in Terms : PostingsOf(t)' = PostingsOf(t)
    BY <1>1 DEF PostingsOf, Having, Numbers
  <2>2. \A d \in Numbers' : DocLen(d)' = Len(texts'[d + 1])
    BY <1>1 DEF MainInv, IndexInv, DocLen, Numbers
  <2> QED BY <1>1, <2>1, <2>2 DEF MainInv, IndexInv
<1>3. /\ g.q = call.q /\ g.warn = call.warn /\ g.slice = ret /\ g.ids = Cells(heap, ret)
      /\ g.n = Len(docs) /\ g.whole = Whole
  OBVIOUS
<1>4. Returned = call.q
  BY <1>1 DEF Returned, Wanted
<1>5. /\ call.q \in Trees /\ heap \in Seq(Seq(Int)) /\ IsSlice(heap, ret)
      /\ Nodes[call.q].op # "term" => Kept(ret)
      /\ Exact(call.q) => Cells(heap, ret) = InOrder(Sat(call.q))
  BY <1>1, <1>4 DEF MainInv, CallsInv, StackInv, HeapInv, AliasInv, ContentInv
<1>6. Len(docs) = Len(texts) /\ Len(texts) \in Nat /\ call.warn \in BOOLEAN
      /\ (call.warn => ~ContainsMSM(call.q))
  BY <1>1 DEF MainInv, IndexInv, WarnInv
<1>7. g \in Answers
  <2>1. Cells(heap, ret) \in Seq(Int)
    BY <1>5, CellsType
  <2>2. Whole \in BOOLEAN
    BY DEF Whole
  <2>3. ret \in Slices
    BY <1>5 DEF IsSlice
  <2> QED BY <1>5, <1>6, <2>1, <2>2, <2>3 DEF Answers
<1> HIDE DEF g
<1>8. /\ given \in Seq(Answers) /\ Len(given) \in Nat /\ Len(given') = Len(given) + 1
      /\ given' \in Seq(Answers)
      /\ \A m \in 1..Len(given) : given'[m] = given[m]
      /\ given'[Len(given) + 1] = g
  BY <1>1, <1>7 DEF MainInv, GivenInv
<1>9. \A m \in 1..Len(given') : m \in 1..Len(given) \/ m = Len(given) + 1
  BY <1>8
<1>10. StackInv' /\ HeapInv' /\ AliasInv'
  BY <1>1 DEF MainInv, CallsInv, StackInv, HeapInv, AliasInv, Callers, Top, Frame, Waiting,
              Wanted, Child, Kept, Overwritable, IsSlice, Returned
<1>11. ContentInv'
  BY <1>1 DEF ContentInv, Callers
<1>12. Overwritable' = Overwritable
  BY <1>1 DEF Overwritable
<1>13. GivenInv'
  <2> SUFFICES ASSUME NEW m \in 1..Len(given')
               PROVE  /\ given'[m].n <= Len(texts)
                      /\ IsSlice(heap, given'[m].slice)
                      /\ Nodes[given'[m].q].op # "term" =>
                           \/ given'[m].slice.arr = 0
                           \/ given'[m].slice.arr \notin Overwritable
    BY <1>1, <1>8, <1>12 DEF GivenInv, Kept
  <2>1. CASE m \in 1..Len(given)
    BY <1>8, <2>1 DEF MainInv, GivenInv, Kept
  <2>2. CASE m = Len(given) + 1
    BY <1>3, <1>5, <1>6, <1>8, <2>2 DEF Kept
  <2> QED BY <1>9, <2>1, <2>2
<1>14. AnswersStay'
  <2> SUFFICES ASSUME NEW m \in 1..Len(given'), Nodes[given'[m].q].op # "term"
               PROVE  Cells(heap, given'[m].slice) = given'[m].ids
    BY <1>1 DEF AnswersStay
  <2>1. CASE m \in 1..Len(given)
    BY <1>8, <2>1 DEF MainInv, AnswersStay
  <2>2. CASE m = Len(given) + 1
    BY <1>3, <1>8, <2>2
  <2> QED BY <1>9, <2>1, <2>2
<1>15. WarnInv'
  <2>1. \A m \in 1..Len(given') : given'[m].warn => ~ContainsMSM(given'[m].q)
    BY <1>3, <1>6, <1>8, <1>9 DEF MainInv, WarnInv
  <2> QED BY <1>1, <1>6, <2>1 DEF WarnInv
<1>16. EvalIsScan'
  <2>1. \A n, q : SlowEval(n, q)' = SlowEval(n, q)
    BY <1>1 DEF SlowEval
  <2>2. SlowEval(Len(docs), call.q) = InOrder(Sat(call.q))
    BY <1>6 DEF SlowEval, Sat, Numbers
  <2>3. ASSUME ~Disputed(g.q), NeedsTexts(g.q) => g.whole
        PROVE  g.ids = SlowEval(g.n, g.q)
    BY <1>3, <1>5, <2>2, <2>3 DEF Exact
  <2>4. ASSUME NEW m \in 1..Len(given'),
               ~Disputed(given'[m].q), NeedsTexts(given'[m].q) => given'[m].whole
        PROVE  given'[m].ids = SlowEval(given'[m].n, given'[m].q)
    <3>1. CASE m \in 1..Len(given)
      BY <1>8, <2>4, <3>1 DEF MainInv, EvalIsScan
    <3>2. CASE m = Len(given) + 1
      BY <1>8, <2>3, <2>4, <3>2
    <3> QED BY <1>9, <3>1, <3>2
  <2> QED BY <1>1, <2>4 DEF EvalIsScan, SlowEval
<1> QED BY <1>2, <1>10, <1>11, <1>13, <1>14, <1>15, <1>16 DEF MainInv, CallsInv

LEMMA MainStep == MainInv /\ [Next]_vars => MainInv'
<1> SUFFICES ASSUME MainInv, [Next]_vars PROVE MainInv'
  OBVIOUS
<1>1. CASE UNCHANGED vars
  <2>1. \A t \in Terms : PostingsOf(t)' = PostingsOf(t)
    BY <1>1 DEF vars, indexVars, PostingsOf, Having, Numbers
  <2>2. IndexInv'
    BY <1>1, <2>1 DEF vars, indexVars, MainInv, IndexInv, DocLen, Numbers
  <2>3. StackInv' /\ HeapInv' /\ AliasInv'
    BY <1>1 DEF vars, evalVars, MainInv, CallsInv, StackInv, HeapInv, AliasInv, Callers, Top,
                Frame, Waiting, Wanted, Child, Kept, Overwritable, IsSlice, Returned
  <2>4. ContentInv'
    <3>1. stack' = stack /\ mode' = mode /\ heap' = heap /\ ret' = ret /\ call' = call
          /\ docs' = docs /\ texts' = texts /\ ram' = ram
      BY <1>1 DEF vars, indexVars, evalVars
    <3>2. ASSUME NEW n \in Callers',
                 (Exact(stack[n].node)
                    /\ (Nodes[stack[n].node].op # "not" => stack[n].done > 0))'
          PROVE  Cells(heap', stack'[n].acc) = InOrder(SoFar(stack[n])')
      <4>1. n \in Callers
        BY <3>1 DEF Callers
      <4>2. Exact(stack[n].node) /\ SoFar(stack[n])' = SoFar(stack[n])
        BY <3>1, <3>2 DEF Exact, Whole, SoFar, Numbers
      <4> QED BY <3>1, <3>2, <4>1, <4>2 DEF MainInv, CallsInv, ContentInv
    <3>3. ASSUME mode' = "return", Exact(Returned)'
          PROVE  Cells(heap', ret') = InOrder(Sat(Returned)')
      <4>1. Exact(Returned) /\ Sat(Returned)' = Sat(Returned)
        BY <3>1, <3>3 DEF Exact, Whole, Sat, Numbers, Returned, Wanted, Child
      <4> QED BY <3>1, <3>3, <4>1 DEF MainInv, CallsInv, ContentInv
    <3> QED BY <3>2, <3>3 DEF ContentInv, Cells
  <2>5. GivenInv' /\ AnswersStay' /\ WarnInv'
    BY <1>1 DEF vars, indexVars, evalVars, MainInv, GivenInv, AnswersStay, WarnInv, Cells,
                IsSlice, Kept, Overwritable
  <2>6. EvalIsScan'
    BY <1>1, ScanStays DEF vars, indexVars, evalVars, MainInv
  <2> QED BY <2>2, <2>3, <2>4, <2>5, <2>6 DEF MainInv, CallsInv
<1>2. CASE AddTo
  BY <1>2, AddToKeeps
<1>3. CASE SaveAndMap
  BY <1>3, SaveKeeps
<1>4. ASSUME NEW q \in Queries, NEW warn \in BOOLEAN, Invoke(q, warn) PROVE MainInv'
  BY <1>4, InvokeKeeps
<1>5. CASE EvalStep
  BY <1>5, EvalStepKeeps
<1>6. CASE Return
  BY <1>6, ReturnKeeps
<1>7. CASE Rest
  BY <1>1, <1>7 DEF Rest
<1> QED BY <1>1, <1>2, <1>3, <1>4, <1>5, <1>6, <1>7 DEF Next, EvalStep

THEOREM MainHolds == Spec => []MainInv
BY MainInit, MainStep, PTL DEF Spec

\* The posting lists are exact whatever was added before (Add, AddLean,
\* AllDocIDs of index.go).
THEOREM IndexExact == Spec => []IndexIsExact
<1>1. MainInv => IndexIsExact
  <2> SUFFICES ASSUME IndexInv PROVE IndexIsExact
    BY DEF MainInv
  <2>1. AllDocIDs = [n \in 1..Len(texts) |-> n - 1]
    BY AllDocIDsExact
  <2>2. ASSUME NEW t \in Terms PROVE postings[t] = PostingsOf(t)
    BY DEF IndexInv
  <2> QED BY <2>1, <2>2 DEF IndexIsExact, PostingsOf, Having, Numbers
<1> QED BY <1>1, MainHolds, PTL

\* Later calls leave earlier answers alone, though they share buffers with
\* them (the slices of EvalCtx).
THEOREM AnswersAreKept == Spec => []AnswersStay
<1>1. MainInv => AnswersStay
  BY DEF MainInv
<1> QED BY <1>1, MainHolds, PTL

\* Evaluation over the posting lists gives what the scan of the texts gives
\* (eval_ctx.go, eval.go against scan.go).
THEOREM EvaluationIsScan == Spec => []EvalIsScan
<1>1. MainInv => EvalIsScan
  BY DEF MainInv
<1> QED BY <1>1, MainHolds, PTL

\* What SearchBoolMMapWarnMSM lets through is answered exactly.
THEOREM WarnedAreExact == Spec => []WarnedAnswersExact
<1>1. MainInv => WarnedAnswersExact
  <2> SUFFICES ASSUME MainInv, NEW m \in 1..Len(given),
                      given[m].warn, ~Disputed(given[m].q)
               PROVE  given[m].ids = SlowEval(given[m].n, given[m].q)
    BY DEF WarnedAnswersExact
  <2>1. ~ContainsMSM(given[m].q) /\ given[m].q \in Trees
    <3>1. given[m] \in Answers
      BY DEF MainInv, GivenInv
    <3> QED BY <3>1 DEF MainInv, WarnInv, Answers
  <2>2. ~NeedsTexts(given[m].q)
    BY <2>1, WarnedNeedNoTexts
  <2> QED BY <2>2 DEF MainInv, EvalIsScan
<1> QED BY <1>1, MainHolds, PTL
=============================================================================
