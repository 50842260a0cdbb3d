----------------------------- MODULE SortedMerge -----------------------------
(***************************************************************************)
(* The three merges of sorted lists of document numbers that queries are   *)
(* evaluated with: intersectSortedSkipInto, unionSortedInto and            *)
(* subtractSortedInto of eval.go.  They share their shape, two indexes     *)
(* that run through two lists, and differ in what they do with the smaller *)
(* of the two numbers in front; only the intersection leaps.               *)
(*                                                                         *)
(* One step is one iteration of a loop, the inner loops of the leaps       *)
(* included.  Indexes count from 1.  nil and the empty slice are the same  *)
(* list.                                                                   *)
(***************************************************************************)
EXTENDS QueryArgs, Functions

VARIABLES
  op,      \* "and", "or" or "not": which of the three functions runs
  a, b,    \* its arguments
  i, j,    \* the next element of each
  out,     \* its result so far
  pc       \* "start", "merge", "leapA", "leapB" or "done"

vars == <<op, a, b, i, j, out, pc>>

(* The distance of a leap: the least number whose square reaches the length. *)
Stride(n) ==
  CHOOSE s \in 1..(n + 1) : s * s >= n /\ \A t \in 1..(s - 1) : t * t < n

LeapsBlindly(s, n, x) == n + Stride(Len(s)) <= Len(s)    \* mutant: no comparison
LeapsTooFar(s, n, x) ==                    \* mutant: looks before where it lands
  LET next == n + Stride(Len(s)) IN next <= Len(s) /\ s[next - 1] <= x

(* A leap from position n of s stays in s and does not pass x. *)
CanLeap(s, n, x) ==
  LET next == n + Stride(Len(s)) IN next <= Len(s) /\ s[next] <= x

Rest(s, n) == SubSeq(s, n, Len(s))

Init ==
  /\ op \in {"and", "or", "not"}
  /\ a \in Lists /\ b \in Lists
  /\ i = 1 /\ j = 1
  /\ out = <<>>
  /\ pc = "start"

-----------------------------------------------------------------------------
(* With an empty argument there is nothing to merge. *)
ReturnEarly ==
  /\ pc = "start"
  /\ a = <<>> \/ b = <<>>
  /\ out' = CASE op = "and" -> <<>>
              [] op = "or"  -> IF a = <<>> THEN b ELSE a
              [] op = "not" -> a
  /\ pc' = "done"
  /\ UNCHANGED <<op, a, b, i, j>>

EnterLoop ==
  /\ pc = "start"
  /\ a # <<>> /\ b # <<>>
  /\ pc' = "merge"
  /\ UNCHANGED <<op, a, b, i, j, out>>

BothLeft == i <= Len(a) /\ j <= Len(b)

(* Both lists have the number. *)
Match ==
  /\ pc = "merge" /\ BothLeft
  /\ a[i] = b[j]
  /\ out' = IF op = "not" THEN out ELSE Append(out, a[i])
  /\ i' = i + 1 /\ j' = j + 1
  /\ UNCHANGED <<op, a, b, pc>>

(* Union and difference keep a number that only a has. *)
TakeA ==
  /\ pc = "merge" /\ BothLeft
  /\ op # "and" /\ a[i] < b[j]
  /\ out' = Append(out, a[i])
  /\ i' = i + 1
  /\ UNCHANGED <<op, a, b, j, pc>>

TakeB ==
  /\ pc = "merge" /\ BothLeft
  /\ op = "or" /\ b[j] < a[i]
  /\ out' = Append(out, b[j])
  /\ j' = j + 1
  /\ UNCHANGED <<op, a, b, i, pc>>

(* The difference has no use for a number that only b has. *)
DropB ==
  /\ pc = "merge" /\ BothLeft
  /\ op = "not" /\ b[j] < a[i]
  /\ j' = j + 1
  /\ UNCHANGED <<op, a, b, i, out, pc>>

(* The intersection leaps over numbers of a, or passes one. *)
SkipA ==
  /\ pc = "merge" /\ BothLeft
  /\ op = "and" /\ a[i] < b[j]
  /\ \/ /\ CanLeap(a, i, b[j])
        /\ i' = i + Stride(Len(a)) /\ pc' = "leapA"
     \/ /\ ~CanLeap(a, i, b[j])
        /\ i' = i + 1 /\ pc' = pc
  /\ UNCHANGED <<op, a, b, j, out>>

SkipB ==
  /\ pc = "merge" /\ BothLeft
  /\ op = "and" /\ b[j] < a[i]
  /\ \/ /\ CanLeap(b, j, a[i])
        /\ j' = j + Stride(Len(b)) /\ pc' = "leapB"
     \/ /\ ~CanLeap(b, j, a[i])
        /\ j' = j + 1 /\ pc' = pc
  /\ UNCHANGED <<op, a, b, i, out>>

LeapsInPlace ==                                  \* mutant: the index stays
  /\ pc = "leapA"
  /\ pc' = IF CanLeap(a, i, b[j]) THEN pc ELSE "merge"
  /\ UNCHANGED <<op, a, b, i, j, out>>

(* The inner loops: leap on while it is possible. *)
LeapA ==
  /\ pc = "leapA"
  /\ \/ /\ CanLeap(a, i, b[j])
        /\ i' = i + Stride(Len(a)) /\ pc' = pc
     \/ /\ ~CanLeap(a, i, b[j])
        /\ pc' = "merge" /\ i' = i
  /\ UNCHANGED <<op, a, b, j, out>>

LeapB ==
  /\ pc = "leapB"
  /\ \/ /\ CanLeap(b, j, a[i])
        /\ j' = j + Stride(Len(b)) /\ pc' = pc
     \/ /\ ~CanLeap(b, j, a[i])
        /\ pc' = "merge" /\ j' = j
  /\ UNCHANGED <<op, a, b, i, out>>

(* One list is used up: union appends what is left of the other,           *)
(* difference what is left of a.                                           *)
LeaveLoop ==
  /\ pc = "merge" /\ ~BothLeft
  /\ out' = CASE op = "and" -> out
              [] op = "or"  -> (out \o Rest(a, i)) \o Rest(b, j)
              [] op = "not" -> out \o Rest(a, i)
  /\ pc' = "done"
  /\ UNCHANGED <<op, a, b, i, j>>

(* The function has returned. *)
Returned == pc = "done" /\ UNCHANGED vars

Step ==
  \/ ReturnEarly \/ EnterLoop \/ Match \/ TakeA \/ TakeB \/ DropB
  \/ SkipA \/ SkipB \/ LeapA \/ LeapB \/ LeaveLoop

Next == Step \/ Returned

Spec == Init /\ [][Next]_vars

-----------------------------------------------------------------------------
(* The indexes end at most one past their lists. *)
TypeOK ==
  /\ op \in {"and", "or", "not"}
  /\ a \in Lists /\ b \in Lists
  /\ i \in 1..(Len(a) + 1) /\ j \in 1..(Len(b) + 1)
  /\ out \in Seq(Nat)
  /\ pc \in {"start", "merge", "leapA", "leapB", "done"}

(* What the three functions are for. *)
Combine(S, T) ==
  CASE op = "and" -> S \cap T
    [] op = "or"  -> S \cup T
    [] op = "not" -> S \ T

(* A function returns exactly the numbers its set operation asks for, in   *)
(* ascending order and each once: no leap of intersectSortedSkipInto       *)
(* passes a common number, and the appended rests lose and repeat none.    *)
Correct ==
  pc = "done" => Range(out) = Combine(Range(a), Range(b)) /\ Ascending(out)

(* What was passed in one list is smaller than all that is left in the     *)
(* other, after a leap as well: this is why one comparison of the numbers  *)
(* in front is enough.                                                     *)
FrontsApart ==
  pc \in {"merge", "leapA", "leapB"} =>
    /\ \A m \in 1..(i - 1), n \in j..Len(b) : a[m] < b[n]
    /\ \A n \in 1..(j - 1), m \in i..Len(a) : b[n] < a[m]
=============================================================================
