----------------------------- MODULE TermWindow -----------------------------
(***************************************************************************)
(* msmInDoc of eval.go: does a document have a window of positions in      *)
(* which each term of the query occurs as often as the query names it?     *)
(* Two indexes move over the occurrences of the query's terms, a count per *)
(* term follows them.                                                      *)
(*                                                                         *)
(* One step is the addition of one occurrence or one iteration of the loop *)
(* that shrinks the window.  Indexes count from 1, positions from 0.       *)
(***************************************************************************)
EXTENDS NumberSets, Sequences

CONSTANTS
  Documents,    \* sequences of tokens
  TermLists,    \* the lists of terms of queries, a term may be repeated
  Widths        \* the widths W

VARIABLES
  doc, terms, w,   \* the arguments
  have,            \* for each term: its occurrences in the window
  l, r,            \* the first and the last occurrence in the window
  answer, windowPc \* the answer; "start", "add", "shrink" or "done"

args == <<doc, terms, w>>
windowVars == <<doc, terms, w, have, l, r, answer, windowPc>>

Indexes(s, t) == {n \in 1..Len(s) : s[n] = t}

TermsOf(s) == {s[n] : n \in 1..Len(s)}

ASSUME WindowsAssumption ==
  /\ \A s \in Documents \cup TermLists : s \in Seq(TermsOf(s))
  /\ Widths \subseteq Int

(* How often the query names each of its terms. *)
need == [t \in TermsOf(terms) |-> Cardinality(Indexes(terms, t))]

(* The occurrences of the query's terms in the document, in its order. *)
evs ==
  LET at == InOrder({n \in 1..Len(doc) : doc[n] \in DOMAIN need})
  IN [m \in 1..Len(at) |-> [pos |-> at[m] - 1, t |-> doc[at[m]]]]

Satisfied == \A t \in DOMAIN need : have[t] >= need[t]

Narrow == evs[r].pos - evs[l].pos < w                       \* mutant: off by one
Fits == evs[r].pos - evs[l].pos <= w

WindowInit ==
  /\ doc \in Documents /\ terms \in TermLists /\ w \in Widths
  /\ have = [t \in DOMAIN need |-> 0]
  /\ l = 1 /\ r = 0
  /\ answer = FALSE
  /\ windowPc = "start"

(* No tokens, no terms, or no occurrence of any. *)
NothingToFind ==
  /\ windowPc = "start"
  /\ doc = <<>> \/ terms = <<>> \/ evs = <<>>
  /\ windowPc' = "done"
  /\ UNCHANGED <<args, have, l, r, answer>>

EnterWindow ==
  /\ windowPc = "start"
  /\ doc # <<>> /\ terms # <<>> /\ evs # <<>>
  /\ windowPc' = "add"
  /\ UNCHANGED <<args, have, l, r, answer>>

(* The next occurrence joins the window. *)
AddOccurrence ==
  /\ windowPc = "add" /\ r < Len(evs)
  /\ r' = r + 1
  /\ have' = [have EXCEPT ![evs[r + 1].t] = @ + 1]
  /\ windowPc' = "shrink"
  /\ UNCHANGED <<args, l, answer>>

FindWindow ==
  /\ windowPc = "shrink" /\ Satisfied /\ Fits
  /\ answer' = TRUE
  /\ windowPc' = "done"
  /\ UNCHANGED <<args, have, l, r>>

(* The window has all terms and is too wide: its first occurrence leaves. *)
DropFirst ==
  /\ windowPc = "shrink" /\ Satisfied /\ ~Fits
  /\ have' = [have EXCEPT ![evs[l].t] = @ - 1]
  /\ l' = l + 1
  /\ windowPc' = IF l + 1 > r THEN "add" ELSE "shrink"
  /\ UNCHANGED <<args, r, answer>>

KeepWindow ==
  /\ windowPc = "shrink" /\ ~Satisfied
  /\ windowPc' = "add"
  /\ UNCHANGED <<args, have, l, r, answer>>

NoWindow ==
  /\ windowPc = "add" /\ r = Len(evs)
  /\ windowPc' = "done"
  /\ UNCHANGED <<args, have, l, r, answer>>

WindowReturned == windowPc = "done" /\ UNCHANGED windowVars

WindowStep ==
  \/ NothingToFind \/ EnterWindow \/ AddOccurrence \/ FindWindow
  \/ DropFirst \/ KeepWindow \/ NoWindow

WindowNext == WindowStep \/ WindowReturned

WindowSpec == WindowInit /\ [][WindowNext]_windowVars

-----------------------------------------------------------------------------
(* A window of positions from .. to that is narrow enough and has every    *)
(* term as often as the query names it.                                    *)
IsWindow(from, to) ==
  /\ to - from <= w
  /\ \A t \in TermsOf(terms) :
       Cardinality({n \in Indexes(doc, t) : n - 1 \in from..to}) >=
         Cardinality(Indexes(terms, t))

(* The meaning that ast.go gives MSM: the answer is yes exactly if some    *)
(* window of all those in the document will do.  The loop looks at a few.  *)
WindowCorrect ==
  windowPc = "done" =>
    (answer <=> /\ terms # <<>>
               /\ \E from, to \in 0..(Len(doc) - 1) :
                    from <= to /\ IsWindow(from, to))
=============================================================================
