------------------------------ MODULE InvIndex ------------------------------
(***************************************************************************)
(* The inverted index of lab-5-irindex (index.go): documents, for each     *)
(* term the documents and positions it occurs at, a scratch table that     *)
(* every Add uses again, and a buffer with the numbers of all documents.   *)
(*                                                                         *)
(* Document numbers and positions count from 0, as in the code.            *)
(***************************************************************************)
EXTENDS NumberSets, Sequences, SequencesExt

CONSTANTS
  Terms,      \* the tokens that occur
  Texts,      \* the token sequences a document may have
  MaxDocs     \* bound: documents in an index

ASSUME TextsAssumption == Texts \subseteq Seq(Terms)
ASSUME MaxDocsAssumption == MaxDocs \in Nat

VARIABLES
  docs,       \* ix.Docs: the kept tokens and NTok of each document
  postings,   \* ix.postings: for each term a sequence of [doc, poss]
  scratch,    \* ix.tokScratch
  keys,       \* ix.scratchKeys, as a set
  allIDs,     \* ix.allIDsBuf
  texts       \* history: the tokens each document was added with

indexVars == <<docs, postings, scratch, keys, allIDs, texts>>

Sort(s) ==
  LET order == CHOOSE p \in Bijection(DOMAIN s, DOMAIN s) :
                 \A m, n \in DOMAIN s : m < n => s[p[m]] <= s[p[n]]
  IN [n \in DOMAIN s |-> s[order[n]]]

Positions(tokens, t) == InOrder({p \in 0..(Len(tokens) - 1) : tokens[p + 1] = t})

IndexInit ==
  /\ docs = <<>> /\ texts = <<>>
  /\ postings = [t \in Terms |-> <<>>]
  /\ scratch = [t \in Terms |-> <<>>] /\ keys = {}
  /\ allIDs = <<>>

Uncleared == scratch                   \* mutant: the loop that clears is left out

(* The scratch table without what the last document left in it. *)
Cleared == [t \in Terms |-> IF t \in keys THEN <<>> ELSE scratch[t]]

(* Add keeps the tokens, AddLean does not.  A term becomes a key when it   *)
(* meets an empty scratch entry; only keys get a posting.                  *)
AddDoc(tokens, keep) ==
  LET filled == [t \in Terms |-> Cleared[t] \o Positions(tokens, t)]
      now    == {t \in ToSet(tokens) : Cleared[t] = <<>>}
  IN /\ Len(docs) < MaxDocs
     /\ docs' = Append(docs, [tokens |-> IF keep THEN tokens ELSE <<>>,
                              ntok   |-> Len(tokens)])
     /\ keys' = now
     /\ scratch' = [t \in Terms |-> IF t \in now THEN Sort(filled[t]) ELSE filled[t]]
     /\ postings' =
          [t \in Terms |->
             IF t \in now
             THEN Append(postings[t], [doc |-> Len(docs), poss |-> Sort(filled[t])])
             ELSE postings[t]]
     /\ texts' = Append(texts, tokens)
     /\ UNCHANGED allIDs

DocLen(id) ==
  IF id >= Len(docs) THEN 0
  ELSE LET d == docs[id + 1] IN IF d.ntok > 0 THEN d.ntok ELSE Len(d.tokens)

(* allDocIDs: the buffer is made again when its length no longer fits. *)
AllDocIDs ==
  IF Len(allIDs) = Len(docs) THEN allIDs
  ELSE [n \in 1..Len(docs) |-> n - 1]

-----------------------------------------------------------------------------
(* The posting lists say exactly which documents have a term, in ascending *)
(* order, and at which positions, whatever documents were added before:    *)
(* nothing of an earlier document is left in the scratch table when the    *)
(* next one is added.  The buffer of all document numbers is exact         *)
(* whenever it is read, though it is made again only when its length       *)
(* differs.                                                                *)
IndexIsExact ==
  /\ AllDocIDs = [n \in 1..Len(texts) |-> n - 1]
  /\ \A t \in Terms :
       postings[t] =
         LET having == InOrder({d \in 0..(Len(texts) - 1) : t \in ToSet(texts[d + 1])})
         IN [m \in 1..Len(having) |->
               [doc |-> having[m], poss |-> Positions(texts[having[m] + 1], t)]]
=============================================================================
