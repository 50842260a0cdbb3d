---------------------------- MODULE MCStoredBytes ----------------------------
(* Bytes have 5 bits, so that a word has 20, and blocks three numbers with *)
(* at most one exception.                                                  *)
EXTENDS StoredBytes

Posting(doc, poss) == [doc |-> doc, poss |-> poss]

SeqsUpTo(S, n) == UNION {[1..m -> S] : m \in 0..n}

Max32 == 2 ^ 20 - 1

(* The streams hold numbers at both ends of a word and on both sides of    *)
(* the limit of a byte of a varint, and fill up to three blocks; posting   *)
(* lists have gaps and positions of that kind.                             *)
MCStreams == SeqsUpTo({0, 1, 15, 16, 32, Max32}, 3) \cup [1..4 -> {0, 2, 1024}]
             \cup {<<7, 7, 7, 7, 7, 7, 32>>}

MCPostingLists ==
  {<<>>} \cup
  {<<Posting(d, p)>> : d \in {0, 1, Max32}, p \in {<<0>>, <<3, 4>>, <<0, 40, Max32>>}} \cup
  {<<Posting(0, <<0, 1>>), Posting(1, <<1>>), Posting(2, <<0>>),
     Posting(d, <<5, 6, 7>>), Posting(Max32, <<q>>)>> : d \in {3, 36}, q \in {0, 600}}

MCKeyLists == SeqsUpTo({<<>>, <<1>>, <<1, 31>>, <<0, 0, 0>>}, 3)

a == <<1>>
ab == <<1, 2>>
long == <<3, 3, 3>>
unknown == <<7>>

Document(title, len) == [title |-> title, len |-> len]

(* Nothing; one document; titles and terms at the limit and above it.      *)
MCIndexes == {
  [docs |-> <<>>, postings |-> <<>>],
  [docs |-> <<Document(<<5>>, 2)>>,
   postings |-> a :> <<Posting(0, <<0>>)>> @@ ab :> <<Posting(0, <<1>>)>>],
  [docs |-> <<Document(<<>>, 1), Document(<<5, 6, 7>>, 2)>>,
   postings |-> a :> <<Posting(0, <<0>>), Posting(1, <<0, 1>>)>>],
  [docs |-> <<Document(<<>>, 1)>>, postings |-> long :> <<Posting(0, <<0>>)>>] }

MCLookedUp == {a, ab, unknown}
=============================================================================
