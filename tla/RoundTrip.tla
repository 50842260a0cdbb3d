------------------------------ MODULE RoundTrip ------------------------------
(***************************************************************************)
(* One value is encoded, some of its bytes may get lost at the end, and    *)
(* the rest is decoded: the codecs of posting lists, which the tests of    *)
(* lab-5-irindex call in this way, and the key index of lab-1-3hashAlgos.  *)
(***************************************************************************)
EXTENDS Codecs, PerfectHash

CONSTANTS
  Streams,      \* sequences of uint32
  PostingLists, \* posting lists
  KeyLists      \* arguments of Build

VARIABLES
  form,         \* what is encoded, and how
  value,        \* the value
  data,         \* its bytes
  whole,        \* FALSE: the last bytes got lost
  result,       \* what the decoder returned
  tripPc        \* "start", "stored" or "done"

tripVars == <<form, value, data, whole, result, tripPc>>

Forms ==
  [p4       |-> Streams,
   optimal  |-> Streams,
   bitpack  |-> Streams,
   postings |-> PostingLists,
   baseline |-> PostingLists,
   table    |-> KeyLists]

TripInit ==
  /\ \E f \in DOMAIN Forms : form = f /\ value \in Forms[f]
  /\ data = <<>> /\ whole = TRUE /\ result = Failed /\ tripPc = "start"

Stores(bytes) ==
  /\ data' = bytes /\ tripPc' = "stored"
  /\ UNCHANGED <<form, value, whole, result>>

StoreP4       == form = "p4" /\ Stores(encodePForDelta(value))
StoreOptimal  == form = "optimal" /\ Stores(encodeOptimalStream(value).payload)
StoreBitpack  == form = "bitpack" /\ Stores(encodeBitpackStream(value).payload)
StorePostings == form = "postings" /\ Stores(encodePostings(value))
StoreBaseline == form = "baseline" /\ Stores(encodePostingsP4Bitpack(value))

(* Build refuses a list with a key twice; otherwise the table is stored. *)
StoreTable ==
  /\ form = "table"
  /\ LET built == Build(value) IN
       \/ built.err /\ tripPc' = "done" /\ UNCHANGED <<form, value, data, whole, result>>
       \/ ~built.err /\ \E bytes \in Serialized(built.val) : Stores(bytes)

Store ==
  /\ tripPc = "start"
  /\ \/ StoreP4 \/ StoreOptimal \/ StoreBitpack
     \/ StorePostings \/ StoreBaseline \/ StoreTable

(* The data are cut short. *)
Lose(n) ==
  /\ tripPc = "stored" /\ whole /\ n < Len(data)
  /\ data' = SubSeq(data, 1, n) /\ whole' = FALSE
  /\ UNCHANGED <<form, value, result, tripPc>>

(* The codec of a stream and the count come from the header of the list. *)
Loaded ==
  CASE form = "p4"       -> decodePForDelta(data, Len(value))
    [] form = "optimal"  ->
         decodeStream(encodeOptimalStream(value).codec, data, Len(value))
    [] form = "bitpack"  -> decodeStream(streamBitpack, data, Len(value))
    [] form = "postings" -> decodePostings(data)
    [] form = "baseline" -> decodePostings(data)
    [] form = "table"    -> Deserialize(data)

Load ==
  /\ tripPc = "stored"
  /\ result' = Loaded /\ tripPc' = "done"
  /\ UNCHANGED <<form, value, data, whole>>

TripStep == Store \/ (\E n \in 0..Len(data) : Lose(n)) \/ Load

TripSpec == TripInit /\ [][TripStep]_tripVars

-----------------------------------------------------------------------------
(* What was stored comes back: every stream of numbers, whatever blocks,   *)
(* widths and exceptions it takes, every posting list, and every table of  *)
(* distinct keys, in whatever order its entries were written.  A list with *)
(* a key twice is refused before anything is stored.                       *)
ComesBack ==
  tripPc = "done" /\ whole =>
    IF form # "table" THEN result = Decoded(value)
    ELSE IF Build(value).err THEN result.err /\ data = <<>>
    ELSE /\ ~result.err
         /\ DOMAIN result.val = ToSet(value)
         /\ \A n \in 1..Len(value) :
              Lookup(result.val, value[n]) = [i |-> n - 1, ok |-> TRUE]

(* Data that lost bytes at the end are refused, wherever they were cut,    *)
(* and never decoded to something else.  A key table cut down to nothing   *)
(* is taken for the empty table.                                           *)
CutRefused ==
  tripPc = "done" /\ ~whole =>
    IF form = "table" /\ data = <<>> THEN result = Decoded(<<>>) ELSE result.err
=============================================================================
