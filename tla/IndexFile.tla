------------------------------ MODULE IndexFile ------------------------------
(***************************************************************************)
(* The index file of lab-5-irindex (storage.go) between the command that   *)
(* writes it, irindex, and the one that maps it, irquery.  Nothing orders  *)
(* the two: a save truncates the file in place and fills it while a reader *)
(* may have it mapped, and a save that fails or whose process ends leaves  *)
(* what it has written.                                                    *)
(*                                                                         *)
(* The file is its bytes, as the header's layout makes them, so that it    *)
(* can be cut anywhere; posting lists are encoded and decoded by the two   *)
(* operators it is parameterised with.  A mapping is shared: its bytes are *)
(* those of the file at the moment they are read.  Beyond the end of a     *)
(* file that has become shorter it reads as zeros up to the end of the     *)
(* page, and ends the process after that.                                  *)
(***************************************************************************)
EXTENDS Bytes, FiniteSets

CONSTANTS
  Indexes,    \* the indexes that are saved: docs, with their titles and
              \* lengths, and a posting list for each term
  encode(_),  \* encodePostings, which SaveCompressed hands to saveIndexFile
  decode(_),  \* decodePostings
  LookedUp,   \* the terms that are looked up
  MaxName,    \* 0xffff: the longest title and term, in bytes
  MaxSaves    \* bound: calls of SaveCompressed

Strings == Seq(0..(ByteSize - 1))

ASSUME NameAssumption == MaxName \in 1..(HalfSize - 1)
ASSUME MaxSavesAssumption == MaxSaves \in Nat

(* The lengths and the counts of an index are numbers of 32 bits.          *)
ASSUME IndexAssumption ==
  \A ix \in Indexes :
    /\ ix.docs \in Seq([title : Strings, len : 0..(WordSize - 1)])
    /\ Len(ix.docs) < WordSize
    /\ IsFiniteSet(DOMAIN ix.postings) /\ Cardinality(DOMAIN ix.postings) < WordSize
    /\ \A t \in DOMAIN ix.postings : t \in Strings

(* Codecs is such a codec for the posting lists of the instances.          *)
ASSUME CodecAssumption ==
  \A ix \in Indexes : \A t \in DOMAIN ix.postings :
    LET raw == encode(ix.postings[t])
    IN  /\ raw \in Strings /\ Len(raw) < WordSize
        /\ decode(raw) = Decoded(ix.postings[t])

VARIABLES
  file,       \* the bytes of the file; <<>> also if there is none
  writing,    \* a save is under way
  unwritten,  \* the bytes it has still to write
  saves,      \* the saves so far
  reader,     \* "closed", "opening" (between Stat and parseHeader) or "open"
  size,       \* the length of the mapping
  header,     \* mi.docLens, mi.titles and mi.terms
  got,        \* the answer to the last lookup in the open file, if any
  asked,      \* history: the index of the last save that reached the file
  touched     \* history: a save has changed the file since Stat

writerVars == <<file, writing, unwritten, saves, asked>>
readerVars == <<reader, size, header, got>>
fileVars == <<writerVars, readerVars, touched>>

-----------------------------------------------------------------------------
(* What saveIndexFile puts into its buffer. *)
fileMagic == <<9, 18, 9, 24, 22, 3, 16, 4>>

(* The order of sort.Strings: where they first differ, s has ended or has  *)
(* the smaller byte.                                                       *)
Precedes(s, t) ==
  \E n \in 1..Len(t) :
    /\ \A m \in 1..(n - 1) : m <= Len(s) /\ s[m] = t[m]
    /\ n = Len(s) + 1 \/ (n <= Len(s) /\ s[n] < t[n])

Sorted(terms) ==
  [n \in 1..Cardinality(terms) |->
     CHOOSE t \in terms : Cardinality({s \in terms : Precedes(s, t)}) = n - 1]

(* A longer title is cut. *)
StoredTitle(doc) ==
  IF Len(doc.title) > MaxName THEN SubSeq(doc.title, 1, MaxName) ELSE doc.title

Named(s) == U16(Len(s)) \o s

TermEntry(ix, t) == Named(t) \o Chunk(encode(ix.postings[t]))

Image(ix) ==
  LET docs  == ix.docs
      terms == Sorted(DOMAIN ix.postings)
  IN  fileMagic \o U32(Len(docs)) \o U32(Len(terms))
        \o FlattenSeq([d \in 1..Len(docs) |-> U32(docs[d].len)])
        \o FlattenSeq([d \in 1..Len(docs) |-> Named(StoredTitle(docs[d]))])
        \o FlattenSeq([n \in 1..Len(terms) |-> TermEntry(ix, terms[n])])

CanBeSaved(ix) == \A t \in DOMAIN ix.postings : Len(t) <= MaxName

-----------------------------------------------------------------------------
(* parseHeader: what it has read so far, and the place where that ends.    *)
ReadNothing(at) == [err |-> FALSE, val |-> <<>>, next |-> at]
Refused == [err |-> TRUE, val |-> <<>>, next |-> 0]

ReadTitle(data, soFar) ==
  LET l    == GetU16(data, soFar.next)
      body == soFar.next + 2
  IN  IF soFar.err \/ EndsBefore(data, soFar.next, 2) \/ EndsBefore(data, body, l)
      THEN Refused
      ELSE [err |-> FALSE, val |-> Append(soFar.val, Slice(data, body, l)), next |-> body + l]

ReadTitles(data, at, n) ==
  LET after[d \in 0..n] == IF d = 0 THEN ReadNothing(at) ELSE ReadTitle(data, after[d - 1])
  IN  after[n]

WithEntry(map, key, val) ==
  [k \in DOMAIN map \union {key} |-> IF k = key THEN val ELSE map[k]]

PlaceEarly(lnAt) == lnAt     \* mutant: off is taken before the length is passed

(* A posting list follows its length. *)
PlaceOf(lnAt) == lnAt + 4

ReadUncheckedTerm(data, soFar) ==     \* mutant: a posting list may end anywhere
  LET l    == GetU16(data, soFar.next)
      body == soFar.next + 2
      ln   == GetU32(data, body + l)
  IN  IF soFar.err \/ EndsBefore(data, soFar.next, 2) \/ EndsBefore(data, body, l + 4)
      THEN Refused
      ELSE [err  |-> FALSE,
            val  |-> WithEntry(soFar.val, Slice(data, body, l),
                         [off |-> PlaceOf(body + l), ln |-> ln]),
            next |-> body + l + 4 + ln]

(* A term is mapped to the place and the length of its posting list. *)
ReadTerm(data, soFar) ==
  LET l    == GetU16(data, soFar.next)
      body == soFar.next + 2
      ln   == GetU32(data, body + l)
  IN  IF \/ soFar.err \/ EndsBefore(data, soFar.next, 2) \/ EndsBefore(data, body, l + 4)
         \/ EndsBefore(data, body + l + 4, ln)
      THEN Refused
      ELSE [err  |-> FALSE,
            val  |-> WithEntry(soFar.val, Slice(data, body, l),
                         [off |-> PlaceOf(body + l), ln |-> ln]),
            next |-> body + l + 4 + ln]

ReadTerms(data, at, n) ==
  LET after[m \in 0..n] == IF m = 0 THEN ReadNothing(at) ELSE ReadTerm(data, after[m - 1])
  IN  after[n]

parseHeader(data) ==
  LET nDocs  == GetU32(data, 9)
      nTerms == GetU32(data, 13)
      titles == ReadTitles(data, 17 + 4 * nDocs, nDocs)
      terms  == ReadTerms(data, titles.next, nTerms)
  IN  IF Len(data) < 16 THEN Failed
      ELSE IF SubSeq(data, 1, 8) # fileMagic THEN Failed
      ELSE IF EndsBefore(data, 17, 4 * nDocs) THEN Failed
      ELSE IF titles.err THEN Failed
      ELSE IF terms.err THEN Failed
      ELSE Decoded([docLens |-> [d \in 1..nDocs |-> GetU32(data, 17 + 4 * (d - 1))],
                    titles  |-> titles.val,
                    terms   |-> terms.val])

(* The bytes that the mapping shows, as far as it can be read. *)
Mapped == [n \in 1..size |-> IF n <= Len(file) THEN file[n] ELSE 0]

-----------------------------------------------------------------------------
NoHeader == [docLens |-> <<>>, titles |-> <<>>, terms |-> <<>>]

FileInit ==
  /\ file = <<>> /\ writing = FALSE /\ unwritten = <<>> /\ saves = 0
  /\ reader = "closed" /\ size = 0 /\ header = NoHeader /\ got = {}
  /\ asked = CHOOSE ix \in Indexes : TRUE
  /\ touched = FALSE

Touch == touched' = (reader # "closed")

(* SaveCompressed: a term that is too long is noticed while the buffer is  *)
(* filled, before the file is touched; os.WriteFile truncates the file.    *)
SaveCompressed(ix) ==
  /\ ~writing /\ saves < MaxSaves
  /\ saves' = saves + 1
  /\ \/ ~CanBeSaved(ix) /\ UNCHANGED <<file, writing, unwritten, asked, touched>>
     \/ /\ CanBeSaved(ix)
        /\ file' = <<>> /\ writing' = TRUE /\ unwritten' = Image(ix)
        /\ asked' = ix
        /\ Touch
  /\ UNCHANGED readerVars

(* The operating system takes the bytes in portions of any length. *)
Write ==
  /\ writing /\ unwritten # <<>>
  /\ file' = Append(file, Head(unwritten))
  /\ unwritten' = Tail(unwritten)
  /\ Touch
  /\ UNCHANGED <<writing, saves, asked, readerVars>>

(* The save returns, with an error if bytes are missing, or its process    *)
(* ends.                                                                   *)
StopSaving ==
  /\ writing
  /\ writing' = FALSE /\ unwritten' = <<>>
  /\ UNCHANGED <<file, saves, asked, readerVars, touched>>

(* OpenMMapIndex up to Mmap, which refuses an empty file; a missing file   *)
(* is refused as well.                                                     *)
Stat ==
  /\ reader = "closed" /\ file # <<>>
  /\ reader' = "opening" /\ size' = Len(file)
  /\ UNCHANGED <<writerVars, header, got, touched>>

Forget ==
  /\ reader' = "closed" /\ size' = 0 /\ header' = NoHeader /\ got' = {}
  /\ touched' = FALSE
  /\ UNCHANGED writerVars

(* parseHeader reads the mapping; the mapping is closed if it fails. *)
Parse ==
  /\ reader = "opening"
  /\ LET parsed == parseHeader(Mapped)
     IN \/ parsed.err /\ Forget
        \/ /\ ~parsed.err
           /\ reader' = "open" /\ header' = parsed.val
           /\ UNCHANGED <<writerVars, size, got, touched>>

(* Postings: from the mapping, each time it is called. *)
Postings(t) ==
  IF t \notin DOMAIN header.terms THEN Decoded(<<>>)
  ELSE decode(Slice(Mapped, header.terms[t].off, header.terms[t].ln))

DocIDs(ps) == [n \in 1..Len(ps) |-> ps[n].doc]

(* postingDocIDs takes an error for a term that is in no document. *)
LookupPostings(t) ==
  /\ reader = "open"
  /\ LET list == Postings(t)
     IN  got' = {[term |-> t, list |-> list, docIDs |-> DocIDs(list.val)]}
  /\ UNCHANGED <<writerVars, reader, size, header, touched>>

(* The mapping is removed. *)
Close == reader = "open" /\ Forget

(* The reader looks at a page that the file no longer has. *)
Fault == reader # "closed" /\ Len(file) < size /\ Forget

FileStep ==
  \/ \E ix \in Indexes : SaveCompressed(ix)
  \/ Write \/ StopSaving
  \/ Stat \/ Parse \/ Close \/ Fault
  \/ \E t \in LookedUp : LookupPostings(t)

FileSpec == FileInit /\ [][FileStep]_fileVars

-----------------------------------------------------------------------------
(* An index that opens is one that was saved to the end, with the lengths, *)
(* titles and terms that were saved: what a failed or interrupted save has *)
(* left is refused by parseHeader, wherever it stopped.  Nothing is said   *)
(* of a file that a save changes while it is being opened.                 *)
OpenedIsWhole ==
  reader = "open" /\ ~touched =>
    /\ file = Image(asked)
    /\ header.docLens = [d \in 1..Len(asked.docs) |-> asked.docs[d].len]
    /\ header.titles = [d \in 1..Len(asked.docs) |-> StoredTitle(asked.docs[d])]
    /\ DOMAIN header.terms = DOMAIN asked.postings

(* As long as no save has come in between, every lookup returns the        *)
(* posting list that was saved, and the error that postingDocIDs would     *)
(* hide does not occur.                                                    *)
LookupsExact ==
  ~touched =>
    \A g \in got :
      LET saved == IF g.term \in DOMAIN asked.postings
                   THEN asked.postings[g.term] ELSE <<>>
      IN  g.list = Decoded(saved) /\ g.docIDs = DocIDs(saved)
=============================================================================
