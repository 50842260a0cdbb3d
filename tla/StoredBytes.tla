----------------------------- MODULE StoredBytes -----------------------------
(***************************************************************************)
(* What the labs store as bytes: one value after the other, encoded and    *)
(* decoded again, and the index file, whose posting lists the same codecs  *)
(* make.  The two do not interact: a behaviour is one of one of them, the  *)
(* other stays as it began.                                                *)
(***************************************************************************)
EXTENDS RoundTrip, IndexFile

VARIABLE storage   \* "value" or "file"

storageVars == <<storage, tripVars, fileVars>>

StorageInit ==
  /\ \/ storage = "value" /\ TripInit
     \/ /\ storage = "file"
        /\ form = "none" /\ value = <<>> /\ data = <<>> /\ whole = TRUE
        /\ result = Failed /\ tripPc = "none"
  /\ FileInit

StorageNext ==
  /\ UNCHANGED storage
  /\ \/ storage = "value" /\ TripStep /\ UNCHANGED fileVars
     \/ storage = "file" /\ FileStep /\ UNCHANGED tripVars

StorageSpec == StorageInit /\ [][StorageNext]_storageVars
=============================================================================
