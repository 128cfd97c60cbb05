----------------------------- MODULE Admission -----------------------------
(***************************************************************************)
(* Which parts of an artefact stand in storage, and what may then be done  *)
(* with it (ArtefactPresence, admit_create and admit_open of               *)
(* crates/pardosa/src/store.rs).  Both storage adapters ask this first.    *)
(***************************************************************************)

(* try_presence, for an ownership record and event data that exist or not. *)
Presence(record, data) ==
    CASE record /\ data   -> "Both"
      [] record /\ ~data  -> "OwnershipRecordOnly"
      [] ~record /\ data  -> "EventDataOnly"
      [] ~record /\ ~data -> "None"

AdmitCreate(presence) == presence = "None"

(* admit_open without write intent: an orphan may be read. *)
AdmitOpenRead(presence) == presence # "None"

(* The arms of open_write, and of complete_creation, on the presence. *)
AdmitOpenWrite(presence) == presence = "Both"

AdmitCompletion(presence) == presence = "OwnershipRecordOnly"
=============================================================================
