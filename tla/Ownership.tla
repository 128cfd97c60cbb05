----------------------------- MODULE Ownership -----------------------------
(***************************************************************************)
(* The ownership protocol of store.rs: the decisions an adapter takes      *)
(* before it creates, claims or takes over an artefact, composed over one  *)
(* ownership record.  Each decision is a pure function there; reading the  *)
(* record and acting on the decision are two steps, and other processes    *)
(* act in between.  Storing a claim compares the record with the one       *)
(* expected.  How writes are fenced is the adapters' affair: NatsStore and *)
(* FileStore.                                                              *)
(***************************************************************************)
EXTENDS Naturals, Sequences, Admission

CONSTANTS Procs, MaxEpoch

VARIABLES
    data,       \* event data exists
    record,     \* RecordedOwnership
    claims,     \* every claim stored, oldest first
    released,   \* epochs with a clean-release record
    proc,       \* what each process knows and holds
    takeover    \* the last claim displaced another: by which verdict

vars == <<data, record, claims, released, proc, takeover>>

(* RecordedOwnership; a record without a claim has no owner and epoch 0. *)
Claim(p, e) == [status |-> "Claimed", owner |-> p, epoch |-> e]
Unclaimed(status) == [status |-> status, owner |-> 0, epoch |-> 0]
Absent == Unclaimed("Absent")
Unowned == Unclaimed("Unowned")
Unreadable == Unclaimed("Unreadable")

(* A process: how far its creation is (CreationProgression), the record as it
   last read it, the verdict of a takeover it evaluated, and its claim. *)
Idle == [creation |-> "none", seen |-> Absent, verdict |-> "none", holds |-> 0]

PresenceNow == Presence(record # Absent, data)
-----------------------------------------------------------------------------
(* evaluate_claim_cas; an expected epoch of 0 stands for None. *)
EvaluateClaimCas(recorded, expected_epoch, candidate) ==
    \/ recorded.status = "Unowned" /\ expected_epoch = 0
    \/ /\ recorded.status = "Claimed"
       /\ recorded.epoch = expected_epoch
       /\ candidate > recorded.epoch

(* evaluate_takeover of the claim that was read, with a clean-release proof of
   an epoch, a proof of the owner's death, or none. *)
EvaluateTakeover(claim, proof) ==
    CASE proof.kind = "CleanRelease" ->
           IF proof.epoch >= claim.epoch THEN "Proven" ELSE "Indeterminate"
      [] proof.kind = "Death" -> "Proven"
      [] proof.kind = "None" -> "Indeterminate"

(* CreationPlan::seed_claim and complete_event_data: which steps may follow. *)
SeedAdmits(creation) == creation = "Unseeded"
CompleteAdmits(creation) == creation = "Seeded"

(* CreationPlan::resume_incomplete_creation: what a record without event data
   lets a process continue from. *)
ResumesAs(recorded) == IF recorded.status = "Claimed" THEN "Seeded" ELSE "Unseeded"
-----------------------------------------------------------------------------
Init ==
    /\ data = FALSE /\ record = Absent /\ claims = <<>> /\ released = {}
    /\ proc = [p \in Procs |-> Idle]
    /\ takeover = "none"

(* CreationPlan::begin and the exclusive creation of an unseeded record. *)
Begin(p) ==
    /\ proc[p].creation = "none" /\ AdmitCreate(PresenceNow)
    /\ record' = Unowned
    /\ proc' = [proc EXCEPT ![p].creation = "Unseeded", ![p].seen = Unowned]
    /\ UNCHANGED <<data, claims, released, takeover>>

(* resume_incomplete_creation with the record as it stands. *)
Resume(p) ==
    /\ proc[p].creation = "none" /\ PresenceNow = "OwnershipRecordOnly"
    /\ record # Unreadable
    /\ proc' = [proc EXCEPT ![p].creation = ResumesAs(record), ![p].seen = record]
    /\ UNCHANGED <<data, record, claims, released, takeover>>

(* The claim is stored if the record is still the expected one. *)
Store(p, expected, epoch, why) ==
    IF EvaluateClaimCas(record, expected, epoch)
    THEN /\ record' = Claim(p, epoch)
         /\ claims' = Append(claims, Claim(p, epoch))
         /\ takeover' = why
    ELSE UNCHANGED <<record, claims, takeover>>

(* CreationPlan::seed_claim: the first claim of an unseeded record. *)
SeedClaim(p) ==
    /\ SeedAdmits(proc[p].creation)
    /\ Store(p, 0, 1, "none")
    /\ proc' = IF EvaluateClaimCas(record, 0, 1)
               THEN [proc EXCEPT ![p].creation = "Seeded", ![p].holds = 1]
               ELSE [proc EXCEPT ![p].creation = "none"]
    /\ UNCHANGED <<data, released>>

(* CreationPlan::complete_event_data: event data is created exclusively. *)
CompleteEventData(p) ==
    /\ CompleteAdmits(proc[p].creation)
    /\ data' = TRUE
    /\ proc' = [proc EXCEPT ![p].creation = IF data THEN "none" ELSE "Complete"]
    /\ UNCHANGED <<record, claims, released, takeover>>

(* admit_open with write intent reads the record; a claim by somebody else
   has to be taken over. *)
Open(p) ==
    /\ proc[p].holds = 0 /\ AdmitOpenWrite(PresenceNow) /\ record # Unreadable
    /\ proc' = [proc EXCEPT ![p].seen = record, ![p].verdict = "none", ![p].creation = "none"]
    /\ UNCHANGED <<data, record, claims, released, takeover>>

(* The proofs a process can have about the claim it read: a clean release
   whose record it found, the death of the owner, or nothing. *)
Proofs(claim) ==
    {[kind |-> "CleanRelease", epoch |-> e] : e \in released}
    \cup {[kind |-> k] : k \in IF proc[claim.owner].holds # claim.epoch
                               THEN {"Death", "None"} ELSE {"None"}}

JudgeTakeover(p) ==
    /\ proc[p].holds = 0 /\ proc[p].verdict = "none" /\ proc[p].seen.status = "Claimed"
    /\ \E proof \in Proofs(proc[p].seen) :
         proc' = [proc EXCEPT ![p].verdict = EvaluateTakeover(proc[p].seen, proof)]
    /\ UNCHANGED <<data, record, claims, released, takeover>>

(* A claim over the claim that was read, after a proven takeover or, when that
   was indeterminate, on the operator's initiative. *)
TakeOver(p) ==
    /\ proc[p].holds = 0 /\ proc[p].creation = "none" /\ proc[p].verdict # "none"
    /\ \E candidate \in 1 .. MaxEpoch :
         /\ Store(p, proc[p].seen.epoch, candidate, proc[p].verdict)
         /\ proc' = IF EvaluateClaimCas(record, proc[p].seen.epoch, candidate)
                    THEN [proc EXCEPT ![p].holds = candidate, ![p].verdict = "none"]
                    ELSE [proc EXCEPT ![p] = Idle]
    /\ UNCHANGED <<data, released>>

(* An owner records a clean release of the epoch it holds and lets it go, even
   if it has been displaced without noticing. *)
Release(p) ==
    /\ proc[p].holds # 0
    /\ released' = released \cup {proc[p].holds}
    /\ proc' = [proc EXCEPT ![p] = Idle]
    /\ UNCHANGED <<data, record, claims, takeover>>

(* The record is damaged and read by nobody any more. *)
Damage ==
    /\ record.status = "Claimed"
    /\ record' = Unreadable
    /\ UNCHANGED <<data, claims, released, proc, takeover>>

(* The process dies: it knows and holds nothing. *)
Die(p) ==
    /\ proc[p] # Idle
    /\ proc' = [proc EXCEPT ![p] = Idle]
    /\ UNCHANGED <<data, record, claims, released, takeover>>

Next ==
    \/ Damage
    \/ \E p \in Procs :
        \/ Begin(p) \/ Resume(p) \/ SeedClaim(p) \/ CompleteEventData(p) \/ Open(p)
        \/ JudgeTakeover(p) \/ TakeOver(p) \/ Release(p) \/ Die(p)

Spec == Init /\ [][Next]_vars
-----------------------------------------------------------------------------
RecordedOwnership ==
    [status : {"Absent", "Unowned", "Unreadable", "Claimed"},
     owner : Procs \cup {0}, epoch : Nat]
StoredClaim == [status : {"Claimed"}, owner : Procs, epoch : Nat \ {0}]
Process ==
    [creation : {"none", "Unseeded", "Seeded", "Complete"},
     seen : RecordedOwnership,
     verdict : {"none", "Proven", "Indeterminate"},
     holds : Nat]

TypeOK ==
    /\ data \in BOOLEAN
    /\ record \in RecordedOwnership
    /\ claims \in Seq(StoredClaim)
    /\ released \in SUBSET Nat
    /\ proc \in [Procs -> Process]
    /\ takeover \in {"none", "Proven", "Indeterminate"}

(* Claims evaluated against records that were read earlier, by any number of
   processes that race for them: every epoch has one owner, and epochs grow. *)
OneOwnerPerEpoch ==
    /\ \A i, j \in 1 .. Len(claims) : i < j => claims[i].epoch < claims[j].epoch
    /\ \A p, q \in Procs : proc[p].holds # 0 /\ proc[p].holds = proc[q].holds => p = q

(* CreationPlan: whoever begins, dies, resumes from the record alone and
   completes, there is no event data before somebody's claim is stored. *)
DataAfterClaim == data => claims # <<>>

(* evaluate_takeover: a proof, judged on a claim that may be superseded by the
   time the takeover is stored, never displaces an owner that still holds it. *)
ProofsDisplaceNobody ==
    takeover = "Proven" =>
        LET displaced == claims[Len(claims) - 1]
        IN proc[displaced.owner].holds # displaced.epoch
============================================================================
