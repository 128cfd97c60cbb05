-------------------------- MODULE OwnershipProofs --------------------------
(***************************************************************************)
(* Safety of Ownership for any number of processes and epochs.             *)
(***************************************************************************)
EXTENDS Ownership, SequenceTheorems, TLAPS

(* The record is the last claim; only a record without a claim had none. *)
RecordInv ==
    /\ record.status = "Claimed" => claims # <<>> /\ record = claims[Len(claims)]
    /\ record.status \in {"Absent", "Unowned"} => claims = <<>>

(* Epochs of claims grow. *)
ClaimsInv == \A i, j \in 1 .. Len(claims) : i < j => claims[i].epoch < claims[j].epoch

IsClaim(c) == \E i \in 1 .. Len(claims) : claims[i] = c

(* What a process holds, has read and does is backed by a stored claim.  A
   claim can have been read only while seeded, or once there is data. *)
ProcInv(p) ==
    /\ proc[p].holds # 0 => IsClaim(Claim(p, proc[p].holds))
    /\ proc[p].seen.status = "Claimed" => IsClaim(proc[p].seen)
    /\ proc[p].verdict # "none" => proc[p].seen.status = "Claimed"
    /\ proc[p].seen.status = "Claimed" => data \/ proc[p].creation = "Seeded"
    /\ proc[p].creation = "Seeded" => claims # <<>>

(* Nobody holds a released epoch. *)
ReleasedInv ==
    \A e \in released :
        /\ \E i \in 1 .. Len(claims) : claims[i].epoch = e
        /\ \A p \in Procs : proc[p].holds # e

(* A proof of the claim that is still recorded is a proof that it is free. *)
FreeIfProven(p) ==
    /\ proc[p].verdict = "Proven" /\ record.status = "Claimed"
    /\ record.epoch = proc[p].seen.epoch
    => proc[record.owner].holds # record.epoch

VerdictInv == \A p \in Procs : FreeIfProven(p)

DisplacedInv ==
    takeover = "Proven" =>
        /\ Len(claims) >= 2
        /\ proc[claims[Len(claims) - 1].owner].holds # claims[Len(claims) - 1].epoch

IInv ==
    /\ TypeOK /\ RecordInv /\ ClaimsInv /\ ReleasedInv
    /\ \A p \in Procs : ProcInv(p)
    /\ VerdictInv /\ DisplacedInv /\ DataAfterClaim
-----------------------------------------------------------------------------
(* A claim is stored, or nothing of the record changes. *)
LEMMA StoreCases ==
  ASSUME NEW p, NEW expected, NEW e, NEW why, Store(p, expected, e, why)
  PROVE  \/ /\ EvaluateClaimCas(record, expected, e)
            /\ record' = Claim(p, e)
            /\ claims' = Append(claims, Claim(p, e))
            /\ takeover' = why
         \/ /\ ~EvaluateClaimCas(record, expected, e)
            /\ record' = record /\ claims' = claims /\ takeover' = takeover
  BY Zenon DEF Store

(* A step changes what one process knows, or damages the record. *)
LEMMA TypeStep ==
  ASSUME TypeOK, [Next]_vars
  PROVE  TypeOK'
<1>0. Absent \in RecordedOwnership /\ Unowned \in RecordedOwnership
      /\ Unreadable \in RecordedOwnership /\ Idle \in Process
  BY DEF Absent, Unowned, Unreadable, Unclaimed, RecordedOwnership, Idle, Process
<1>a. proc \in [Procs -> Process] /\ record \in RecordedOwnership
  BY DEF TypeOK
<1>1. CASE Damage
  BY <1>0, <1>1 DEF TypeOK, Damage
<1>2. ASSUME NEW p \in Procs, Begin(p) PROVE TypeOK'
  BY <1>0, <1>2 DEF TypeOK, Begin, Process
<1>3. ASSUME NEW p \in Procs, Resume(p) PROVE TypeOK'
  <2>1. ResumesAs(record) \in {"none", "Unseeded", "Seeded", "Complete"}
    BY DEF ResumesAs
  <2>2. proc' \in [Procs -> Process]
    <3>1. [proc[p] EXCEPT !.creation = ResumesAs(record), !.seen = record] \in Process
      BY <1>a, <2>1 DEF Process
    <3>2. proc' = [proc EXCEPT ![p] = [proc[p] EXCEPT !.creation = ResumesAs(record),
                                                      !.seen = record]]
      BY <1>a, <1>3 DEF Resume
    <3> QED
      BY <1>a, <3>1, <3>2
  <2> QED
    BY <1>3, <2>2 DEF TypeOK, Resume
<1>4. ASSUME NEW p \in Procs, SeedClaim(p) PROVE TypeOK'
  <2>1. Claim(p, 1) \in RecordedOwnership /\ Claim(p, 1) \in StoredClaim
    BY DEF Claim, RecordedOwnership, StoredClaim
  <2>2. /\ record' \in RecordedOwnership
        /\ claims' \in Seq(StoredClaim)
        /\ takeover' \in {"none", "Proven", "Indeterminate"}
    <3>1. Store(p, 0, 1, "none")
      BY <1>4 DEF SeedClaim
    <3>2. Append(claims, Claim(p, 1)) \in Seq(StoredClaim)
      BY <2>1 DEF TypeOK
    <3>3. \/ record' = Claim(p, 1) /\ claims' = Append(claims, Claim(p, 1))
             /\ takeover' = "none"
          \/ record' = record /\ claims' = claims /\ takeover' = takeover
      BY <3>1, StoreCases, Zenon
    <3> QED
      BY <2>1, <3>2, <3>3 DEF TypeOK
  <2>3. proc' \in [Procs -> Process]
    <3>1. /\ [proc EXCEPT ![p].creation = "Seeded", ![p].holds = 1] \in [Procs -> Process]
          /\ [proc EXCEPT ![p].creation = "none"] \in [Procs -> Process]
      BY <1>a DEF Process
    <3> QED
      BY <1>4, <3>1 DEF SeedClaim
  <2> QED
    BY <1>4, <2>2, <2>3 DEF TypeOK, SeedClaim
<1>5. ASSUME NEW p \in Procs, CompleteEventData(p) PROVE TypeOK'
  <2>1. proc' \in [Procs -> Process]
    BY <1>a, <1>5 DEF CompleteEventData, Process
  <2> QED
    BY <1>5, <2>1 DEF TypeOK, CompleteEventData
<1>6. ASSUME NEW p \in Procs, Open(p) PROVE TypeOK'
  <2>1. proc' \in [Procs -> Process]
    <3>1. [proc[p] EXCEPT !.seen = record, !.verdict = "none", !.creation = "none"] \in Process
      BY <1>a DEF Process
    <3>2. proc' = [proc EXCEPT ![p] = [proc[p] EXCEPT !.seen = record, !.verdict = "none",
                                                      !.creation = "none"]]
      BY <1>a, <1>6 DEF Open
    <3> QED
      BY <1>a, <3>1, <3>2
  <2> QED
    BY <1>6, <2>1 DEF TypeOK, Open
<1>7. ASSUME NEW p \in Procs, JudgeTakeover(p) PROVE TypeOK'
  <2>1. PICK proof \in Proofs(proc[p].seen) :
          proc' = [proc EXCEPT ![p].verdict = EvaluateTakeover(proc[p].seen, proof)]
    BY <1>7 DEF JudgeTakeover
  <2>2. EvaluateTakeover(proc[p].seen, proof) \in {"Proven", "Indeterminate"}
    BY DEF EvaluateTakeover, Proofs
  <2>3. proc' \in [Procs -> Process]
    BY <1>a, <2>1, <2>2 DEF Process
  <2> QED
    BY <1>7, <2>3 DEF TypeOK, JudgeTakeover
<1>8. ASSUME NEW p \in Procs, TakeOver(p) PROVE TypeOK'
  <2>1. PICK e \in 1 .. MaxEpoch :
          /\ Store(p, proc[p].seen.epoch, e, proc[p].verdict)
          /\ proc' = IF EvaluateClaimCas(record, proc[p].seen.epoch, e)
                     THEN [proc EXCEPT ![p].holds = e, ![p].verdict = "none"]
                     ELSE [proc EXCEPT ![p] = Idle]
    BY <1>8 DEF TakeOver
  <2>2. e \in Nat \ {0}
    BY <2>1
  <2>3. Claim(p, e) \in RecordedOwnership /\ Claim(p, e) \in StoredClaim
    BY <2>2 DEF Claim, RecordedOwnership, StoredClaim
  <2>4. proc[p].verdict \in {"none", "Proven", "Indeterminate"}
    BY DEF TypeOK, Process
  <2>5. /\ record' \in RecordedOwnership
        /\ claims' \in Seq(StoredClaim)
        /\ takeover' \in {"none", "Proven", "Indeterminate"}
    <3>1. Store(p, proc[p].seen.epoch, e, proc[p].verdict)
      BY <2>1
    <3>2. Append(claims, Claim(p, e)) \in Seq(StoredClaim)
      BY <2>3 DEF TypeOK
    <3>3. \/ record' = Claim(p, e) /\ claims' = Append(claims, Claim(p, e))
             /\ takeover' = proc[p].verdict
          \/ record' = record /\ claims' = claims /\ takeover' = takeover
      BY <3>1, StoreCases, Zenon
    <3> QED
      BY <2>3, <2>4, <3>2, <3>3 DEF TypeOK
  <2>6. proc' \in [Procs -> Process]
    BY <1>0, <2>1, <2>2 DEF TypeOK, Process
  <2> QED
    BY <1>8, <2>5, <2>6 DEF TypeOK, TakeOver
<1>9. ASSUME NEW p \in Procs, Release(p) PROVE TypeOK'
  <2>1. proc[p].holds \in Nat
    BY DEF TypeOK, Process
  <2> QED
    BY <1>0, <1>9, <2>1 DEF TypeOK, Release
<1>10. ASSUME NEW p \in Procs, Die(p) PROVE TypeOK'
  BY <1>0, <1>10 DEF TypeOK, Die
<1>11. CASE UNCHANGED vars
  BY <1>11 DEF TypeOK, vars
<1> QED
  BY <1>1, <1>2, <1>3, <1>4, <1>5, <1>6, <1>7, <1>8, <1>9, <1>10, <1>11 DEF Next

(* What a stored claim is, and that the recorded one is the latest. *)
LEMMA ClaimFacts ==
  ASSUME TypeOK, RecordInv, ClaimsInv
  PROVE  /\ Len(claims) \in Nat /\ DOMAIN claims = 1 .. Len(claims)
         /\ \A i \in 1 .. Len(claims) :
              claims[i].owner \in Procs /\ claims[i].epoch \in Nat \ {0}
              /\ claims[i].status = "Claimed"
         /\ record.status = "Claimed" =>
              /\ record.owner \in Procs /\ record.epoch \in Nat \ {0}
              /\ Len(claims) >= 1
              /\ \A i \in 1 .. Len(claims) : claims[i].epoch <= record.epoch
              /\ \A i \in 1 .. Len(claims) : claims[i].epoch = record.epoch => claims[i] = record
<1>1. Len(claims) \in Nat /\ DOMAIN claims = 1 .. Len(claims)
  BY DEF TypeOK
<1>2. ASSUME NEW i \in 1 .. Len(claims) PROVE claims[i] \in StoredClaim
  BY <1>1, ElementOfSeq DEF TypeOK
<1>3. \A i \in 1 .. Len(claims) :
        claims[i].owner \in Procs /\ claims[i].epoch \in Nat \ {0}
        /\ claims[i].status = "Claimed"
  BY <1>2 DEF StoredClaim
<1>4. ASSUME record.status = "Claimed"
      PROVE  /\ record.owner \in Procs /\ record.epoch \in Nat \ {0} /\ Len(claims) >= 1
             /\ \A i \in 1 .. Len(claims) : claims[i].epoch <= record.epoch
             /\ \A i \in 1 .. Len(claims) : claims[i].epoch = record.epoch => claims[i] = record
  <2>1. claims # <<>> /\ record = claims[Len(claims)]
    BY <1>4 DEF RecordInv
  <2>2. Len(claims) >= 1
    BY <1>1, <2>1 DEF TypeOK
  <2>3. record.owner \in Procs /\ record.epoch \in Nat \ {0}
    BY <1>1, <1>3, <2>1, <2>2
  <2>4. ASSUME NEW i \in 1 .. Len(claims)
        PROVE  i = Len(claims) \/ claims[i].epoch < record.epoch
    <3>0. \A n \in Nat : \A k \in 1 .. n : n \in 1 .. n /\ (k = n \/ k < n)
      OBVIOUS
    <3>1. Len(claims) \in 1 .. Len(claims) /\ (i = Len(claims) \/ i < Len(claims))
      BY <1>1, <3>0, Zenon
    <3>2. i < Len(claims) => claims[i].epoch < claims[Len(claims)].epoch
      BY <3>1 DEF ClaimsInv
    <3> QED
      BY <2>1, <3>1, <3>2
  <2> QED
    BY <1>3, <2>1, <2>2, <2>3, <2>4
<1> QED
  BY <1>1, <1>3, <1>4

(* Holding nothing is no threat to a claim: epochs start at 1.  A step of p
   that stores no claim keeps what does not concern p. *)
LEMMA QuietStep ==
  ASSUME IInv, NEW p \in Procs,
         claims' = claims, takeover' = takeover, data => data',
         \/ record' = record
         \/ record.status = "Absent" /\ record' = Unowned
         \/ record' = Unreadable,
         \A q \in Procs : q # p => proc'[q] = proc[q],
         proc'[p].holds = 0 \/ proc'[p].holds = proc[p].holds
  PROVE  /\ RecordInv' /\ ClaimsInv' /\ DisplacedInv'
         /\ \A c : IsClaim(c)' <=> IsClaim(c)
         /\ \A q \in Procs : q # p => ProcInv(q)' /\ FreeIfProven(q)'
         /\ \A e \in released : /\ \E i \in 1 .. Len(claims') : claims'[i].epoch = e
                                /\ \A q \in Procs : proc'[q].holds # e
         /\ \A q \in Procs : proc'[q].verdict = proc[q].verdict /\ proc'[q].seen = proc[q].seen
                             => FreeIfProven(q)'
<1>0. TypeOK /\ RecordInv /\ ClaimsInv
  BY DEF IInv
<1>1. /\ Len(claims) \in Nat
      /\ \A i \in 1 .. Len(claims) :
           claims[i].owner \in Procs /\ claims[i].epoch \in Nat \ {0}
      /\ record.status = "Claimed" => record.owner \in Procs /\ record.epoch \in Nat \ {0}
  BY <1>0, ClaimFacts
<1>2. record'.status = "Claimed" => record' = record
  BY DEF Unowned, Unreadable, Unclaimed
<1>3. RecordInv'
  BY <1>0, <1>2 DEF RecordInv, Unowned, Unreadable, Unclaimed
<1>4. ClaimsInv'
  BY <1>0 DEF ClaimsInv
<1>5. \A c : IsClaim(c)' <=> IsClaim(c)
  BY DEF IsClaim
<1>6. \A q \in Procs, e \in Nat \ {0} : proc[q].holds # e => proc'[q].holds # e
  OBVIOUS
<1>7. DisplacedInv'
  <2>1. ASSUME takeover = "Proven"
        PROVE  /\ Len(claims) >= 2 /\ Len(claims) - 1 \in 1 .. Len(claims)
               /\ proc[claims[Len(claims) - 1].owner].holds # claims[Len(claims) - 1].epoch
    BY <1>1, <2>1 DEF IInv, DisplacedInv
  <2> QED
    BY <1>1, <1>6, <2>1 DEF DisplacedInv
<1>8. ASSUME NEW q \in Procs, q # p PROVE ProcInv(q)'
  BY <1>5, <1>8 DEF IInv, ProcInv
<1>9. ASSUME NEW q \in Procs, proc'[q].verdict = proc[q].verdict, proc'[q].seen = proc[q].seen
      PROVE  FreeIfProven(q)'
  BY <1>1, <1>2, <1>6, <1>9 DEF IInv, VerdictInv, FreeIfProven
<1>10. ASSUME NEW e \in released
       PROVE  /\ \E i \in 1 .. Len(claims') : claims'[i].epoch = e
              /\ \A q \in Procs : proc'[q].holds # e
  BY <1>1, <1>6 DEF IInv, ReleasedInv
<1> QED
  BY <1>3, <1>4, <1>5, <1>7, <1>8, <1>9, <1>10

(* A position of a sequence that grew by one: the new one or an old one. *)
LEMMA LastOrBefore ==
  ASSUME NEW n \in Nat, NEW j \in 1 .. n + 1
  PROVE  j \in 1 .. n \/ j = n + 1
  OBVIOUS

(* A position before another one is an old one. *)
LEMMA BeforeLast ==
  ASSUME NEW n \in Nat, NEW i \in 1 .. n + 1, NEW j \in 1 .. n + 1, i < j
  PROVE  i \in 1 .. n
  OBVIOUS

(* A claim of a later epoch than all before. *)
LEMMA ClaimStep ==
  ASSUME IInv, TypeOK', NEW p \in Procs, NEW e \in Nat \ {0},
         record' = Claim(p, e), claims' = Append(claims, Claim(p, e)),
         claims = <<>> \/ (record.status = "Claimed" /\ e > record.epoch),
         data' = data, released' = released,
         \A q \in Procs : q # p => proc'[q] = proc[q],
         proc'[p].holds = e, proc'[p].verdict = "none", proc'[p].seen = proc[p].seen,
         proc'[p].creation = "Seeded" \/ proc'[p].creation = proc[p].creation
  PROVE  /\ RecordInv' /\ ClaimsInv' /\ ReleasedInv'
         /\ VerdictInv' /\ DataAfterClaim'
         /\ \A q \in Procs : ProcInv(q)'
<1>0. TypeOK /\ RecordInv /\ ClaimsInv
  BY DEF IInv
<1>1. /\ Len(claims) \in Nat
      /\ \A i \in 1 .. Len(claims) :
           claims[i].owner \in Procs /\ claims[i].epoch \in Nat \ {0}
  BY <1>0, ClaimFacts
<1>2. \A i \in 1 .. Len(claims) : claims[i].epoch < e
  <2>1. CASE claims = <<>>
    BY <2>1
  <2>2. CASE record.status = "Claimed" /\ e > record.epoch
    BY <1>0, <1>1, <2>2, ClaimFacts
  <2> QED
    BY <2>1, <2>2
<1>3. /\ Len(claims') = Len(claims) + 1
      /\ claims'[Len(claims) + 1] = Claim(p, e)
      /\ \A i \in 1 .. Len(claims) : claims'[i] = claims[i]
      /\ claims' # <<>>
  BY <1>0, <1>1 DEF TypeOK
<1>4. Claim(p, e).epoch = e /\ Claim(p, e).status = "Claimed" /\ Claim(p, e).owner = p
  BY DEF Claim
<1>5. RecordInv'
  BY <1>1, <1>3, <1>4 DEF RecordInv
<1>6. ClaimsInv'
  <2> SUFFICES ASSUME NEW i \in 1 .. Len(claims'), NEW j \in 1 .. Len(claims'), i < j
               PROVE  claims'[i].epoch < claims'[j].epoch
    BY DEF ClaimsInv
  <2>0. i \in 1 .. Len(claims) + 1 /\ j \in 1 .. Len(claims) + 1
    BY <1>3
  <2>1. i \in 1 .. Len(claims)
    BY <1>1, <2>0, BeforeLast
  <2>2. CASE j \in 1 .. Len(claims)
    BY <1>0, <1>3, <2>1, <2>2 DEF ClaimsInv
  <2>3. CASE j = Len(claims) + 1
    BY <1>2, <1>3, <1>4, <2>1, <2>3
  <2>4. j \in 1 .. Len(claims) \/ j = Len(claims) + 1
    BY <1>1, <2>0, LastOrBefore
  <2> QED
    BY <2>2, <2>3, <2>4
<1>7. \A c : IsClaim(c) => IsClaim(c)'
  BY <1>1, <1>3 DEF IsClaim
<1>8. IsClaim(Claim(p, e))'
  BY <1>1, <1>3 DEF IsClaim
<1>9. ReleasedInv'
  <2> SUFFICES ASSUME NEW r \in released
               PROVE  /\ \E i \in 1 .. Len(claims') : claims'[i].epoch = r
                      /\ \A q \in Procs : proc'[q].holds # r
    BY DEF ReleasedInv
  <2>1. PICK i \in 1 .. Len(claims) : claims[i].epoch = r
    BY DEF IInv, ReleasedInv
  <2>2. r < e /\ r \in Nat
    BY <1>1, <1>2, <2>1
  <2>3. i \in 1 .. Len(claims') /\ claims'[i].epoch = r
    BY <1>1, <1>3, <2>1
  <2>4. ASSUME NEW q \in Procs PROVE proc'[q].holds # r
    <3>1. proc[q].holds # r
      BY DEF IInv, ReleasedInv
    <3> QED
      BY <2>2, <3>1
  <2> QED
    BY <2>3, <2>4
<1>10. ASSUME NEW q \in Procs PROVE ProcInv(q)'
  <2>1. CASE q = p
    BY <1>3, <1>7, <1>8, <2>1 DEF IInv, ProcInv
  <2>2. CASE q # p
    BY <1>3, <1>7, <2>2 DEF IInv, ProcInv
  <2> QED
    BY <2>1, <2>2
<1>11. ASSUME NEW q \in Procs PROVE FreeIfProven(q)'
  <2>1. CASE q = p
    BY <2>1 DEF FreeIfProven
  <2>2. ASSUME q # p, proc[q].verdict = "Proven" PROVE proc[q].seen.epoch < e
    BY <1>2, <2>2 DEF IInv, ProcInv, IsClaim
  <2> QED
    BY <1>4, <2>1, <2>2 DEF FreeIfProven
<1> QED
  BY <1>3, <1>5, <1>6, <1>9, <1>10, <1>11 DEF VerdictInv, DataAfterClaim

(* A step of p that stores no claim, taken together with what it does to p. *)
LEMMA QuietIInv ==
  ASSUME IInv, TypeOK', NEW p \in Procs,
         claims' = claims, takeover' = takeover, data => data',
         \/ record' = record
         \/ record.status = "Absent" /\ record' = Unowned
         \/ record' = Unreadable,
         \A q \in Procs : q # p => proc'[q] = proc[q],
         proc'[p].holds = 0 \/ proc'[p].holds = proc[p].holds,
         ProcInv(p)', FreeIfProven(p)',
         released' = released, DataAfterClaim'
  PROVE  IInv'
<1>1. /\ RecordInv' /\ ClaimsInv' /\ DisplacedInv'
      /\ \A q \in Procs : q # p => ProcInv(q)' /\ FreeIfProven(q)'
      /\ \A e \in released : /\ \E i \in 1 .. Len(claims') : claims'[i].epoch = e
                             /\ \A q \in Procs : proc'[q].holds # e
  BY QuietStep
<1>2. ReleasedInv'
  BY <1>1 DEF ReleasedInv
<1>3. (\A q \in Procs : ProcInv(q)') /\ VerdictInv'
  BY <1>1 DEF VerdictInv
<1> QED
  BY <1>1, <1>2, <1>3 DEF IInv

(* A process that forgets everything needs nothing. *)
LEMMA IdleProc ==
  ASSUME NEW p \in Procs, proc'[p] = Idle
  PROVE  ProcInv(p)' /\ FreeIfProven(p)' /\ proc'[p].holds = 0
<1>1. /\ proc'[p].holds = 0 /\ proc'[p].seen.status = "Absent"
      /\ proc'[p].verdict = "none" /\ proc'[p].creation = "none"
  BY DEF Idle, Absent, Unclaimed
<1> QED
  BY <1>1 DEF ProcInv, FreeIfProven

(* Before the first claim nobody has read, judged or released one. *)
LEMMA NothingClaimed ==
  ASSUME IInv, claims = <<>>, NEW p \in Procs
  PROVE  /\ proc[p].holds = 0 /\ proc[p].seen.status # "Claimed"
         /\ proc[p].verdict = "none" /\ proc[p].creation # "Seeded"
<1>1. \A c : ~IsClaim(c)
  BY DEF IsClaim
<1> QED
  BY <1>1 DEF IInv, ProcInv

LEMMA BeginStep ==
  ASSUME IInv, TypeOK', NEW p \in Procs, Begin(p)
  PROVE  IInv'
<1>1. record.status = "Absent" /\ record' = Unowned
  BY DEF Begin, AdmitCreate, PresenceNow, Presence, Absent, Unclaimed
<1>2. claims = <<>>
  BY <1>1 DEF IInv, RecordInv
<1>3. proc' = [proc EXCEPT ![p].creation = "Unseeded", ![p].seen = Unowned]
  BY DEF Begin
<1>4. proc \in [Procs -> Process]
  BY DEF IInv, TypeOK
<1>5. /\ \A q \in Procs : q # p => proc'[q] = proc[q]
      /\ proc'[p].holds = proc[p].holds /\ proc'[p].verdict = proc[p].verdict
      /\ proc'[p].creation = "Unseeded" /\ proc'[p].seen = Unowned
  BY <1>3, <1>4 DEF Process
<1>6. Unowned.status # "Claimed"
  BY DEF Unowned, Unclaimed
<1>7. ProcInv(p)' /\ FreeIfProven(p)'
  BY <1>2, <1>5, <1>6, NothingClaimed DEF ProcInv, FreeIfProven
<1>8. DataAfterClaim'
  BY DEF IInv, DataAfterClaim, Begin
<1> QED
  BY <1>1, <1>5, <1>7, <1>8, QuietIInv DEF Begin

LEMMA ResumeStep ==
  ASSUME IInv, TypeOK', NEW p \in Procs, Resume(p)
  PROVE  IInv'
<1>1. ~data
  BY DEF Resume, PresenceNow, Presence
<1>2. proc[p].creation = "none"
  BY DEF Resume
<1>3. proc[p].verdict = "none"
  BY <1>1, <1>2 DEF IInv, ProcInv
<1>4. proc \in [Procs -> Process]
  BY DEF IInv, TypeOK
<1>5. /\ \A q \in Procs : q # p => proc'[q] = proc[q]
      /\ proc'[p].holds = proc[p].holds /\ proc'[p].verdict = proc[p].verdict
      /\ proc'[p].creation = ResumesAs(record) /\ proc'[p].seen = record
  BY <1>4 DEF Resume, Process
<1>6. claims' = claims
  BY DEF Resume
<1>7. \A c : IsClaim(c)' <=> IsClaim(c)
  BY <1>6 DEF IsClaim
<1>8. record.status = "Claimed" => IsClaim(record) /\ claims # <<>>
  BY ClaimFacts DEF IInv, RecordInv, IsClaim
<1>9. ProcInv(p)'
  BY <1>3, <1>5, <1>6, <1>7, <1>8 DEF IInv, ProcInv, ResumesAs
<1>10. FreeIfProven(p)'
  BY <1>3, <1>5 DEF FreeIfProven
<1>11. DataAfterClaim'
  BY DEF IInv, DataAfterClaim, Resume
<1> QED
  BY <1>5, <1>9, <1>10, <1>11, QuietIInv DEF Resume

LEMMA SeedClaimStep ==
  ASSUME IInv, TypeOK', NEW p \in Procs, SeedClaim(p)
  PROVE  IInv'
<1>0. proc \in [Procs -> Process]
  BY DEF IInv, TypeOK
<1>1. proc[p].creation = "Unseeded" /\ Store(p, 0, 1, "none")
  BY DEF SeedClaim, SeedAdmits
<1>2. CASE EvaluateClaimCas(record, 0, 1)
  <2>1. /\ record' = Claim(p, 1) /\ claims' = Append(claims, Claim(p, 1))
        /\ takeover' = "none"
    BY <1>1, <1>2, StoreCases, Zenon
  <2>2. record.status = "Unowned"
    <3>1. record.status = "Claimed" => record.epoch \in Nat \ {0}
      BY ClaimFacts DEF IInv
    <3> QED
      BY <1>2, <3>1 DEF EvaluateClaimCas
  <2>3. claims = <<>>
    BY <2>2 DEF IInv, RecordInv
  <2>4. proc' = [proc EXCEPT ![p].creation = "Seeded", ![p].holds = 1]
    BY <1>2 DEF SeedClaim
  <2>5. /\ \A q \in Procs : q # p => proc'[q] = proc[q]
        /\ proc'[p].holds = 1 /\ proc'[p].verdict = proc[p].verdict
        /\ proc'[p].creation = "Seeded" /\ proc'[p].seen = proc[p].seen
    BY <1>0, <2>4 DEF Process
  <2>6. proc[p].verdict = "none"
    BY <2>3, NothingClaimed
  <2>7. data' = data /\ released' = released
    BY DEF SeedClaim
  <2>8. /\ RecordInv' /\ ClaimsInv' /\ ReleasedInv'
        /\ VerdictInv' /\ DataAfterClaim'
        /\ \A q \in Procs : ProcInv(q)'
    BY <2>1, <2>3, <2>5, <2>6, <2>7, ClaimStep
  <2>9. DisplacedInv'
    BY <2>1 DEF DisplacedInv
  <2> QED
    BY <2>8, <2>9 DEF IInv
<1>3. CASE ~EvaluateClaimCas(record, 0, 1)
  <2>1. record' = record /\ claims' = claims /\ takeover' = takeover
    BY <1>1, <1>3, StoreCases, Zenon
  <2>2. proc' = [proc EXCEPT ![p].creation = "none"]
    BY <1>3 DEF SeedClaim
  <2>3. /\ \A q \in Procs : q # p => proc'[q] = proc[q]
        /\ proc'[p].holds = proc[p].holds /\ proc'[p].verdict = proc[p].verdict
        /\ proc'[p].creation = "none" /\ proc'[p].seen = proc[p].seen
    BY <1>0, <2>2 DEF Process
  <2>4. data' = data /\ released' = released
    BY DEF SeedClaim
  <2>5. \A c : IsClaim(c)' <=> IsClaim(c)
    BY <2>1 DEF IsClaim
  <2>6. ProcInv(p)'
    BY <1>1, <2>1, <2>3, <2>4, <2>5 DEF IInv, ProcInv
  <2>7. FreeIfProven(p)'
    BY <2>1, <2>3, <2>4, QuietStep
  <2>8. DataAfterClaim'
    BY <2>1, <2>4 DEF IInv, DataAfterClaim
  <2> QED
    BY <2>1, <2>3, <2>4, <2>6, <2>7, <2>8, QuietIInv
<1> QED
  BY <1>2, <1>3

LEMMA CompleteStep ==
  ASSUME IInv, TypeOK', NEW p \in Procs, CompleteEventData(p)
  PROVE  IInv'
<1>0. proc \in [Procs -> Process]
  BY DEF IInv, TypeOK
<1>1. proc[p].creation = "Seeded" /\ data'
  BY DEF CompleteEventData, CompleteAdmits
<1>2. claims # <<>>
  BY <1>1 DEF IInv, ProcInv
<1>3. /\ claims' = claims /\ record' = record /\ takeover' = takeover
      /\ released' = released
  BY DEF CompleteEventData
<1>4. /\ \A q \in Procs : q # p => proc'[q] = proc[q]
      /\ proc'[p].holds = proc[p].holds /\ proc'[p].verdict = proc[p].verdict
      /\ proc'[p].creation # "Seeded" /\ proc'[p].seen = proc[p].seen
  BY <1>0 DEF CompleteEventData, Process
<1>5. \A c : IsClaim(c)' <=> IsClaim(c)
  BY <1>3 DEF IsClaim
<1>6. ProcInv(p)'
  BY <1>1, <1>3, <1>4, <1>5 DEF IInv, ProcInv
<1>7. FreeIfProven(p)'
  BY <1>1, <1>3, <1>4, QuietStep
<1>8. DataAfterClaim'
  BY <1>2, <1>3 DEF DataAfterClaim
<1> QED
  BY <1>1, <1>3, <1>4, <1>6, <1>7, <1>8, QuietIInv

LEMMA OpenStep ==
  ASSUME IInv, TypeOK', NEW p \in Procs, Open(p)
  PROVE  IInv'
<1>0. proc \in [Procs -> Process]
  BY DEF IInv, TypeOK
<1>1. data
  BY DEF Open, AdmitOpenWrite, PresenceNow, Presence
<1>2. /\ claims' = claims /\ record' = record /\ takeover' = takeover
      /\ released' = released /\ data' = data
  BY DEF Open
<1>3. /\ \A q \in Procs : q # p => proc'[q] = proc[q]
      /\ proc'[p].holds = proc[p].holds /\ proc'[p].verdict = "none"
      /\ proc'[p].creation = "none" /\ proc'[p].seen = record
  BY <1>0 DEF Open, Process
<1>4. \A c : IsClaim(c)' <=> IsClaim(c)
  BY <1>2 DEF IsClaim
<1>5. record.status = "Claimed" => IsClaim(record)
  BY ClaimFacts DEF IInv, RecordInv, IsClaim
<1>6. ProcInv(p)' /\ FreeIfProven(p)'
  BY <1>1, <1>2, <1>3, <1>4, <1>5 DEF IInv, ProcInv, FreeIfProven
<1>7. DataAfterClaim'
  BY <1>2 DEF IInv, DataAfterClaim
<1> QED
  BY <1>2, <1>3, <1>6, <1>7, QuietIInv

(* A clean release of the recorded epoch, or of a later one, is the release of
   the recorded claim: there is no later one. *)
LEMMA JudgeStep ==
  ASSUME IInv, TypeOK', NEW p \in Procs, JudgeTakeover(p)
  PROVE  IInv'
<1>0. proc \in [Procs -> Process]
  BY DEF IInv, TypeOK
<1>1. PICK proof \in Proofs(proc[p].seen) :
        proc' = [proc EXCEPT ![p].verdict = EvaluateTakeover(proc[p].seen, proof)]
  BY DEF JudgeTakeover
<1>2. /\ claims' = claims /\ record' = record /\ takeover' = takeover
      /\ released' = released /\ data' = data
      /\ proc[p].seen.status = "Claimed"
  BY DEF JudgeTakeover
<1>3. /\ \A q \in Procs : q # p => proc'[q] = proc[q]
      /\ \A q \in Procs : proc'[q].holds = proc[q].holds
      /\ proc'[p].verdict = EvaluateTakeover(proc[p].seen, proof)
      /\ proc'[p].creation = proc[p].creation /\ proc'[p].seen = proc[p].seen
  BY <1>0, <1>1 DEF Process
<1>4. \A c : IsClaim(c)' <=> IsClaim(c)
  BY <1>2 DEF IsClaim
<1>5. ProcInv(p)'
  BY <1>2, <1>3, <1>4 DEF IInv, ProcInv
<1>6. FreeIfProven(p)'
  <2> SUFFICES ASSUME EvaluateTakeover(proc[p].seen, proof) = "Proven",
                      record.status = "Claimed", record.epoch = proc[p].seen.epoch
               PROVE  proc[record.owner].holds # record.epoch
    BY <1>2, <1>3, ClaimFacts DEF FreeIfProven, IInv
  <2>1. PICK i \in 1 .. Len(claims) : claims[i] = proc[p].seen
    BY <1>2 DEF IInv, ProcInv, IsClaim
  <2>2. proc[p].seen = record
    BY <2>1, ClaimFacts DEF IInv
  <2>3. CASE proof.kind = "CleanRelease"
    <3>1. proof.epoch \in released /\ proof.epoch >= record.epoch
      BY <2>2, <2>3 DEF Proofs, EvaluateTakeover
    <3>2. PICK k \in 1 .. Len(claims) : claims[k].epoch = proof.epoch
      BY <3>1 DEF IInv, ReleasedInv
    <3>3. /\ record.owner \in Procs /\ record.epoch \in Nat
          /\ claims[k].epoch <= record.epoch /\ claims[k].epoch \in Nat
      BY ClaimFacts DEF IInv
    <3>4. proof.epoch = record.epoch
      BY <3>1, <3>2, <3>3
    <3> QED
      BY <3>1, <3>3, <3>4 DEF IInv, ReleasedInv
  <2>4. CASE proof.kind # "CleanRelease"
    BY <2>2, <2>4 DEF Proofs, EvaluateTakeover
  <2> QED
    BY <2>3, <2>4
<1>7. DataAfterClaim'
  BY <1>2 DEF IInv, DataAfterClaim
<1> QED
  BY <1>2, <1>3, <1>5, <1>6, <1>7, QuietIInv

(* The claim displaced is the one that was judged. *)
LEMMA TakeOverStep ==
  ASSUME IInv, TypeOK', NEW p \in Procs, TakeOver(p)
  PROVE  IInv'
<1>0. proc \in [Procs -> Process]
  BY DEF IInv, TypeOK
<1>1. PICK e \in 1 .. MaxEpoch :
        /\ Store(p, proc[p].seen.epoch, e, proc[p].verdict)
        /\ proc' = IF EvaluateClaimCas(record, proc[p].seen.epoch, e)
                   THEN [proc EXCEPT ![p].holds = e, ![p].verdict = "none"]
                   ELSE [proc EXCEPT ![p] = Idle]
  BY DEF TakeOver
<1>2. e \in Nat \ {0}
  BY <1>1
<1>3. /\ proc[p].verdict # "none"
      /\ data' = data /\ released' = released
  BY DEF TakeOver
<1>4. CASE EvaluateClaimCas(record, proc[p].seen.epoch, e)
  <2>1. /\ record' = Claim(p, e) /\ claims' = Append(claims, Claim(p, e))
        /\ takeover' = proc[p].verdict
    BY <1>1, <1>4, StoreCases, Zenon
  <2>2. PICK i \in 1 .. Len(claims) : claims[i] = proc[p].seen
    BY <1>3 DEF IInv, ProcInv, IsClaim
  <2>3. proc[p].seen.epoch # 0
    BY <2>2, ClaimFacts DEF IInv
  <2>4. /\ record.status = "Claimed" /\ record.epoch = proc[p].seen.epoch
        /\ e > record.epoch
    BY <1>4, <2>3 DEF EvaluateClaimCas
  <2>5. proc' = [proc EXCEPT ![p].holds = e, ![p].verdict = "none"]
    BY <1>1, <1>4
  <2>6. /\ \A q \in Procs : q # p => proc'[q] = proc[q]
        /\ proc'[p].holds = e /\ proc'[p].verdict = "none"
        /\ proc'[p].creation = proc[p].creation /\ proc'[p].seen = proc[p].seen
    BY <1>0, <2>5 DEF Process
  <2>7. /\ RecordInv' /\ ClaimsInv' /\ ReleasedInv'
        /\ VerdictInv' /\ DataAfterClaim'
        /\ \A q \in Procs : ProcInv(q)'
    BY <1>2, <1>3, <2>1, <2>4, <2>6, ClaimStep
  <2>8. DisplacedInv'
    <3> SUFFICES ASSUME proc[p].verdict = "Proven"
                 PROVE  /\ Len(claims') >= 2
                        /\ proc'[claims'[Len(claims') - 1].owner].holds
                             # claims'[Len(claims') - 1].epoch
      BY <2>1 DEF DisplacedInv
    <3>1. /\ record.owner \in Procs /\ record.epoch \in Nat
          /\ Len(claims) \in Nat /\ Len(claims) >= 1
      BY <2>4, ClaimFacts DEF IInv
    <3>2. record = claims[Len(claims)] /\ claims \in Seq(StoredClaim)
      BY <2>4 DEF IInv, RecordInv, TypeOK
    <3>3. Len(claims') = Len(claims) + 1 /\ claims'[Len(claims)] = record
      BY <2>1, <3>1, <3>2
    <3>4. Len(claims') - 1 = Len(claims) /\ Len(claims') >= 2
      BY <3>1, <3>3
    <3>5. proc[record.owner].holds # record.epoch
      BY <2>4 DEF IInv, VerdictInv, FreeIfProven
    <3>6. proc'[record.owner].holds # record.epoch
      BY <1>2, <2>4, <2>6, <3>1, <3>5
    <3> QED
      BY <3>3, <3>4, <3>6
  <2> QED
    BY <2>7, <2>8 DEF IInv
<1>5. CASE ~EvaluateClaimCas(record, proc[p].seen.epoch, e)
  <2>1. record' = record /\ claims' = claims /\ takeover' = takeover
    BY <1>1, <1>5, StoreCases, Zenon
  <2>2. proc' = [proc EXCEPT ![p] = Idle]
    BY <1>1, <1>5
  <2>3. proc'[p] = Idle /\ \A q \in Procs : q # p => proc'[q] = proc[q]
    BY <1>0, <2>2
  <2>4. ProcInv(p)' /\ FreeIfProven(p)' /\ proc'[p].holds = 0
    BY <2>3, IdleProc
  <2>5. DataAfterClaim'
    BY <1>3, <2>1 DEF IInv, DataAfterClaim
  <2> QED
    BY <1>3, <2>1, <2>3, <2>4, <2>5, QuietIInv
<1> QED
  BY <1>4, <1>5

(* Two processes that hold the same epoch hold the same claim. *)
LEMMA OwnersDiffer ==
  ASSUME IInv
  PROVE  OneOwnerPerEpoch
<1>1. ASSUME NEW p \in Procs, NEW q \in Procs, proc[p].holds # 0, proc[p].holds = proc[q].holds
      PROVE  p = q
  <2>1. PICK i \in 1 .. Len(claims) : claims[i] = Claim(p, proc[p].holds)
    BY <1>1 DEF IInv, ProcInv, IsClaim
  <2>2. PICK j \in 1 .. Len(claims) : claims[j] = Claim(q, proc[q].holds)
    BY <1>1 DEF IInv, ProcInv, IsClaim
  <2>3. claims[i].epoch = claims[j].epoch /\ claims[i].owner = p /\ claims[j].owner = q
    BY <1>1, <2>1, <2>2 DEF Claim
  <2>4. ~(i < j) /\ ~(j < i) /\ claims[i].epoch \in Nat
    BY <2>3, ClaimFacts DEF IInv, ClaimsInv
  <2> QED
    BY <2>3, <2>4
<1> QED
  BY <1>1 DEF IInv, ClaimsInv, OneOwnerPerEpoch

LEMMA ReleaseStep ==
  ASSUME IInv, TypeOK', NEW p \in Procs, Release(p)
  PROVE  IInv'
<1>0. proc \in [Procs -> Process]
  BY DEF IInv, TypeOK
<1>1. /\ claims' = claims /\ record' = record /\ takeover' = takeover
      /\ data' = data
      /\ released' = released \cup {proc[p].holds} /\ proc[p].holds # 0
  BY DEF Release
<1>2. proc'[p] = Idle /\ \A q \in Procs : q # p => proc'[q] = proc[q]
  BY <1>0 DEF Release
<1>3. ProcInv(p)' /\ FreeIfProven(p)' /\ proc'[p].holds = 0
  BY <1>2, IdleProc
<1>4. /\ RecordInv' /\ ClaimsInv' /\ DisplacedInv'
      /\ \A q \in Procs : q # p => ProcInv(q)' /\ FreeIfProven(q)'
      /\ \A e \in released : /\ \E i \in 1 .. Len(claims') : claims'[i].epoch = e
                             /\ \A q \in Procs : proc'[q].holds # e
  BY <1>1, <1>2, <1>3, QuietStep
<1>5. OneOwnerPerEpoch
  BY OwnersDiffer
<1>6. \E i \in 1 .. Len(claims') : claims'[i].epoch = proc[p].holds
  <2>1. PICK i \in 1 .. Len(claims) : claims[i] = Claim(p, proc[p].holds)
    BY <1>1 DEF IInv, ProcInv, IsClaim
  <2> QED
    BY <1>1, <2>1 DEF Claim
<1>7. \A q \in Procs : proc'[q].holds # proc[p].holds
  BY <1>1, <1>2, <1>3, <1>5 DEF OneOwnerPerEpoch
<1>8. ReleasedInv'
  BY <1>1, <1>4, <1>6, <1>7 DEF ReleasedInv
<1>9. DataAfterClaim'
  BY <1>1 DEF IInv, DataAfterClaim
<1> QED
  BY <1>3, <1>4, <1>8, <1>9 DEF IInv, VerdictInv

LEMMA DieStep ==
  ASSUME IInv, TypeOK', NEW p \in Procs, Die(p)
  PROVE  IInv'
<1>1. proc'[p] = Idle /\ \A q \in Procs : q # p => proc'[q] = proc[q]
  BY DEF IInv, TypeOK, Die
<1>2. ProcInv(p)' /\ FreeIfProven(p)' /\ proc'[p].holds = 0
  BY <1>1, IdleProc
<1>3. DataAfterClaim'
  BY DEF IInv, DataAfterClaim, Die
<1> QED
  BY <1>1, <1>2, <1>3, QuietIInv DEF Die

LEMMA DamageStep ==
  ASSUME IInv, TypeOK', Damage
  PROVE  IInv'
<1>1. PICK p \in Procs : p = record.owner
  BY ClaimFacts DEF IInv, Damage
<1>2. /\ record' = Unreadable /\ claims' = claims /\ takeover' = takeover /\ data' = data
      /\ released' = released /\ proc' = proc
  BY DEF Damage
<1>3. \A c : IsClaim(c)' <=> IsClaim(c)
  BY <1>2 DEF IsClaim
<1>4. ProcInv(p)'
  BY <1>1, <1>2, <1>3 DEF IInv, ProcInv
<1>5. FreeIfProven(p)'
  BY <1>2 DEF FreeIfProven, Unreadable, Unclaimed
<1>6. DataAfterClaim'
  BY <1>2 DEF IInv, DataAfterClaim
<1> QED
  BY <1>1, <1>2, <1>4, <1>5, <1>6, QuietIInv

LEMMA InvInit ==
  ASSUME Init
  PROVE  IInv
<1>0. Absent \in RecordedOwnership /\ Idle \in Process /\ Absent.status = "Absent"
  BY DEF Idle, Process, Absent, Unclaimed, RecordedOwnership
<1>1. TypeOK
  <2>1. claims \in Seq(StoredClaim)
    BY DEF Init
  <2>2. proc \in [Procs -> Process] /\ record \in RecordedOwnership
    BY <1>0 DEF Init
  <2> QED
    BY <2>1, <2>2 DEF Init, TypeOK
<1>2. record.status = "Absent" /\ claims = <<>>
  BY <1>0 DEF Init
<1>3. ASSUME NEW p \in Procs PROVE ProcInv(p) /\ FreeIfProven(p)
  <2>1. /\ proc[p].holds = 0 /\ proc[p].seen.status = "Absent"
        /\ proc[p].verdict = "none" /\ proc[p].creation = "none"
    BY <1>0 DEF Init, Idle
  <2> QED
    BY <2>1 DEF ProcInv, FreeIfProven
<1>4. RecordInv /\ DisplacedInv /\ DataAfterClaim
  BY <1>2 DEF Init, RecordInv, DisplacedInv, DataAfterClaim
<1>5. ClaimsInv
  BY <1>2 DEF ClaimsInv
<1>6. ReleasedInv
  BY DEF Init, ReleasedInv
<1> QED
  BY <1>1, <1>3, <1>4, <1>5, <1>6 DEF IInv, VerdictInv

(* Each step of the protocol keeps the invariant. *)
LEMMA InvStep ==
  ASSUME IInv, [Next]_vars
  PROVE  IInv'
<1>1. TypeOK'
  BY TypeStep DEF IInv
<1>2. CASE UNCHANGED vars
  BY <1>2 DEF vars, IInv, TypeOK, RecordInv, ClaimsInv, ReleasedInv, ProcInv,
              IsClaim, VerdictInv, FreeIfProven, DisplacedInv, DataAfterClaim
<1> QED
  BY <1>1, <1>2, DamageStep, BeginStep, ResumeStep, SeedClaimStep, CompleteStep, OpenStep,
     JudgeStep, TakeOverStep, ReleaseStep, DieStep DEF Next

LEMMA InvHolds == Spec => []IInv
<1>1. Init => IInv
  BY InvInit
<1>2. IInv /\ [Next]_vars => IInv'
  BY InvStep
<1> QED
  BY <1>1, <1>2, PTL DEF Spec

(* Any number of processes that claim over records they read earlier: every   *)
(* epoch has one owner, and epochs grow (evaluate_claim_cas).                  *)
THEOREM EpochsHaveOneOwner == Spec => []OneOwnerPerEpoch
<1>1. IInv => OneOwnerPerEpoch
  BY OwnersDiffer
<1> QED
  BY <1>1, InvHolds, PTL

(* Event data comes after the first claim, whoever creates, dies, resumes and  *)
(* completes (CreationPlan).                                                   *)
THEOREM DataFollowsClaims == Spec => []DataAfterClaim
<1>1. IInv => DataAfterClaim
  BY DEF IInv
<1> QED
  BY <1>1, InvHolds, PTL

(* A proven takeover, judged on a claim read earlier, displaces no owner that  *)
(* still holds its claim (evaluate_takeover).                                  *)
THEOREM ProvenTakeoversAreSafe == Spec => []ProofsDisplaceNobody
<1>1. IInv => ProofsDisplaceNobody
  BY DEF IInv, DisplacedInv, ProofsDisplaceNobody
<1> QED
  BY <1>1, InvHolds, PTL
=============================================================================
