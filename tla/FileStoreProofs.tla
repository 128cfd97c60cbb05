-------------------------- MODULE FileStoreProofs --------------------------
(***************************************************************************)
(* Artefacts kept in files are safe for any number of writers and readers, *)
(* event lines of any length and any sequence of crashes, failed writes    *)
(* and losses of power.                                                    *)
(***************************************************************************)
EXTENDS FileStore, LineIndexProofs

-----------------------------------------------------------------------------
(* The inductive invariant. *)

(* frames begins with part. *)
PrefixOf(part, frames) ==
    /\ Len(part) <= Len(frames)
    /\ part = SubSeq(frames, 1, Len(part))

(* What holds of .pgno whoever uses it. *)
PgnoInv ==
    /\ ~pgno.exists => ~pgno.header
    /\ ~pgno.header => pgno.frames = << >> /\ ~pgno.torn
    /\ WellFormed(pgno.frames)
    /\ Len(author) = Len(pgno.frames)
    /\ EpochOrder
    /\ PrefixOf(landed, pgno.frames)
    /\ landed # << >> => Len(landed) < durable
    /\ created => pgno.exists /\ pgno.header /\ durable >= 1

(* No writer's epoch is above the claim of a complete record.  A record    *)
(* that power loss took away, or cut, while .pgno stayed is never written  *)
(* again.                                                                  *)
MetaInv ==
    /\ ~meta.exists => meta = NoMeta
    /\ meta.written = 3 => \A i \in 1 .. Len(author) : author[i] <= meta.claim
    /\ pgno.exists /\ meta.written # 3 =>
          \A w \in Writer : phase[w] \notin {"CreatingMeta", "WritingMeta"}

(* The phases in which a process fills in .meta, and those in which it     *)
(* fills in .pgno.                                                         *)
MetaGroup == {"WritingMeta", "CreatingPgno"}

HeaderGroup == {"WritingHeader", "SyncingHeader", "LockingHeader"}

(* What a creator has behind it. *)
CreationInv(w) ==
    /\ phase[w] = "WritingMeta" => meta.exists
    /\ phase[w] \in {"CreatingPgno", "MakingPgno", "WritingHeader", "SyncingHeader",
                    "LockingHeader"} => meta.written = 3
    /\ phase[w] = "WritingHeader" => pgno.exists /\ ~pgno.header
    /\ phase[w] \in {"SyncingHeader", "LockingHeader"} => pgno.exists /\ pgno.header
    /\ phase[w] = "LockingHeader" => durable >= 1

(* One process at most is in a group of phases. *)
Alone(group) ==
    \A v, w \in Writer : phase[v] \in group /\ phase[w] \in group => v = w

InUse == {"Recovering"} \cup Writing

(* A process that uses the file holds its lock; until it is uncertain, its *)
(* index is that of the frames it has counted, with nothing torn behind.   *)
LockInv(w) ==
    /\ phase[w] \in {"Admitting"} \cup InUse => lock = w
    /\ phase[w] \in InUse => pgno.exists /\ pgno.header /\ meta.written = 3
    /\ phase[w] \notin InUse => index[w] = NewIndex /\ count[w] = 0
    /\ uncertain[w] => phase[w] = "Ready"

KnowsInv(w) ==
    phase[w] \in InUse /\ ~uncertain[w] =>
        /\ ~pgno.torn
        /\ index[w] = IndexOf(pgno.frames, count[w])
        /\ IF phase[w] = "Recovering"
           THEN count[w] <= Len(pgno.frames)
           ELSE count[w] = Len(pgno.frames) - (IF phase[w] = "Syncing" THEN 1 ELSE 0)

(* An envelope being written extends the line, and no later epoch wrote    *)
(* before it, although the claim may have moved on.                        *)
AppendInv(w) ==
    /\ phase[w] = "Appending" =>
          /\ Extends(pgno.frames, Len(pgno.frames), pending[w])
          /\ carried[w] <= meta.claim
          /\ \A i \in 1 .. Len(author) : author[i] <= carried[w]
    /\ phase[w] = "Syncing" =>
          pgno.frames # << >> /\ pgno.frames[Len(pgno.frames)] = pending[w]

SessionInv(w) == CreationInv(w) /\ LockInv(w) /\ KnowsInv(w) /\ AppendInv(w)

ViewInv == \A r \in Reader : PrefixOf(view[r], pgno.frames)

(* What is on disk of .meta covers every epoch a writer carries or has     *)
(* written with, so a loss of power takes none of their claims away.       *)
FirmInv ==
    /\ \A i \in 1 .. Len(author) : author[i] <= FirmClaim
    /\ \A w \in Writer : carried[w] <= FirmClaim
    /\ \A w \in Writer :
          phase[w] \in {"CreatingMeta", "WritingMeta"} => carried[w] = 1
    /\ \A w \in Writer : phase[w] = "WritingMeta" => metaDisk.claim = 0
    /\ metaDisk.claim <= meta.claim
    /\ meta.written >= 2 => meta.claim >= 1
    /\ metaDisk.claim >= 2 => metaDisk.exists /\ metaDisk.written = 3

FileInv ==
    /\ TypeOK
    /\ PgnoInv
    /\ MetaInv
    /\ Alone(MetaGroup)
    /\ Alone(HeaderGroup)
    /\ \A w \in Writer : SessionInv(w)
    /\ ViewInv

IInv == FileInv /\ FirmInv
-----------------------------------------------------------------------------
(* Facts about prefixes of a line. *)

(* What a cut keeps of a sequence. *)
LEMMA CutSeq ==
  ASSUME NEW S, NEW s \in Seq(S), NEW k \in 0 .. Len(s)
  PROVE  /\ SubSeq(s, 1, k) \in Seq(S)
         /\ Len(SubSeq(s, 1, k)) = k
         /\ \A i \in 1 .. k : SubSeq(s, 1, k)[i] = s[i]
<1>1. Len(s) \in Nat /\ k \in Nat /\ k <= Len(s) /\ \A i \in 1 .. k : s[i] \in S
  BY ElementOfSeq
<1>2. SubSeq(s, 1, k) = [i \in 1 .. k |-> s[i]]
  BY <1>1
<1>3. [i \in 1 .. k |-> s[i]] \in Seq(S) /\ Len([i \in 1 .. k |-> s[i]]) = k
  BY <1>1
<1> QED
  BY <1>2, <1>3

(* A prefix of a well-formed line is well formed. *)
LEMMA PrefixWellFormed ==
  ASSUME NEW log \in Seq(EnvelopeHeader), NEW k \in 0 .. Len(log), WellFormed(log)
  PROVE  WellFormed(SubSeq(log, 1, k))
<1> DEFINE part == SubSeq(log, 1, k)
<1>1. Len(part) = k /\ \A i \in 1 .. k : part[i] = log[i]
  BY CutSeq
<1> HIDE DEF part
<1>2. ASSUME NEW n \in 1 .. k PROVE Extends(part, n - 1, part[n])
  <2>1. n - 1 \in Nat /\ \A i \in 1 .. n - 1 : part[i] = log[i]
    BY <1>1
  <2>2. \A e : Extends(part, n - 1, e) = Extends(log, n - 1, e)
    BY <2>1, PrefixStable
  <2>3. Extends(log, n - 1, log[n])
    BY DEF WellFormed
  <2> QED
    BY <1>1, <2>2, <2>3
<1>3. WellFormed(part)
  BY <1>1, <1>2 DEF WellFormed
<1> QED
  BY <1>3 DEF part

(* A prefix stays one when frames are added behind, or cut off behind it. *)
LEMMA PrefixKept ==
  ASSUME NEW S, NEW s \in Seq(S), NEW part \in Seq(S), PrefixOf(part, s)
  PROVE  /\ \A e \in S : PrefixOf(part, Append(s, e))
         /\ \A k \in Len(part) .. Len(s) : PrefixOf(part, SubSeq(s, 1, k))
<1>1. /\ Len(part) \in Nat /\ Len(s) \in Nat /\ Len(part) <= Len(s)
      /\ \A i \in 1 .. Len(part) : part[i] = s[i]
  BY CutSeq DEF PrefixOf
<1>2. ASSUME NEW t \in Seq(S), Len(part) <= Len(t),
             \A i \in 1 .. Len(part) : t[i] = s[i]
      PROVE  PrefixOf(part, t)
  <2> DEFINE head == SubSeq(t, 1, Len(part))
  <2>1. Len(part) \in 0 .. Len(t)
    BY <1>1, <1>2
  <2>2. /\ head \in Seq(S) /\ Len(head) = Len(part)
        /\ \A i \in 1 .. Len(part) : head[i] = t[i]
    BY <2>1, CutSeq
  <2>3. part = head
    <3> HIDE DEF head
    <3> QED
      BY <1>1, <1>2, <2>2, SeqEqual
  <2> QED
    BY <1>2, <2>3 DEF PrefixOf
<1>3. ASSUME NEW e \in S PROVE PrefixOf(part, Append(s, e))
  <2> DEFINE t == Append(s, e)
  <2>1. t \in Seq(S) /\ Len(t) = Len(s) + 1 /\ \A i \in 1 .. Len(s) : t[i] = s[i]
    OBVIOUS
  <2> HIDE DEF t
  <2>2. Len(part) <= Len(t) /\ \A i \in 1 .. Len(part) : t[i] = s[i]
    BY <1>1, <2>1
  <2>3. PrefixOf(part, t)
    BY <1>2, <2>1, <2>2
  <2> QED
    BY <2>3 DEF t
<1>4. ASSUME NEW k \in Len(part) .. Len(s) PROVE PrefixOf(part, SubSeq(s, 1, k))
  <2>1. k \in 0 .. Len(s) /\ Len(part) <= k
    BY <1>1
  <2> DEFINE t == SubSeq(s, 1, k)
  <2>2. t \in Seq(S) /\ Len(t) = k /\ \A i \in 1 .. k : t[i] = s[i]
    BY <2>1, CutSeq
  <2> HIDE DEF t
  <2>3. Len(part) <= Len(t) /\ \A i \in 1 .. Len(part) : t[i] = s[i]
    BY <1>1, <2>1, <2>2
  <2>4. PrefixOf(part, t)
    BY <1>2, <2>2, <2>3
  <2> QED
    BY <2>4 DEF t
<1> QED
  BY <1>3, <1>4

LEMMA PrefixEnds ==
  ASSUME NEW S, NEW s \in Seq(S)
  PROVE  PrefixOf(<< >>, s) /\ PrefixOf(s, s)
<1>1. SubSeq(s, 1, 0) = << >> /\ SubSeq(s, 1, Len(s)) = s
  OBVIOUS
<1> QED
  BY <1>1 DEF PrefixOf
-----------------------------------------------------------------------------
(* Type correctness. *)

(* What a session forgets leaves its variables typed. *)
LEMMA ForgetType ==
  ASSUME TypeOK, NEW w \in Writer, Forget(w)
  PROVE  /\ lock' \in Writer \cup {Nobody}
         /\ phase' \in [Writer -> Phase]
         /\ carried' \in [Writer -> Nat]
         /\ index' \in [Writer -> Index]
         /\ count' \in [Writer -> Nat]
         /\ uncertain' \in [Writer -> BOOLEAN]
         /\ pending' \in [Writer -> EnvelopeHeader]
  BY NewIndexType, NoEnvelopeType DEF TypeOK, Forget, Goto, Unlock, Phase

(* So does going on to another call. *)
LEMMA GotoType ==
  ASSUME TypeOK, NEW w \in Writer, NEW p, Goto(w, p),
         p \in Creating \cup Filling \cup Opening \cup Writing
  PROVE  phase' \in [Writer -> Phase]
<1>1. p \in Phase /\ phase \in [Writer -> Phase]
  BY DEF Phase, TypeOK
<1> QED
  BY <1>1 DEF Goto

(* A container has a natural number of records. *)
LEMMA RecordsType ==
  ASSUME TypeOK
  PROVE  Records(pgno) \in Nat
  BY DEF TypeOK, Records

LEMMA CreateType ==
  ASSUME TypeOK, NEW w \in Writer, Create(w)
  PROVE  TypeOK'
<1> USE DEF files, session, reader, history
<1>1. CASE CreateBegin(w)
  BY <1>1 DEF CreateBegin, TypeOK, Goto, Phase, Creating
<1>2. CASE CreateMeta(w)
  <2>1. CASE meta.exists
    BY <1>2, <2>1, ForgetType DEF CreateMeta, TypeOK
  <2>2. CASE ~meta.exists
    <3>1. meta' = [exists |-> TRUE, written |-> 0, torn |-> FALSE, claim |-> 0,
                   outbound |-> FALSE]
      BY <1>2, <2>2 DEF CreateMeta, NoMeta
    <3>2. meta' \in MetaFile
      BY <3>1 DEF MetaFile
    <3>3. phase' \in [Writer -> Phase]
      BY <1>2, <2>2 DEF CreateMeta, TypeOK, Goto, Phase, Creating
    <3> QED
      BY <1>2, <2>2, <3>2, <3>3 DEF CreateMeta, TypeOK
  <2> QED
    BY <2>1, <2>2
<1>3. CASE WriteMeta(w)
  <2>1. meta.written \in 0 .. 3 /\ meta.written + 1 \in 0 .. 3 /\ carried[w] \in Nat
    BY <1>3 DEF WriteMeta, TypeOK, MetaFile
  <2>2. meta' \in MetaFile
    BY <1>3, <2>1 DEF WriteMeta, TypeOK, MetaFile
  <2> QED
    BY <1>3, <2>2 DEF WriteMeta, TypeOK
<1>4. CASE TearMeta(w)
  <2>1. meta' \in MetaFile
    BY <1>4 DEF TearMeta, TypeOK, MetaFile
  <2> QED
    BY <1>4, <2>1, ForgetType DEF TearMeta, TypeOK
<1>5. CASE SyncMeta(w)
  BY <1>5 DEF SyncMeta, TypeOK, Goto, Phase, Creating
<1>6. CASE CreatePgno(w)
  <2>1. CASE pgno.exists
    BY <1>6, <2>1, ForgetType DEF CreatePgno, MakePgno, TypeOK
  <2>2. CASE ~pgno.exists
    <3>1. pgno' = [exists |-> TRUE, header |-> FALSE, frames |-> << >>, torn |-> FALSE]
      BY <1>6, <2>2 DEF CreatePgno, MakePgno, NoPgno
    <3>2. pgno' \in [exists : BOOLEAN, header : BOOLEAN,
                    frames : Seq(EnvelopeHeader), torn : BOOLEAN]
      BY <3>1
    <3>3. phase' \in [Writer -> Phase]
      BY <1>6, <2>2 DEF CreatePgno, MakePgno, TypeOK, Goto, Phase, Filling
    <3> QED
      BY <1>6, <2>2, <3>2, <3>3 DEF CreatePgno, MakePgno, TypeOK
  <2> QED
    BY <2>1, <2>2
<1>7. CASE WriteHeader(w)
  BY <1>7 DEF WriteHeader, TypeOK, Goto, Phase, Filling
<1>8. CASE SyncHeader(w)
  <2>1. phase' \in [Writer -> Phase]
    BY <1>8, GotoType DEF SyncHeader, Filling
  <2>2. durable' \in Nat
    BY <1>8, RecordsType DEF SyncHeader
  <2> QED
    BY <1>8, <2>1, <2>2 DEF SyncHeader, TypeOK
<1>9. CASE LockHeader(w)
  <2>1. CASE lock = Nobody /\ ~pgno.torn
    <3>1. phase' \in [Writer -> Phase]
      BY <1>9, <2>1, GotoType DEF LockHeader, Opening
    <3>2. created' \in BOOLEAN /\ lock' \in Writer \cup {Nobody}
      BY <1>9, <2>1, Zenon DEF LockHeader
    <3> QED
      BY <1>9, <2>1, <3>1, <3>2 DEF LockHeader, TypeOK
  <2>2. CASE ~(lock = Nobody /\ ~pgno.torn)
    BY <1>9, <2>2, ForgetType DEF LockHeader, TypeOK
  <2> QED
    BY <2>1, <2>2
<1> QED
  BY <1>1, <1>2, <1>3, <1>4, <1>5, <1>6, <1>7, <1>8, <1>9 DEF Create

LEMMA OpenType ==
  ASSUME TypeOK, NEW w \in Writer, Open(w)
  PROVE  TypeOK'
<1> USE DEF files, session, reader, history
<1>1. CASE \E epoch \in 1 .. MaxEpoch : OpenWrite(w, epoch)
  <2>1. PICK epoch \in 1 .. MaxEpoch : OpenWrite(w, epoch)
    BY <1>1
  <2>2. epoch \in Nat
    BY FileAssumption
  <2>3. phase' \in [Writer -> Phase]
    BY <2>1, GotoType DEF OpenWrite, Opening, Filling
  <2>4. carried' \in [Writer -> Nat]
    BY <2>1, <2>2 DEF OpenWrite, TypeOK
  <2>5. UNCHANGED <<files, lock, index, count, uncertain, pending, reader, history>>
    BY <2>1 DEF OpenWrite
  <2> QED
    BY <2>3, <2>4, <2>5 DEF TypeOK
<1>2. CASE CompleteCreation(w)
  <2>1. CASE Forget(w)
    BY <1>2, <2>1, ForgetType DEF CompleteCreation, TypeOK
  <2>2. CASE ~Forget(w)
    BY <1>2, <2>2 DEF CompleteCreation, TypeOK, Goto, Phase, Filling
  <2> QED
    BY <2>1, <2>2
<1>3. CASE TakeLock(w)
  <2>1. CASE lock = Nobody
    <3>1. phase' \in [Writer -> Phase] /\ lock' \in Writer \cup {Nobody}
      BY <1>3, <2>1, GotoType DEF TakeLock, Opening
    <3> QED
      BY <1>3, <2>1, <3>1 DEF TakeLock, TypeOK
  <2>2. CASE lock # Nobody
    BY <1>3, <2>2, ForgetType DEF TakeLock, TypeOK
  <2> QED
    BY <2>1, <2>2
<1>4. CASE Admit(w)
  <2>1. CASE OpenAdmits(carried[w]) /\ pgno.header
    <3>1. pgno' = [pgno EXCEPT !.torn = FALSE]
      BY <1>4, <2>1 DEF Admit, TruncateTail
    <3>2. Records(pgno') = Records(pgno)
      BY <3>1 DEF Records, TypeOK
    <3>3. pgno' \in [exists : BOOLEAN, header : BOOLEAN,
                    frames : Seq(EnvelopeHeader), torn : BOOLEAN]
      BY <3>1 DEF TypeOK
    <3>4. durable' \in Nat
      BY <1>4, <2>1, <3>2, RecordsType DEF Admit, TypeOK
    <3>5. pgnoSynced' \in BOOLEAN
      BY <1>4, <2>1 DEF Admit, TypeOK
    <3>6. phase' \in [Writer -> Phase]
      BY <1>4, <2>1, GotoType DEF Admit, Opening
    <3> QED
      BY <1>4, <2>1, <3>3, <3>4, <3>5, <3>6 DEF Admit, TruncateTail, TypeOK
  <2>2. CASE ~(OpenAdmits(carried[w]) /\ pgno.header)
    BY <1>4, <2>2, ForgetType DEF Admit, TypeOK
  <2> QED
    BY <2>1, <2>2
<1>5. CASE AdmitUnsynced(w)
  BY <1>5, ForgetType DEF AdmitUnsynced, TypeOK
<1>6. CASE RecoverFrame(w)
  <2>1. CASE Forget(w)
    BY <1>6, <2>1, ForgetType DEF RecoverFrame, TypeOK
  <2>2. CASE ~Forget(w)
    <3> DEFINE env == pgno.frames[count[w] + 1]
    <3>1. env \in EnvelopeHeader
      BY <1>6, ElementOfSeq DEF RecoverFrame, TypeOK
    <3> HIDE DEF env
    <3>2. /\ index' = [index EXCEPT ![w] = ProcessFrame(@, env)]
          /\ count' = [count EXCEPT ![w] = @ + 1]
          /\ UNCHANGED <<files, lock, phase, carried, uncertain, pending, reader, history>>
      BY <1>6, <2>2 DEF RecoverFrame, env
    <3>3. index[w] \in Index
      BY DEF TypeOK
    <3>4. ProcessFrame(index[w], env) \in Index
      BY <3>1, <3>3, ProcessType
    <3> QED
      BY <3>2, <3>4 DEF TypeOK
  <2> QED
    BY <2>1, <2>2
<1>7. CASE RecoverDone(w)
  BY <1>7 DEF RecoverDone, TypeOK, Goto, Phase, Writing
<1>8. CASE Close(w)
  BY <1>8, ForgetType DEF Close, TypeOK
<1> QED
  BY <1>1, <1>2, <1>3, <1>4, <1>5, <1>6, <1>7, <1>8 DEF Open

LEMMA WriteType ==
  ASSUME TypeOK, WellFormed(pgno.frames), NEW w \in Writer, Write(w)
  PROVE  TypeOK'
<1> USE DEF files, session, reader, history
<1>1. CASE \E f \in FiberId, id \in EventId : AppendEvent(w, f, id)
  <2>1. PICK f \in FiberId, id \in EventId : AppendEvent(w, f, id)
    BY <1>1
  <2>2. PICK minted \in {HandleAppend(Fiber(index[w], f), id),
                         HandleDetach(Fiber(index[w], f), id),
                         HandleRescue(Fiber(index[w], f), id)} :
           BeginAppend(w, f, minted)
    BY <2>1 DEF AppendEvent
  <2>3. index[w] \in Index
    BY DEF TypeOK
  <2>4. minted.env \in EnvelopeHeader
    BY <2>3, MintType
  <2> QED
    BY <2>2, <2>4 DEF BeginAppend, TypeOK, Goto, Phase, Writing
<1>2. CASE WriteBlock(w)
  <2>1. pgno.frames \in Seq(EnvelopeHeader) /\ pending[w] \in EnvelopeHeader
    BY DEF TypeOK
  <2>2. Append(pgno.frames, pending[w]) \in Seq(EnvelopeHeader)
    BY <2>1
  <2>3. pgno' \in [exists : BOOLEAN, header : BOOLEAN,
                  frames : Seq(EnvelopeHeader), torn : BOOLEAN]
    BY <1>2, <2>2 DEF WriteBlock, TypeOK
  <2>4. author' \in Seq(Nat)
    BY <1>2 DEF WriteBlock, TypeOK
  <2>5. phase' \in [Writer -> Phase]
    BY <1>2 DEF WriteBlock, TypeOK, Goto, Phase, Writing
  <2> QED
    BY <1>2, <2>3, <2>4, <2>5 DEF WriteBlock, TypeOK
<1>3. CASE WriteFails(w)
  BY <1>3, RecordsType, NoEnvelopeType
  DEF WriteFails, Undetermined, TypeOK, Goto, Phase, Writing
<1>4. CASE DieWriting(w)
  BY <1>4, ForgetType DEF DieWriting, TypeOK
<1>5. CASE SyncBlock(w)
  <2>1. CommitEnvelope(index[w], pending[w]) \in Index
    BY CommitType DEF TypeOK
  <2>2. phase' \in [Writer -> Phase]
    BY <1>5, GotoType DEF SyncBlock, Writing
  <2>3. index' \in [Writer -> Index] /\ count' \in [Writer -> Nat]
    BY <1>5, <2>1 DEF SyncBlock, TypeOK
  <2>4. pending' \in [Writer -> EnvelopeHeader] /\ landed' \in Seq(EnvelopeHeader)
    BY <1>5, NoEnvelopeType DEF SyncBlock, TypeOK
  <2> QED
    BY <1>5, <2>2, <2>3, <2>4, RecordsType DEF SyncBlock, TypeOK
<1>6. CASE SyncBlockFails(w)
  BY <1>6, NoEnvelopeType DEF SyncBlockFails, Undetermined, TypeOK, Goto, Phase, Writing
<1>7. CASE Sync(w)
  BY <1>7, RecordsType DEF Sync, TypeOK
<1>8. CASE SyncFails(w)
  BY <1>8 DEF SyncFails, TypeOK
<1>9. CASE ReadAll(w)
  <2>1. pgno.frames \in Seq(EnvelopeHeader) /\ Len(pgno.frames) \in 0 .. Len(pgno.frames)
    BY DEF TypeOK
  <2>2. Rebuilt(pgno.frames)[Len(pgno.frames)] = IndexOf(pgno.frames, Len(pgno.frames))
    BY <2>1, RebuiltIsIndex
  <2>3. Rebuilt(pgno.frames)[Len(pgno.frames)] \in Index
    BY <2>1, <2>2, IndexOfType
  <2>4. PICK ix \in {index[w], Rebuilt(pgno.frames)[Len(pgno.frames)]} :
           index' = [index EXCEPT ![w] = ix]
    BY <1>9 DEF ReadAll
  <2>5. ix \in Index
    BY <2>3, <2>4 DEF TypeOK
  <2> QED
    BY <1>9, <2>1, <2>4, <2>5 DEF ReadAll, TypeOK
<1> QED
  BY <1>1, <1>2, <1>3, <1>4, <1>5, <1>6, <1>7, <1>8, <1>9 DEF Write
(* Power loss keeps a prefix of the frames, with what had landed, and the  *)
(* header of a .pgno whose creation had succeeded.                         *)
LEMMA PowerLossPgno ==
  ASSUME TypeOK, PgnoInv, PowerLoss
  PROVE  /\ pgno' \in [exists : BOOLEAN, header : BOOLEAN,
                      frames : Seq(EnvelopeHeader), torn : BOOLEAN]
         /\ ~pgno'.exists => ~pgno'.header
         /\ ~pgno'.header => pgno'.frames = << >> /\ ~pgno'.torn
         /\ created => pgno'.exists /\ pgno'.header
         /\ \E k \in Len(landed) .. Len(pgno.frames) :
               pgno'.frames = SubSeq(pgno.frames, 1, k)
<1>1. /\ pgno.frames \in Seq(EnvelopeHeader) /\ Len(pgno.frames) \in Nat
      /\ Len(landed) \in Nat /\ Len(landed) <= Len(pgno.frames)
      /\ durable \in Nat
      /\ SubSeq(pgno.frames, 1, Len(pgno.frames)) = pgno.frames
      /\ SubSeq(pgno.frames, 1, 0) = << >>
  BY DEF TypeOK, PgnoInv, PrefixOf
<1>2. CASE pgno' = pgno
  BY <1>1, <1>2 DEF TypeOK, PgnoInv
<1>3. CASE \E n \in (durable .. Records(pgno)) \ {0}, t \in BOOLEAN :
             pgno' = [exists |-> TRUE, header |-> TRUE,
                      frames |-> SubSeq(pgno.frames, 1, n - 1), torn |-> t]
  <2>1. PICK n \in (durable .. Records(pgno)) \ {0}, t \in BOOLEAN :
           pgno' = [exists |-> TRUE, header |-> TRUE,
                    frames |-> SubSeq(pgno.frames, 1, n - 1), torn |-> t]
    BY <1>3
  <2>2. pgno.header /\ Records(pgno) = Len(pgno.frames) + 1
    <3>1. Records(pgno) # 0
      BY <1>1, <2>1
    <3> QED
      BY <3>1 DEF Records
  <2>3. n - 1 \in 0 .. Len(pgno.frames) /\ n >= durable /\ n \in Nat
    BY <1>1, <2>1, <2>2
  <2>4. /\ SubSeq(pgno.frames, 1, n - 1) \in Seq(EnvelopeHeader)
        /\ pgno'.frames = SubSeq(pgno.frames, 1, n - 1)
        /\ pgno'.exists /\ pgno'.header
    BY <1>1, <2>1, <2>3, CutSeq
  <2>5. n - 1 \in Len(landed) .. Len(pgno.frames)
    <3>1. CASE landed = << >>
      BY <1>1, <2>3, <3>1
    <3>2. CASE landed # << >>
      <4>1. Len(landed) < durable
        BY <3>2 DEF PgnoInv
      <4> QED
        BY <1>1, <2>3, <4>1
    <3> QED
      BY <3>1, <3>2
  <2>6. pgno' \in [exists : BOOLEAN, header : BOOLEAN,
                   frames : Seq(EnvelopeHeader), torn : BOOLEAN]
    BY <2>1, <2>4
  <2> QED
    BY <2>4, <2>5, <2>6
<1>4. CASE durable = 0 /\ pgno' \in {NoPgno, [NoPgno EXCEPT !.exists = TRUE]}
  <2>1. ~created
    BY <1>4 DEF PgnoInv
  <2>2. Len(landed) = 0
    <3>1. landed = << >>
      BY <1>1, <1>4 DEF PgnoInv
    <3> QED
      BY <3>1
  <2>3. 0 \in Len(landed) .. Len(pgno.frames)
    BY <1>1, <2>2
  <2>4. pgno' \in {[exists |-> FALSE, header |-> FALSE, frames |-> << >>, torn |-> FALSE],
                   [exists |-> TRUE, header |-> FALSE, frames |-> << >>, torn |-> FALSE]}
    BY <1>4 DEF NoPgno
  <2>5. /\ ~pgno'.header /\ ~pgno'.torn /\ pgno'.frames = << >>
        /\ pgno' \in [exists : BOOLEAN, header : BOOLEAN,
                     frames : Seq(EnvelopeHeader), torn : BOOLEAN]
    <3>1. CASE pgno' = [exists |-> FALSE, header |-> FALSE, frames |-> << >>, torn |-> FALSE]
      BY <3>1
    <3>2. CASE pgno' = [exists |-> TRUE, header |-> FALSE, frames |-> << >>, torn |-> FALSE]
      BY <3>2
    <3> QED
      BY <2>4, <3>1, <3>2
  <2>6. pgno'.frames = SubSeq(pgno.frames, 1, 0)
    BY <1>1, <2>5
  <2> QED
    BY <2>1, <2>3, <2>5, <2>6
<1>5. pgno' \in PgnoAfterPowerLoss
  BY DEF PowerLoss
<1> QED
  BY <1>2, <1>3, <1>4, <1>5 DEF PgnoAfterPowerLoss

(* The latest claim surely on disk is a positive epoch. *)
LEMMA FirmClaimType ==
  ASSUME TypeOK
  PROVE  FirmClaim \in Nat /\ FirmClaim >= 1 /\ metaDisk.claim <= FirmClaim
  BY DEF TypeOK, FirmClaim, MetaFile

(* Power loss keeps a complete ownership record with every claim that was  *)
(* surely on disk, or leaves an incomplete one where none was.             *)
LEMMA PowerLossMeta ==
  ASSUME TypeOK, MetaInv, FirmInv, PowerLoss
  PROVE  /\ meta' \in MetaFile
         /\ ~meta'.exists => meta' = NoMeta
         /\ meta'.written = 3 => meta.written = 3 /\ FirmClaim <= meta'.claim
         /\ meta'.written # 3 => FirmClaim = 1 /\ meta'.claim <= 1
         /\ meta'.written >= 2 => meta'.claim >= 1
<1>0. /\ meta.written \in 0 .. 3 /\ metaDisk.written \in 0 .. 3
      /\ meta.claim \in Nat /\ metaDisk.claim \in Nat
      /\ FirmClaim \in Nat /\ FirmClaim >= 1
  BY FirmClaimType DEF TypeOK, MetaFile
<1>1. metaDisk.written # 3 \/ ~metaDisk.exists => FirmClaim = 1
  BY <1>0 DEF FirmInv, FirmClaim
<1>2. CASE metaDisk = meta /\ meta' = meta
  <2>1. meta.written >= 2 => meta.claim >= 1
    BY DEF FirmInv
  <2>2. meta.written = 3 => FirmClaim <= meta.claim
    BY <1>0, <1>2, <2>1 DEF FirmClaim
  <2>3. meta.written # 3 => FirmClaim = 1 /\ meta.claim <= 1
    BY <1>0, <1>1, <1>2 DEF FirmClaim
  <2> QED
    BY <1>2, <2>1, <2>2, <2>3 DEF TypeOK, MetaInv
<1>3. CASE meta' = NoMeta /\ ~metaDisk.exists
  <2>1. meta' = [exists |-> FALSE, written |-> 0, torn |-> FALSE, claim |-> 0,
                 outbound |-> FALSE]
    BY <1>3 DEF NoMeta
  <2>2. meta' \in MetaFile /\ meta'.written = 0 /\ meta'.claim = 0
    BY <2>1 DEF MetaFile
  <2> QED
    BY <1>1, <1>3, <2>2
<1>4. CASE \E n \in metaDisk.written .. meta.written,
             c \in {FirmClaim} \cup (FirmClaim .. meta.claim),
             o \in {metaDisk.outbound, meta.outbound}, t \in BOOLEAN :
                meta' = MetaUpTo(n, c, o, t)
  <2>1. PICK n \in metaDisk.written .. meta.written,
             c \in {FirmClaim} \cup (FirmClaim .. meta.claim),
             o \in {metaDisk.outbound, meta.outbound}, t \in BOOLEAN :
                meta' = MetaUpTo(n, c, o, t)
    BY <1>4
  <2>2. /\ n \in 0 .. 3 /\ (n = 3 => meta.written = 3)
        /\ (n # 3 => metaDisk.written # 3)
        /\ c \in Nat /\ FirmClaim <= c /\ o \in BOOLEAN
    BY <1>0, <2>1 DEF TypeOK, MetaFile
  <2> DEFINE torn == n >= 1 /\ t /\ (n < meta.written \/ meta.torn
                                      \/ c # meta.claim \/ o # meta.outbound)
             claim == CASE n = 3 -> c [] n = 2 -> 1 [] n < 2 -> 0
  <2>3. torn \in BOOLEAN /\ (n = 3 /\ o) \in BOOLEAN
    BY <2>2
  <2>4. /\ n = 3 => claim = c
        /\ n = 2 => claim = 1
        /\ n < 2 => claim = 0
    BY <2>2
  <2>5. claim \in Nat
    BY <2>2, <2>4
  <2> HIDE DEF torn, claim
  <2>6. meta' = [exists |-> TRUE, written |-> n, torn |-> torn, claim |-> claim,
                 outbound |-> n = 3 /\ o]
    BY <2>1 DEF MetaUpTo, torn, claim
  <2>7. meta' \in MetaFile /\ meta'.exists /\ meta'.written = n /\ meta'.claim = claim
    BY <2>2, <2>3, <2>5, <2>6 DEF MetaFile
  <2> QED
    BY <1>0, <1>1, <2>2, <2>4, <2>7
<1>5. meta' \in MetaAfterPowerLoss
  BY DEF PowerLoss
<1> QED
  BY <1>2, <1>3, <1>4, <1>5 DEF MetaAfterPowerLoss

LEMMA NextType ==
  ASSUME TypeOK, PgnoInv, MetaInv, FirmInv, Next
  PROVE  TypeOK'
<1> USE DEF files, session, reader, history
<1>1. CASE \E w \in Writer : Create(w) \/ Open(w) \/ Write(w)
  BY <1>1, CreateType, OpenType, WriteType DEF PgnoInv
<1>2. CASE \E r \in Reader : Read(r)
  <2>1. PICK r \in Reader : Read(r)
    BY <1>2
  <2>2. CASE OpenRead(r)
    <3>1. rphase' \in [Reader -> {"Closed", "Empty", "Scanned", "Reading", "Broken"}]
      BY <2>2 DEF OpenRead, TypeOK
    <3> QED
      BY <2>2, <3>1 DEF OpenRead, TypeOK
  <2>3. CASE ReadFrames(r)
    BY <2>3 DEF ReadFrames, TypeOK
  <2>4. CASE ReadTorn(r)
    BY <2>4 DEF ReadTorn, TypeOK
  <2>5. CASE ReadForMigration(r)
    BY <2>5 DEF ReadForMigration, TypeOK
  <2>6. CASE CloseReader(r)
    BY <2>6 DEF CloseReader, TypeOK
  <2> QED
    BY <2>1, <2>2, <2>3, <2>4, <2>5, <2>6 DEF Read
<1>3. CASE TakeOver
  <2>1. meta.claim + 1 \in Nat /\ meta' = [meta EXCEPT !.claim = @ + 1]
    BY <1>3 DEF TakeOver, TypeOK, MetaFile
  <2>2. meta' \in MetaFile
    BY <2>1 DEF TypeOK, MetaFile
  <2> QED
    BY <1>3, <2>2 DEF TakeOver, TypeOK
<1>4. CASE Retire \/ TearRecord
  <2>1. meta' \in MetaFile
    BY <1>4 DEF Retire, TearRecord, TypeOK, MetaFile
  <2> QED
    BY <1>4, <2>1 DEF Retire, TearRecord, TypeOK
<1>5. CASE SyncRecord
  BY <1>5 DEF SyncRecord, TypeOK
<1>6. CASE PowerLoss
  <2>1. PICK k \in Len(landed) .. Len(pgno.frames) :
           pgno'.frames = SubSeq(pgno.frames, 1, k)
    BY <1>6, PowerLossPgno
  <2>2. /\ pgno' \in [exists : BOOLEAN, header : BOOLEAN,
                     frames : Seq(EnvelopeHeader), torn : BOOLEAN]
        /\ meta' \in MetaFile /\ metaDisk' \in MetaFile
    <3>1. meta' \in MetaFile /\ metaDisk' = meta'
      BY <1>6, PowerLossMeta DEF PowerLoss
    <3> QED
      BY <1>6, <3>1, PowerLossPgno
  <2>3. k \in 0 .. Len(author) /\ k \in 0 .. Len(pgno.frames)
    BY <2>1 DEF TypeOK, PgnoInv
  <2>4. Len(pgno'.frames) = k /\ author' = SubSeq(author, 1, k)
    BY <1>6, <2>1, <2>3, CutSeq DEF TypeOK, PowerLoss
  <2>5. author' \in Seq(Nat)
    BY <2>3, <2>4, CutSeq DEF TypeOK
  <2>6. durable' \in Nat
    BY <1>6, <2>2 DEF PowerLoss, Records
  <2>7. /\ phase' \in [Writer -> Phase] /\ lock' \in Writer \cup {Nobody}
        /\ index' \in [Writer -> Index] /\ pending' \in [Writer -> EnvelopeHeader]
    BY <1>6, NewIndexType, NoEnvelopeType DEF PowerLoss, Phase
  <2> QED
    BY <1>6, <2>2, <2>5, <2>6, <2>7 DEF PowerLoss, TypeOK
<1> QED
  BY <1>1, <1>2, <1>3, <1>4, <1>5, <1>6 DEF Next
-----------------------------------------------------------------------------
(* Steps of a writer. *)

(* The other writers are left as they are, and the lock with its holder. *)
OthersSame(w) ==
    \A v \in Writer \ {w} :
        /\ phase'[v] = phase[v] /\ carried'[v] = carried[v]
        /\ index'[v] = index[v] /\ count'[v] = count[v]
        /\ uncertain'[v] = uncertain[v] /\ pending'[v] = pending[v]
        /\ lock = v => lock' = v

(* A session that ends disturbs no other and claims nothing. *)
LEMMA ForgetSession ==
  ASSUME TypeOK, NEW w \in Writer, Forget(w)
  PROVE  OthersSame(w) /\ phase'[w] = "Closed" /\ SessionInv(w)'
<1>1. /\ phase'[w] = "Closed" /\ index'[w] = NewIndex /\ count'[w] = 0
      /\ uncertain'[w] = FALSE
  BY DEF TypeOK, Forget, Goto
<1>2. OthersSame(w)
  BY DEF TypeOK, Forget, Goto, Unlock, OthersSame
<1>3. SessionInv(w)'
  BY <1>1 DEF SessionInv, CreationInv, LockInv, KnowsInv, AppendInv, InUse, Writing
<1> QED
  BY <1>1, <1>2, <1>3

(* What a step does to the files, as far as a session without the lock can *)
(* tell.                                                                   *)
FilesGrow ==
    /\ meta.exists => meta'.exists
    /\ meta.written = 3 => meta'.written = 3 /\ meta.claim <= meta'.claim
    /\ pgno.exists => pgno'.exists
    /\ pgno.header => pgno'.header
    /\ pgno.header /\ durable >= 1 => durable' >= 1

(* The frames and the bytes behind them stay as they are. *)
FramesSame ==
    pgno'.frames = pgno.frames /\ pgno'.torn = pgno.torn /\ author' = author

(* A step leaves the session of a process that takes no part in it sound,  *)
(* when the files only grow, no header appears before its creator wrote    *)
(* it, and only the holder of the lock changes the frames.                 *)
LEMMA OtherSession ==
  ASSUME TypeOK, TypeOK', NEW v \in Writer, SessionInv(v),
         phase'[v] = phase[v], carried'[v] = carried[v], index'[v] = index[v],
         count'[v] = count[v], uncertain'[v] = uncertain[v], pending'[v] = pending[v],
         lock = v => lock' = v,
         FilesGrow,
         phase[v] = "WritingHeader" => pgno'.header = pgno.header,
         FramesSame \/ lock # v
  PROVE  SessionInv(v)'
<1>1. CreationInv(v)'
  BY DEF SessionInv, CreationInv, FilesGrow
<1>2. LockInv(v)'
  BY DEF SessionInv, LockInv, FilesGrow
<1>3. CASE phase[v] \in {"Admitting"} \cup InUse
  <2>1. FramesSame
    BY <1>3 DEF SessionInv, LockInv
  <2>2. KnowsInv(v)'
    BY <2>1 DEF SessionInv, KnowsInv, FramesSame
  <2>3. phase[v] = "Appending" => carried[v] <= meta'.claim
    <3>1. SUFFICES ASSUME phase[v] = "Appending" PROVE carried[v] <= meta'.claim
      OBVIOUS
    <3>2. meta.written = 3 /\ carried[v] <= meta.claim
      BY <3>1 DEF SessionInv, LockInv, AppendInv, InUse, Writing
    <3>3. meta.claim <= meta'.claim
      BY <3>2 DEF FilesGrow
    <3>4. meta.claim \in Nat /\ meta'.claim \in Nat /\ carried[v] \in Nat
      BY DEF TypeOK, MetaFile
    <3> QED
      BY <3>2, <3>3, <3>4
  <2>4. AppendInv(v)'
    BY <2>1, <2>3 DEF SessionInv, AppendInv, FramesSame
  <2> QED
    BY <1>1, <1>2, <2>2, <2>4 DEF SessionInv
<1>4. CASE phase[v] \notin {"Admitting"} \cup InUse
  BY <1>1, <1>2, <1>4 DEF SessionInv, KnowsInv, AppendInv, InUse, Writing
<1> QED
  BY <1>3, <1>4

(* So a step of w keeps all sessions sound if it keeps w's. *)
LEMMA AllSessions ==
  ASSUME FileInv, TypeOK', NEW w \in Writer, OthersSame(w), SessionInv(w)', FilesGrow,
         pgno'.header = pgno.header \/ phase[w] = "WritingHeader",
         FramesSame \/ lock = w
  PROVE  \A v \in Writer : SessionInv(v)'
<1>1. ASSUME NEW v \in Writer, v # w PROVE SessionInv(v)'
  <2>1. phase[v] = "WritingHeader" => pgno'.header = pgno.header
    BY <1>1 DEF FileInv, Alone, HeaderGroup
  <2>2. FramesSame \/ lock # v
    BY <1>1
  <2>3. /\ phase'[v] = phase[v] /\ carried'[v] = carried[v] /\ index'[v] = index[v]
        /\ count'[v] = count[v] /\ uncertain'[v] = uncertain[v]
        /\ pending'[v] = pending[v]
        /\ lock = v => lock' = v
    BY <1>1 DEF OthersSame
  <2> QED
    BY <2>1, <2>2, <2>3, OtherSession DEF FileInv
<1> QED
  BY <1>1

(* One process at most is in a group that w does not enter. *)
LEMMA AloneKept ==
  ASSUME NEW group, Alone(group), NEW w \in Writer, OthersSame(w),
         phase'[w] \in group => phase[w] \in group
  PROVE  Alone(group)'
  BY DEF Alone, OthersSame
(* A container with landed events, or one whose creation has succeeded,    *)
(* has a header, and syncing it keeps them all.                            *)
LEMMA SyncKeeps ==
  ASSUME TypeOK, PgnoInv
  PROVE  /\ landed # << >> => Len(landed) < Records(pgno)
         /\ pgno.header => Records(pgno) >= 1 /\ pgno.exists
<1>1. /\ Len(pgno.frames) \in Nat /\ Len(landed) \in Nat
      /\ Len(landed) <= Len(pgno.frames)
  BY DEF TypeOK, PgnoInv, PrefixOf
<1>2. pgno.header => Records(pgno) = Len(pgno.frames) + 1
  BY DEF Records
<1>3. pgno.header => pgno.exists
  BY DEF PgnoInv, TypeOK
<1>4. CASE pgno.header
  BY <1>1, <1>2, <1>3, <1>4
<1>5. CASE ~pgno.header
  <2>1. Len(landed) = 0
    <3>1. pgno.frames = << >>
      BY <1>5 DEF PgnoInv
    <3>2. Len(pgno.frames) = 0
      BY <3>1
    <3> QED
      BY <1>1, <3>2
  <2>2. landed = << >>
    BY <2>1, EmptySeq DEF TypeOK
  <2> QED
    BY <1>5, <2>2
<1> QED
  BY <1>4, <1>5

(* Steps of w that leave the records in both files as they are: they       *)
(* change the state of its session, the bytes behind the frames if it      *)
(* holds the lock, and what is surely on disk.                             *)
RecordsSame(w) ==
    /\ UNCHANGED <<meta, author, landed, view>>
    /\ pgno'.exists = pgno.exists
    /\ pgno'.header = pgno.header
    /\ pgno'.frames = pgno.frames
    /\ pgno'.torn = pgno.torn \/ (lock = w /\ pgno.header)
    /\ durable' \in {durable, Records(pgno)}
    /\ created' = created \/ (pgno.exists /\ pgno.header /\ durable' >= 1)

LEMMA WriterStep ==
  ASSUME FileInv, TypeOK', NEW w \in Writer, OthersSame(w), SessionInv(w)',
         RecordsSame(w),
         phase'[w] \in MetaGroup => phase[w] \in MetaGroup,
         phase'[w] \in HeaderGroup => phase[w] \in HeaderGroup,
         phase'[w] \in {"CreatingMeta", "WritingMeta"} => ~pgno.exists
  PROVE  FileInv'
<1>1. TypeOK /\ PgnoInv /\ MetaInv /\ ViewInv
  BY DEF FileInv
<1>2. PgnoInv'
  <2>1. /\ ~pgno'.exists => ~pgno'.header
        /\ ~pgno'.header => pgno'.frames = << >> /\ ~pgno'.torn
        /\ WellFormed(pgno.frames)' /\ Len(author') = Len(pgno'.frames)
        /\ EpochOrder'
        /\ PrefixOf(landed, pgno.frames)'
    BY <1>1 DEF PgnoInv, RecordsSame, PrefixOf, WellFormed, EpochOrder
  <2>2. landed' # << >> => Len(landed') < durable'
    BY <1>1, SyncKeeps DEF PgnoInv, RecordsSame
  <2>3. created' => pgno'.exists /\ pgno'.header /\ durable' >= 1
    BY <1>1, SyncKeeps DEF PgnoInv, RecordsSame
  <2> QED
    BY <2>1, <2>2, <2>3 DEF PgnoInv
<1>3. MetaInv'
  <2>1. ASSUME pgno.exists, meta.written # 3, NEW v \in Writer
        PROVE  phase'[v] \notin {"CreatingMeta", "WritingMeta"}
    BY <1>1, <2>1 DEF MetaInv, OthersSame
  <2> QED
    BY <1>1, <2>1 DEF MetaInv, RecordsSame
<1>4. Alone(MetaGroup)' /\ Alone(HeaderGroup)'
  BY AloneKept DEF FileInv, MetaGroup, HeaderGroup
<1>5. \A v \in Writer : SessionInv(v)'
  <2>1. FilesGrow
    <3>1. meta' = meta /\ meta.claim \in Nat
      BY <1>1 DEF RecordsSame, TypeOK, MetaFile
    <3>2. pgno.header /\ durable >= 1 => durable' >= 1
      BY <1>1, SyncKeeps DEF RecordsSame
    <3> QED
      BY <1>1, <3>1, <3>2 DEF RecordsSame, FilesGrow
  <2>2. FramesSame \/ lock = w
    BY DEF RecordsSame, FramesSame
  <2>3. pgno'.header = pgno.header
    BY DEF RecordsSame
  <2> QED
    BY <2>1, <2>2, <2>3, AllSessions
<1>6. ViewInv'
  BY <1>1 DEF ViewInv, RecordsSame, PrefixOf
<1> QED
  BY <1>2, <1>3, <1>4, <1>5, <1>6 DEF FileInv

(* A call that ends the session without a trace in the files. *)
LEMMA ForgetStep ==
  ASSUME FileInv, TypeOK', NEW w \in Writer, Forget(w), RecordsSame(w)
  PROVE  FileInv'
<1>1. TypeOK
  BY DEF FileInv
<1>2. OthersSame(w) /\ phase'[w] = "Closed" /\ SessionInv(w)'
  BY <1>1, ForgetSession
<1> QED
  BY <1>2, WriterStep DEF MetaGroup, HeaderGroup
(* A session that uses no file knows nothing of one. *)
LEMMA IdleSession ==
  ASSUME NEW w \in Writer, SessionInv(w), CreationInv(w)',
         phase[w] \notin InUse, phase'[w] \notin {"Admitting"} \cup InUse,
         index'[w] = index[w], count'[w] = count[w], uncertain'[w] = uncertain[w]
  PROVE  SessionInv(w)'
<1>1. ~uncertain[w] /\ index[w] = NewIndex /\ count[w] = 0
  BY DEF SessionInv, LockInv, InUse, Writing
<1> QED
  BY <1>1 DEF SessionInv, LockInv, KnowsInv, AppendInv, InUse, Writing

(* A step that moves w on and leaves every session's knowledge alone. *)
LEMMA GotoSession ==
  ASSUME TypeOK, NEW w \in Writer, NEW p, Goto(w, p),
         UNCHANGED <<index, count, uncertain, pending>>,
         \A v \in Writer \ {w} : carried'[v] = carried[v],
         lock' = lock \/ lock = Nobody
  PROVE  /\ OthersSame(w) /\ phase'[w] = p
         /\ index'[w] = index[w] /\ count'[w] = count[w] /\ uncertain'[w] = uncertain[w]
<1>1. \A v \in Writer : v # Nobody
  BY FileAssumption
<1>2. phase'[w] = p /\ \A v \in Writer \ {w} : phase'[v] = phase[v]
  BY DEF Goto, TypeOK
<1> QED
  BY <1>1, <1>2 DEF OthersSame

-----------------------------------------------------------------------------
(* Creation. *)

LEMMA CreateBeginInv ==
  ASSUME FileInv, TypeOK', NEW w \in Writer, CreateBegin(w)
  PROVE  FileInv'
<1> USE DEF files, reader, history
<1>1. TypeOK /\ SessionInv(w) /\ phase[w] = "Closed"
  BY DEF FileInv, CreateBegin
<1>2. ~pgno.exists
  BY <1>1 DEF CreateBegin, AdmitCreate, FilesPresent, Presence, TypeOK
<1>3. /\ OthersSame(w) /\ phase'[w] = "CreatingMeta"
      /\ index'[w] = index[w] /\ count'[w] = count[w] /\ uncertain'[w] = uncertain[w]
  <2>1. \A v \in Writer \ {w} : carried'[v] = carried[v]
    BY <1>1 DEF CreateBegin, TypeOK
  <2> QED
    BY <1>1, <2>1, GotoSession DEF CreateBegin
<1>4. SessionInv(w)'
  <2>1. CreationInv(w)'
    BY <1>3 DEF CreationInv
  <2> QED
    BY <1>1, <1>3, <2>1, IdleSession DEF InUse, Writing
<1>5. RecordsSame(w)
  BY <1>1 DEF CreateBegin, RecordsSame
<1> QED
  BY <1>2, <1>3, <1>4, <1>5, WriterStep DEF MetaGroup, HeaderGroup

LEMMA CreateMetaInv ==
  ASSUME FileInv, TypeOK', NEW w \in Writer, CreateMeta(w)
  PROVE  FileInv'
<1> USE DEF files, reader, history
<1>0. TypeOK /\ SessionInv(w) /\ PgnoInv /\ MetaInv /\ ViewInv /\ phase[w] = "CreatingMeta"
  BY DEF FileInv, CreateMeta
<1>1. CASE meta.exists
  <2>1. Forget(w) /\ RecordsSame(w)
    BY <1>0, <1>1 DEF CreateMeta, RecordsSame
  <2> QED
    BY <2>1, ForgetStep
<1>2. CASE ~meta.exists
  <2>1. /\ UNCHANGED <<pgno, durable, lock, carried, index, count, uncertain, pending>>
        /\ UNCHANGED <<view, author, landed, created>>
        /\ Goto(w, "WritingMeta")
        /\ meta'.exists /\ meta'.written = 0
    BY <1>2 DEF CreateMeta, NoMeta
  <2>2. meta.written = 0 /\ ~pgno.exists
    BY <1>0, <1>2 DEF MetaInv, NoMeta
  <2>3. /\ OthersSame(w) /\ phase'[w] = "WritingMeta"
        /\ index'[w] = index[w] /\ count'[w] = count[w] /\ uncertain'[w] = uncertain[w]
    BY <1>0, <2>1, GotoSession
  <2>4. SessionInv(w)'
    <3>1. CreationInv(w)'
      BY <2>1, <2>3 DEF CreationInv
    <3> QED
      BY <1>0, <2>3, <3>1, IdleSession DEF InUse, Writing
  <2>5. \A v \in Writer : SessionInv(v)'
    <3>1. FilesGrow /\ FramesSame /\ pgno'.header = pgno.header
      BY <2>1, <2>2 DEF FilesGrow, FramesSame
    <3> QED
      BY <2>3, <2>4, <3>1, AllSessions
  <2>6. PgnoInv' /\ ViewInv'
    BY <1>0, <2>1 DEF PgnoInv, ViewInv, EpochOrder
  <2>7. MetaInv'
    BY <2>1, <2>2 DEF MetaInv
  <2>8. Alone(MetaGroup)'
    <3>1. \A v \in Writer : phase[v] \notin MetaGroup
      BY <1>2, <2>2 DEF FileInv, SessionInv, CreationInv, MetaGroup
    <3> QED
      BY <2>3, <3>1 DEF Alone, OthersSame
  <2>9. Alone(HeaderGroup)'
    BY <2>3, AloneKept DEF FileInv, HeaderGroup
  <2> QED
    BY <2>5, <2>6, <2>7, <2>8, <2>9 DEF FileInv
<1> QED
  BY <1>1, <1>2

(* While .meta is being written there is no .pgno. *)
LEMMA WritingMetaAlone ==
  ASSUME FileInv, NEW w \in Writer, phase[w] = "WritingMeta", meta.written # 3
  PROVE  ~pgno.exists /\ ~pgno.header /\ pgno.frames = << >> /\ Len(author) = 0
<1>1. ~pgno.exists
  BY DEF FileInv, MetaInv
<1>2. ~pgno.header /\ pgno.frames = << >>
  BY <1>1 DEF FileInv, PgnoInv
<1> QED
  BY <1>1, <1>2 DEF FileInv, PgnoInv

LEMMA WriteMetaInv ==
  ASSUME FileInv, TypeOK', NEW w \in Writer, WriteMeta(w)
  PROVE  FileInv'
<1> USE DEF files, session, reader, history
<1>1. /\ TypeOK /\ PgnoInv /\ ViewInv /\ phase[w] = "WritingMeta"
      /\ meta.written < 3 /\ meta.written \in 0 .. 3 /\ meta.written # 3
      /\ SessionInv(w) /\ meta.exists
  BY DEF FileInv, WriteMeta, TypeOK, SessionInv, CreationInv, MetaFile
<1>2. ~pgno.exists /\ Len(author) = 0
  BY <1>1, WritingMetaAlone
<1>3. /\ UNCHANGED <<pgno, durable, lock, session, reader, history>>
      /\ meta'.exists
  BY <1>1 DEF WriteMeta, TypeOK
<1>4. OthersSame(w) /\ phase'[w] = phase[w]
  BY <1>3 DEF OthersSame
<1>5. SessionInv(w)'
  <2>1. CreationInv(w)'
    BY <1>1, <1>3 DEF CreationInv
  <2> QED
    BY <1>1, <1>3, <2>1, IdleSession DEF InUse, Writing
<1>6. \A v \in Writer : SessionInv(v)'
  <2>1. FilesGrow /\ FramesSame /\ pgno'.header = pgno.header
    BY <1>1, <1>3 DEF FilesGrow, FramesSame
  <2> QED
    BY <1>4, <1>5, <2>1, AllSessions
<1>7. PgnoInv' /\ ViewInv'
  BY <1>1, <1>3 DEF PgnoInv, ViewInv, EpochOrder
<1>8. MetaInv'
  BY <1>2, <1>3 DEF MetaInv
<1>9. Alone(MetaGroup)' /\ Alone(HeaderGroup)'
  BY <1>3 DEF FileInv, Alone
<1> QED
  BY <1>6, <1>7, <1>8, <1>9 DEF FileInv

LEMMA TearMetaInv ==
  ASSUME FileInv, TypeOK', NEW w \in Writer, TearMeta(w)
  PROVE  FileInv'
<1> USE DEF files, session, reader, history
<1>1. /\ TypeOK /\ PgnoInv /\ ViewInv /\ phase[w] = "WritingMeta" /\ meta.written # 3
      /\ SessionInv(w) /\ meta.exists
  BY DEF FileInv, TearMeta, SessionInv, CreationInv
<1>2. ~pgno.exists /\ Len(author) = 0
  BY <1>1, WritingMetaAlone
<1>3. /\ UNCHANGED <<pgno, durable, reader, history>> /\ Forget(w)
      /\ meta'.exists = meta.exists /\ meta'.written = meta.written
      /\ meta'.claim = meta.claim
  BY <1>1 DEF TearMeta, TypeOK, MetaFile
<1>4. OthersSame(w) /\ phase'[w] = "Closed" /\ SessionInv(w)'
  BY <1>1, <1>3, ForgetSession
<1>5. \A v \in Writer : SessionInv(v)'
  <2>1. FilesGrow /\ FramesSame /\ pgno'.header = pgno.header
    BY <1>1, <1>3 DEF FilesGrow, FramesSame
  <2> QED
    BY <1>4, <2>1, AllSessions
<1>6. PgnoInv' /\ ViewInv'
  BY <1>1, <1>3 DEF PgnoInv, ViewInv, EpochOrder
<1>7. MetaInv'
  BY <1>1, <1>2, <1>3 DEF MetaInv
<1>8. Alone(MetaGroup)' /\ Alone(HeaderGroup)'
  BY <1>4, AloneKept DEF FileInv, MetaGroup, HeaderGroup
<1> QED
  BY <1>5, <1>6, <1>7, <1>8 DEF FileInv

LEMMA SyncMetaInv ==
  ASSUME FileInv, TypeOK', NEW w \in Writer, SyncMeta(w)
  PROVE  FileInv'
<1> USE DEF files, reader, history
<1>1. TypeOK /\ SessionInv(w) /\ phase[w] = "WritingMeta" /\ meta.written = 3
  BY DEF FileInv, SyncMeta
<1>2. /\ OthersSame(w) /\ phase'[w] = "CreatingPgno"
      /\ index'[w] = index[w] /\ count'[w] = count[w] /\ uncertain'[w] = uncertain[w]
  BY <1>1, GotoSession DEF SyncMeta
<1>3. SessionInv(w)'
  <2>1. CreationInv(w)'
    BY <1>1, <1>2 DEF CreationInv, SyncMeta
  <2> QED
    BY <1>1, <1>2, <2>1, IdleSession DEF InUse, Writing
<1>4. RecordsSame(w)
  BY <1>1 DEF SyncMeta, RecordsSame
<1> QED
  BY <1>1, <1>2, <1>3, <1>4, WriterStep DEF MetaGroup, HeaderGroup
LEMMA CreatePgnoInv ==
  ASSUME FileInv, TypeOK', NEW w \in Writer, CreatePgno(w)
  PROVE  FileInv'
<1> USE DEF files, reader, history
<1>0. /\ TypeOK /\ SessionInv(w) /\ PgnoInv /\ MetaInv /\ ViewInv
      /\ phase[w] \in {"CreatingPgno", "MakingPgno"} /\ meta.written = 3
  BY DEF FileInv, CreatePgno, SessionInv, CreationInv
<1>1. CASE pgno.exists
  <2>1. Forget(w) /\ RecordsSame(w)
    BY <1>0, <1>1 DEF CreatePgno, MakePgno, RecordsSame
  <2> QED
    BY <2>1, ForgetStep
<1>2. CASE ~pgno.exists
  <2>1. /\ UNCHANGED <<meta, durable, lock, carried, index, count, uncertain, pending>>
        /\ UNCHANGED <<view, author, landed, created>>
        /\ Goto(w, "WritingHeader")
        /\ pgno'.exists /\ pgno'.header = FALSE
        /\ pgno'.frames = << >> /\ pgno'.torn = FALSE
    BY <1>2 DEF CreatePgno, MakePgno, NoPgno
  <2>2. pgno.header = FALSE /\ pgno.frames = << >> /\ pgno.torn = FALSE
    BY <1>0, <1>2 DEF PgnoInv, TypeOK
  <2>3. /\ OthersSame(w) /\ phase'[w] = "WritingHeader"
        /\ index'[w] = index[w] /\ count'[w] = count[w] /\ uncertain'[w] = uncertain[w]
    BY <1>0, <2>1, GotoSession
  <2>4. SessionInv(w)'
    <3>1. CreationInv(w)'
      BY <1>0, <2>1, <2>3 DEF CreationInv
    <3> QED
      BY <1>0, <2>3, <3>1, IdleSession DEF InUse, Writing
  <2>5. FramesSame /\ pgno'.header = pgno.header
    BY <2>1, <2>2 DEF FramesSame
  <2>6. \A v \in Writer : SessionInv(v)'
    <3>1. FilesGrow
      BY <1>0, <2>1, <2>2 DEF FilesGrow, TypeOK, MetaFile
    <3> QED
      BY <2>3, <2>4, <2>5, <3>1, AllSessions
  <2>7. PgnoInv' /\ ViewInv'
    BY <1>0, <1>2, <2>1, <2>2 DEF PgnoInv, ViewInv, EpochOrder
  <2>8. MetaInv'
    BY <1>0, <2>1 DEF MetaInv
  <2>9. Alone(MetaGroup)'
    BY <2>3, AloneKept DEF FileInv, MetaGroup
  <2>10. Alone(HeaderGroup)'
    <3>1. \A v \in Writer : phase[v] \notin HeaderGroup
      BY <1>2 DEF FileInv, SessionInv, CreationInv, HeaderGroup
    <3> QED
      BY <2>3, <3>1 DEF Alone, OthersSame
  <2> QED
    BY <2>6, <2>7, <2>8, <2>9, <2>10 DEF FileInv
<1> QED
  BY <1>1, <1>2

LEMMA WriteHeaderInv ==
  ASSUME FileInv, TypeOK', NEW w \in Writer, WriteHeader(w)
  PROVE  FileInv'
<1> USE DEF files, reader, history
<1>1. /\ TypeOK /\ SessionInv(w) /\ PgnoInv /\ MetaInv /\ ViewInv
      /\ phase[w] = "WritingHeader" /\ meta.written = 3
      /\ pgno.exists /\ ~pgno.header
  BY DEF FileInv, WriteHeader, SessionInv, CreationInv
<1>2. /\ UNCHANGED <<meta, durable, lock, carried, index, count, uncertain, pending>>
      /\ UNCHANGED <<view, author, landed, created>>
      /\ Goto(w, "SyncingHeader")
      /\ pgno'.exists = pgno.exists /\ pgno'.header
      /\ pgno'.frames = pgno.frames /\ pgno'.torn = pgno.torn
  BY <1>1 DEF WriteHeader, TypeOK
<1>3. /\ OthersSame(w) /\ phase'[w] = "SyncingHeader"
      /\ index'[w] = index[w] /\ count'[w] = count[w] /\ uncertain'[w] = uncertain[w]
  BY <1>1, <1>2, GotoSession
<1>4. SessionInv(w)'
  <2>1. CreationInv(w)'
    BY <1>1, <1>2, <1>3 DEF CreationInv
  <2> QED
    BY <1>1, <1>3, <2>1, IdleSession DEF InUse, Writing
<1>5. \A v \in Writer : SessionInv(v)'
  <2>1. FilesGrow /\ FramesSame
    BY <1>1, <1>2 DEF FilesGrow, FramesSame, TypeOK, MetaFile
  <2> QED
    BY <1>1, <1>3, <1>4, <2>1, AllSessions
<1>6. PgnoInv' /\ ViewInv'
  BY <1>1, <1>2 DEF PgnoInv, ViewInv, EpochOrder
<1>7. MetaInv'
  BY <1>1, <1>2 DEF MetaInv
<1>8. Alone(MetaGroup)' /\ Alone(HeaderGroup)'
  BY <1>1, <1>3, AloneKept DEF FileInv, MetaGroup, HeaderGroup
<1> QED
  BY <1>5, <1>6, <1>7, <1>8 DEF FileInv

(* Recovery begins with the index of no frames. *)
LEMMA RecoveryBegins ==
  ASSUME NEW w \in Writer, SessionInv(w), TypeOK', phase[w] \notin InUse,
         phase'[w] = "Recovering", lock' = w,
         index'[w] = index[w], count'[w] = count[w], uncertain'[w] = uncertain[w],
         pgno'.exists, pgno'.header, meta'.written = 3, ~pgno'.torn
  PROVE  SessionInv(w)'
<1>1. ~uncertain[w] /\ index[w] = NewIndex /\ count[w] = 0
  BY DEF SessionInv, LockInv, InUse, Writing
<1>2. index'[w] = IndexOf(pgno'.frames, count'[w])
  BY <1>1, EmptyIndex
<1>3. count'[w] <= Len(pgno'.frames)
  BY <1>1 DEF TypeOK
<1> QED
  BY <1>1, <1>2, <1>3
  DEF SessionInv, CreationInv, LockInv, KnowsInv, AppendInv, InUse, Writing

LEMMA SyncHeaderInv ==
  ASSUME FileInv, TypeOK', NEW w \in Writer, SyncHeader(w)
  PROVE  FileInv'
<1> USE DEF files, reader, history
<1>1. /\ TypeOK /\ PgnoInv /\ SessionInv(w) /\ phase[w] = "SyncingHeader"
      /\ meta.written = 3 /\ pgno.exists /\ pgno.header
  BY DEF FileInv, SyncHeader, SessionInv, CreationInv, HeaderGroup
<1>2. RecordsSame(w) /\ meta' = meta /\ pgno' = pgno
  BY <1>1 DEF SyncHeader, RecordsSame
<1>3. /\ OthersSame(w) /\ phase'[w] = "LockingHeader"
      /\ index'[w] = index[w] /\ count'[w] = count[w] /\ uncertain'[w] = uncertain[w]
  BY <1>1, GotoSession DEF SyncHeader
<1>4. durable' >= 1
  BY <1>1, SyncKeeps DEF SyncHeader
<1>5. SessionInv(w)'
  <2>1. CreationInv(w)'
    BY <1>1, <1>2, <1>3, <1>4 DEF CreationInv, HeaderGroup
  <2> QED
    BY <1>1, <1>3, <2>1, IdleSession DEF InUse, Writing
<1> QED
  BY <1>1, <1>2, <1>3, <1>5, WriterStep DEF MetaGroup, HeaderGroup

(* The creator takes the lock it did not hold while it filled in .pgno. *)
LEMMA LockHeaderInv ==
  ASSUME FileInv, TypeOK', NEW w \in Writer, LockHeader(w)
  PROVE  FileInv'
<1> USE DEF files, reader, history
<1>0. /\ TypeOK /\ SessionInv(w) /\ phase[w] = "LockingHeader" /\ meta.written = 3
      /\ pgno.exists /\ pgno.header /\ durable >= 1
  BY DEF FileInv, LockHeader, SessionInv, CreationInv, HeaderGroup
<1>1. RecordsSame(w)
  BY <1>0 DEF LockHeader, RecordsSame
<1>2. CASE lock = Nobody /\ ~pgno.torn
  <2>1. /\ UNCHANGED <<meta, pgno, carried, index, count, uncertain, pending>>
        /\ lock' = w /\ Goto(w, "Recovering")
    BY <1>2 DEF LockHeader
  <2>2. /\ OthersSame(w) /\ phase'[w] = "Recovering"
        /\ index'[w] = index[w] /\ count'[w] = count[w] /\ uncertain'[w] = uncertain[w]
    BY <1>0, <1>2, <2>1, GotoSession
  <2>3. SessionInv(w)'
    BY <1>0, <1>2, <2>1, <2>2, RecoveryBegins DEF InUse, Writing
  <2> QED
    BY <1>1, <2>2, <2>3, WriterStep DEF MetaGroup, HeaderGroup
<1>3. CASE ~(lock = Nobody /\ ~pgno.torn)
  <2>1. Forget(w)
    BY <1>3 DEF LockHeader
  <2> QED
    BY <1>1, <2>1, ForgetStep
<1> QED
  BY <1>2, <1>3

-----------------------------------------------------------------------------
(* Opening. *)

LEMMA OpenWriteInv ==
  ASSUME FileInv, TypeOK', NEW w \in Writer, NEW epoch, OpenWrite(w, epoch)
  PROVE  FileInv'
<1> USE DEF files, reader, history
<1>1. TypeOK /\ SessionInv(w) /\ phase[w] = "Closed"
  BY DEF FileInv, OpenWrite
<1>2. PICK p \in {"Locking", "Completing"} : Goto(w, p)
  BY DEF OpenWrite
<1>3. /\ OthersSame(w) /\ phase'[w] = p
      /\ index'[w] = index[w] /\ count'[w] = count[w] /\ uncertain'[w] = uncertain[w]
  <2>1. \A v \in Writer \ {w} : carried'[v] = carried[v]
    BY <1>1 DEF OpenWrite, TypeOK
  <2> QED
    BY <1>1, <1>2, <2>1, GotoSession DEF OpenWrite
<1>4. SessionInv(w)'
  <2>1. CreationInv(w)'
    BY <1>2, <1>3 DEF CreationInv
  <2> QED
    BY <1>1, <1>2, <1>3, <2>1, IdleSession DEF InUse, Writing
<1>5. RecordsSame(w)
  BY <1>1 DEF OpenWrite, RecordsSame
<1> QED
  BY <1>2, <1>3, <1>4, <1>5, WriterStep DEF MetaGroup, HeaderGroup

LEMMA CompleteCreationInv ==
  ASSUME FileInv, TypeOK', NEW w \in Writer, CompleteCreation(w)
  PROVE  FileInv'
<1> USE DEF files, reader, history
<1>0. TypeOK /\ SessionInv(w) /\ phase[w] = "Completing" /\ RecordsSame(w)
  BY DEF FileInv, CompleteCreation, RecordsSame
<1>1. CASE AdmitCompletion(FilesPresent) /\ CompletionAdmits(carried[w])
  <2>1. meta.written = 3
    <3>1. meta.written >= 3
      BY <1>1 DEF CompletionAdmits, HasDescriptor
    <3>2. meta.written \in 0 .. 3
      BY <1>0 DEF TypeOK, MetaFile
    <3> QED
      BY <3>1, <3>2
  <2>2. /\ OthersSame(w) /\ phase'[w] = "MakingPgno"
        /\ index'[w] = index[w] /\ count'[w] = count[w] /\ uncertain'[w] = uncertain[w]
    BY <1>0, <1>1, GotoSession DEF CompleteCreation
  <2>3. SessionInv(w)'
    <3>1. CreationInv(w)'
      BY <1>0, <2>1, <2>2 DEF CreationInv, RecordsSame
    <3> QED
      BY <1>0, <2>2, <3>1, IdleSession DEF InUse, Writing
  <2> QED
    BY <1>0, <2>2, <2>3, WriterStep DEF MetaGroup, HeaderGroup
<1>2. CASE ~(AdmitCompletion(FilesPresent) /\ CompletionAdmits(carried[w]))
  <2>1. Forget(w)
    BY <1>2 DEF CompleteCreation
  <2> QED
    BY <1>0, <2>1, ForgetStep
<1> QED
  BY <1>1, <1>2

LEMMA TakeLockInv ==
  ASSUME FileInv, TypeOK', NEW w \in Writer, TakeLock(w)
  PROVE  FileInv'
<1> USE DEF files, reader, history
<1>0. TypeOK /\ SessionInv(w) /\ phase[w] = "Locking" /\ RecordsSame(w)
  BY DEF FileInv, TakeLock, RecordsSame
<1>1. CASE lock = Nobody
  <2>1. lock' = w
    BY <1>1 DEF TakeLock
  <2>2. /\ OthersSame(w) /\ phase'[w] = "Admitting"
        /\ index'[w] = index[w] /\ count'[w] = count[w] /\ uncertain'[w] = uncertain[w]
    BY <1>0, <1>1, GotoSession DEF TakeLock
  <2>3. SessionInv(w)'
    BY <1>0, <2>1, <2>2
    DEF SessionInv, CreationInv, LockInv, KnowsInv, AppendInv, InUse, Writing
  <2> QED
    BY <1>0, <2>2, <2>3, WriterStep DEF MetaGroup, HeaderGroup
<1>2. CASE lock # Nobody
  <2>1. Forget(w)
    BY <1>2 DEF TakeLock
  <2> QED
    BY <1>0, <2>1, ForgetStep
<1> QED
  BY <1>1, <1>2
LEMMA AdmitInv ==
  ASSUME FileInv, TypeOK', NEW w \in Writer, Admit(w)
  PROVE  FileInv'
<1> USE DEF files, reader, history
<1>0. /\ TypeOK /\ SessionInv(w) /\ phase[w] = "Admitting" /\ lock = w
  BY DEF FileInv, Admit, SessionInv, LockInv
<1>1. CASE OpenAdmits(carried[w]) /\ pgno.header
  <2>1. meta.written = 3 /\ pgno.exists
    <3>1. meta.written >= 3
      BY <1>1 DEF OpenAdmits, CompletionAdmits, HasDescriptor
    <3>2. meta.written \in 0 .. 3
      BY <1>0 DEF TypeOK, MetaFile
    <3>3. pgno.exists
      BY <1>1 DEF FileInv, PgnoInv
    <3> QED
      BY <3>1, <3>2, <3>3
  <2>2. /\ UNCHANGED <<meta, author, landed, created, view>>
        /\ UNCHANGED <<lock, carried, index, count, uncertain, pending>>
        /\ Goto(w, "Recovering")
        /\ pgno' = [pgno EXCEPT !.torn = FALSE]
        /\ durable' = IF pgno.torn THEN Records(pgno') ELSE durable
    BY <1>1 DEF Admit, TruncateTail
  <2>3. /\ pgno'.exists = pgno.exists /\ pgno'.header = pgno.header
        /\ pgno'.frames = pgno.frames /\ pgno'.torn = FALSE
    BY <1>0, <2>2 DEF TypeOK
  <2>4. durable' \in {durable, Records(pgno)}
    BY <2>2, <2>3 DEF Records
  <2>5. RecordsSame(w)
    BY <1>0, <1>1, <2>2, <2>3, <2>4 DEF RecordsSame
  <2>6. /\ OthersSame(w) /\ phase'[w] = "Recovering"
        /\ index'[w] = index[w] /\ count'[w] = count[w] /\ uncertain'[w] = uncertain[w]
    BY <1>0, <2>2, GotoSession
  <2>7. SessionInv(w)'
    BY <1>0, <1>1, <2>1, <2>2, <2>3, <2>6, RecoveryBegins DEF InUse, Writing
  <2> QED
    BY <2>5, <2>6, <2>7, WriterStep DEF MetaGroup, HeaderGroup
<1>2. CASE ~(OpenAdmits(carried[w]) /\ pgno.header)
  <2>1. Forget(w) /\ RecordsSame(w)
    BY <1>2 DEF Admit, RecordsSame
  <2> QED
    BY <2>1, ForgetStep
<1> QED
  BY <1>1, <1>2

LEMMA AdmitUnsyncedInv ==
  ASSUME FileInv, TypeOK', NEW w \in Writer, AdmitUnsynced(w)
  PROVE  FileInv'
<1> USE DEF files, reader, history
<1>1. TypeOK /\ lock = w /\ pgno.header
  BY DEF FileInv, AdmitUnsynced, SessionInv, LockInv
<1>2. Forget(w) /\ RecordsSame(w)
  BY <1>1 DEF AdmitUnsynced, RecordsSame, TypeOK
<1> QED
  BY <1>2, ForgetStep

(* Recovery reads on: a well-formed file is admitted frame by frame. *)
LEMMA RecoverFrameInv ==
  ASSUME FileInv, TypeOK', NEW w \in Writer, RecoverFrame(w)
  PROVE  FileInv'
<1> USE DEF files, reader, history
<1> DEFINE n == count[w]
           env == pgno.frames[n + 1]
<1>1. /\ TypeOK /\ SessionInv(w) /\ phase[w] = "Recovering" /\ RecordsSame(w)
      /\ pgno.frames \in Seq(EnvelopeHeader) /\ WellFormed(pgno.frames)
      /\ n \in Nat /\ n < Len(pgno.frames)
  BY DEF FileInv, RecoverFrame, RecordsSame, PgnoInv, TypeOK
<1>2. ~uncertain[w] /\ ~pgno.torn /\ index[w] = IndexOf(pgno.frames, n)
  BY <1>1 DEF SessionInv, LockInv, KnowsInv, InUse, Writing
<1>3. /\ n \in 0 .. Len(pgno.frames) - 1 /\ n + 1 \in 1 .. Len(pgno.frames)
      /\ (n + 1) - 1 = n
  BY <1>1
<1>4. Extends(pgno.frames, n, env)
  <2>1. Extends(pgno.frames, (n + 1) - 1, env)
    BY <1>1, <1>3 DEF WellFormed
  <2> QED
    BY <1>3, <2>1
<1>5. /\ ProcessFrameAdmits(IndexOf(pgno.frames, n), env)
      /\ ProcessFrame(IndexOf(pgno.frames, n), env) = IndexOf(pgno.frames, n + 1)
  <2> HIDE DEF n
  <2> QED
    BY <1>1, <1>3, <1>4, ProcessStep
<1> HIDE DEF env
<1>6. /\ index' = [index EXCEPT ![w] = ProcessFrame(@, env)]
      /\ count' = [count EXCEPT ![w] = @ + 1]
      /\ UNCHANGED <<files, lock, phase, carried, uncertain, pending, reader, history>>
  BY <1>2, <1>5 DEF RecoverFrame, env
<1>7. /\ index'[w] = IndexOf(pgno.frames, n + 1) /\ count'[w] = n + 1
      /\ OthersSame(w) /\ phase'[w] = "Recovering"
  BY <1>1, <1>2, <1>5, <1>6 DEF TypeOK, OthersSame
<1>8. n + 1 <= Len(pgno.frames)
  BY <1>3
<1>9. SessionInv(w)'
  <2> HIDE DEF n
  <2>1. CreationInv(w)' /\ LockInv(w)' /\ AppendInv(w)'
    BY <1>1, <1>6, <1>7
    DEF SessionInv, CreationInv, LockInv, AppendInv, InUse, Writing
  <2>2. KnowsInv(w)'
    BY <1>1, <1>2, <1>6, <1>7, <1>8 DEF KnowsInv
  <2> QED
    BY <2>1, <2>2 DEF SessionInv
<1> QED
  BY <1>1, <1>7, <1>9, WriterStep DEF MetaGroup, HeaderGroup

LEMMA RecoverDoneInv ==
  ASSUME FileInv, TypeOK', NEW w \in Writer, RecoverDone(w)
  PROVE  FileInv'
<1> USE DEF files, reader, history
<1>1. /\ TypeOK /\ SessionInv(w) /\ phase[w] = "Recovering" /\ RecordsSame(w)
      /\ Len(pgno.frames) \in Nat
  BY DEF FileInv, RecoverDone, RecordsSame, TypeOK
<1>2. /\ OthersSame(w) /\ phase'[w] = "Ready"
      /\ index'[w] = index[w] /\ count'[w] = count[w] /\ uncertain'[w] = uncertain[w]
  BY <1>1, GotoSession DEF RecoverDone
<1>3. SessionInv(w)'
  <2>1. CreationInv(w)' /\ LockInv(w)' /\ AppendInv(w)'
    BY <1>1, <1>2
    DEF RecoverDone, SessionInv, CreationInv, LockInv, AppendInv, InUse, Writing
  <2>2. KnowsInv(w)'
    BY <1>1, <1>2 DEF RecoverDone, SessionInv, KnowsInv, InUse
  <2> QED
    BY <2>1, <2>2 DEF SessionInv
<1> QED
  BY <1>1, <1>2, <1>3, WriterStep DEF MetaGroup, HeaderGroup

LEMMA CloseInv ==
  ASSUME FileInv, TypeOK', NEW w \in Writer, Close(w)
  PROVE  FileInv'
<1>1. Forget(w) /\ RecordsSame(w)
  BY DEF Close, RecordsSame, files, reader, history
<1> QED
  BY <1>1, ForgetStep

-----------------------------------------------------------------------------
(* Appending. *)

LEMMA AppendEventInv ==
  ASSUME FileInv, TypeOK', NEW w \in Writer, NEW f \in FiberId, NEW id \in EventId,
         AppendEvent(w, f, id)
  PROVE  FileInv'
<1> USE DEF files, reader, history
<1>1. PICK minted \in {HandleAppend(Fiber(index[w], f), id),
                       HandleDetach(Fiber(index[w], f), id),
                       HandleRescue(Fiber(index[w], f), id)} :
         BeginAppend(w, f, minted)
  BY DEF AppendEvent
<1> DEFINE env == minted.env
<1>2. /\ TypeOK /\ SessionInv(w) /\ phase[w] = "Ready" /\ ~uncertain[w]
      /\ RecordsSame(w) /\ index[w] \in Index
      /\ pgno.frames \in Seq(EnvelopeHeader) /\ Len(pgno.frames) \in Nat
  BY <1>1 DEF FileInv, BeginAppend, RecordsSame, TypeOK
<1>3. env \in EnvelopeHeader
  BY <1>2, MintType
<1>4. index[w] = IndexOf(pgno.frames, Len(pgno.frames))
  BY <1>2 DEF SessionInv, KnowsInv, InUse, Writing
<1> HIDE DEF env
<1>5. Extends(pgno.frames, Len(pgno.frames), env)
  <2>1. ValidateAppend(index[w], env) = "Ok"
    BY <1>1 DEF BeginAppend, env
  <2>2. Len(pgno.frames) \in 0 .. Len(pgno.frames)
    BY <1>2
  <2> QED
    BY <1>2, <1>3, <1>4, <2>1, <2>2, ValidateIffExtends
<1>6. /\ pending'[w] = env /\ phase'[w] = "Appending" /\ OthersSame(w)
      /\ index'[w] = index[w] /\ count'[w] = count[w] /\ uncertain'[w] = uncertain[w]
      /\ carried'[w] = carried[w] /\ lock' = lock /\ meta' = meta /\ pgno' = pgno
  BY <1>1, <1>2 DEF BeginAppend, Goto, TypeOK, OthersSame, env
<1>7. carried[w] = meta.claim /\ carried[w] \in Nat
  BY <1>1, <1>2 DEF BeginAppend, HasAuthority, TypeOK
<1>8. \A i \in 1 .. Len(author) : author[i] <= carried[w]
  <2>1. meta.written = 3
    BY <1>2 DEF SessionInv, LockInv, InUse, Writing
  <2> QED
    BY <1>7, <2>1 DEF FileInv, MetaInv
<1>9. SessionInv(w)'
  <2>1. CreationInv(w)' /\ LockInv(w)'
    BY <1>2, <1>6 DEF SessionInv, CreationInv, LockInv, InUse, Writing
  <2>2. KnowsInv(w)'
    BY <1>2, <1>6 DEF SessionInv, KnowsInv, InUse, Writing
  <2>3. AppendInv(w)'
    <3>1. author' = author
      BY <1>2 DEF RecordsSame
    <3>2. Extends(pgno.frames, Len(pgno.frames), pending[w])'
      BY <1>5, <1>6
    <3> QED
      BY <1>6, <1>7, <1>8, <3>1, <3>2 DEF AppendInv
  <2> QED
    BY <2>1, <2>2, <2>3 DEF SessionInv
<1> QED
  BY <1>2, <1>6, <1>9, WriterStep DEF MetaGroup, HeaderGroup
(* The frame goes behind a line it extends, under the lock. *)
LEMMA WriteBlockInv ==
  ASSUME FileInv, TypeOK', NEW w \in Writer, WriteBlock(w)
  PROVE  FileInv'
<1> USE DEF files, reader, history
<1> DEFINE frames == pgno.frames
           env == pending[w]
<1>1. /\ TypeOK /\ SessionInv(w) /\ PgnoInv /\ MetaInv /\ ViewInv
      /\ phase[w] = "Appending" /\ lock = w /\ ~uncertain[w]
      /\ pgno.exists /\ pgno.header /\ meta.written = 3 /\ ~pgno.torn
      /\ count[w] = Len(frames) /\ index[w] = IndexOf(frames, count[w])
      /\ Extends(frames, Len(frames), env)
      /\ carried[w] <= meta.claim
      /\ \A i \in 1 .. Len(author) : author[i] <= carried[w]
  <2>1. /\ TypeOK /\ SessionInv(w) /\ PgnoInv /\ MetaInv /\ ViewInv
        /\ phase[w] = "Appending"
    BY DEF FileInv, WriteBlock
  <2>2. phase[w] \in InUse /\ uncertain[w] \in BOOLEAN /\ Len(frames) \in Nat
    BY <2>1 DEF InUse, Writing, TypeOK
  <2>3. /\ lock = w /\ ~uncertain[w]
        /\ pgno.exists /\ pgno.header /\ meta.written = 3
    BY <2>1, <2>2 DEF SessionInv, LockInv
  <2>4. ~pgno.torn /\ count[w] = Len(frames) /\ index[w] = IndexOf(frames, count[w])
    BY <2>1, <2>2, <2>3 DEF SessionInv, KnowsInv
  <2> QED
    BY <2>1, <2>3, <2>4 DEF SessionInv, AppendInv
<1>2. /\ frames \in Seq(EnvelopeHeader) /\ Len(frames) \in Nat
      /\ env \in EnvelopeHeader /\ author \in Seq(Nat) /\ carried[w] \in Nat
      /\ Len(author) = Len(frames)
  BY <1>1 DEF TypeOK, PgnoInv
<1>3. /\ pgno'.exists = pgno.exists /\ pgno'.header = pgno.header
      /\ pgno'.torn = pgno.torn /\ pgno'.frames = Append(frames, env)
      /\ author' = Append(author, carried[w])
      /\ UNCHANGED <<meta, durable, lock, carried, index, count, uncertain, pending,
                     view, landed, created>>
      /\ Goto(w, "Syncing")
  BY <1>1 DEF WriteBlock, TypeOK
<1> HIDE DEF env
<1>4. /\ OthersSame(w) /\ phase'[w] = "Syncing"
      /\ index'[w] = index[w] /\ count'[w] = count[w] /\ uncertain'[w] = uncertain[w]
  BY <1>1, <1>3, GotoSession
<1> DEFINE more == Append(frames, env)
<1>5. /\ Len(more) = Len(frames) + 1 /\ more[Len(more)] = env /\ more # << >>
      /\ \A i \in 1 .. Len(frames) : more[i] = frames[i]
  BY <1>2
<1>6. WellFormed(more)
  BY <1>1, <1>2, AppendWellFormed DEF PgnoInv
<1>7. IndexOf(more, Len(frames)) = IndexOf(frames, Len(frames))
  <2> HIDE DEF frames, more
  <2> QED
    BY <1>2, <1>5, PrefixStable
<1>8. PrefixOf(landed, more) /\ \A r \in Reader : PrefixOf(view[r], more)
  <2>1. landed \in Seq(EnvelopeHeader) /\ PrefixOf(landed, frames)
    BY <1>1 DEF TypeOK, PgnoInv
  <2>2. \A r \in Reader : view[r] \in Seq(EnvelopeHeader) /\ PrefixOf(view[r], frames)
    BY <1>1 DEF TypeOK, ViewInv
  <2> HIDE DEF frames
  <2> QED
    BY <1>2, <2>1, <2>2, PrefixKept
<1> HIDE DEF more
<1>9. /\ Len(author') = Len(author) + 1 /\ author'[Len(author) + 1] = carried[w]
      /\ \A i \in 1 .. Len(author) : author'[i] = author[i]
      /\ Len(author) \in Nat /\ \A i \in 1 .. Len(author) : author[i] \in Nat
  BY <1>2, <1>3
<1>10. EpochOrder'
  <2>1. SUFFICES ASSUME NEW i \in 1 .. Len(author) + 1, NEW j \in 1 .. Len(author) + 1,
                        i < j
                 PROVE  author'[i] <= author'[j]
    BY <1>9 DEF EpochOrder
  <2>2. i \in 1 .. Len(author)
    BY <1>9, <2>1
  <2>3. CASE j = Len(author) + 1
    BY <1>1, <1>9, <2>2, <2>3
  <2>4. CASE j \in 1 .. Len(author)
    <3>1. author[i] <= author[j]
      BY <1>1, <2>1, <2>2, <2>4 DEF PgnoInv, EpochOrder
    <3> QED
      BY <1>9, <2>2, <2>4, <3>1
  <2> QED
    BY <1>9, <2>3, <2>4
<1>11. PgnoInv'
  <2>1. pgno'.frames = more
    BY <1>3 DEF more
  <2>2. Len(author') = Len(more)
    BY <1>2, <1>5, <1>9
  <2> QED
    BY <1>1, <1>3, <1>6, <1>8, <1>10, <2>1, <2>2 DEF PgnoInv
<1>12. ViewInv'
  BY <1>3, <1>8 DEF ViewInv, more
<1>13. MetaInv'
  <2>1. \A i \in 1 .. Len(author') : author'[i] <= meta'.claim
    <3>1. SUFFICES ASSUME NEW i \in 1 .. Len(author) + 1 PROVE author'[i] <= meta.claim
      BY <1>3, <1>9
    <3>2. meta.claim \in Nat
      BY <1>1 DEF TypeOK, MetaFile
    <3>3. CASE i = Len(author) + 1
      BY <1>1, <1>9, <3>3
    <3>4. CASE i \in 1 .. Len(author)
      BY <1>1, <1>9, <3>4 DEF MetaInv
    <3> QED
      BY <1>9, <3>3, <3>4
  <2> QED
    BY <1>1, <1>3, <2>1 DEF MetaInv
<1>14. SessionInv(w)'
  <2>1. CreationInv(w)' /\ LockInv(w)'
    BY <1>1, <1>3, <1>4 DEF SessionInv, CreationInv, LockInv, InUse, Writing
  <2>2. KnowsInv(w)'
    <3>1. count'[w] = Len(pgno'.frames) - 1
      BY <1>1, <1>2, <1>3, <1>4, <1>5 DEF more
    <3>2. index'[w] = IndexOf(pgno'.frames, count'[w])
      BY <1>1, <1>3, <1>4, <1>7 DEF more
    <3> QED
      BY <1>1, <1>3, <1>4, <3>1, <3>2 DEF KnowsInv
  <2>3. AppendInv(w)'
    BY <1>3, <1>4, <1>5 DEF AppendInv, more, env
  <2> QED
    BY <2>1, <2>2, <2>3 DEF SessionInv
<1>15. \A v \in Writer : SessionInv(v)'
  <2>1. FilesGrow
    BY <1>1, <1>3 DEF FilesGrow, TypeOK, MetaFile
  <2> QED
    BY <1>1, <1>3, <1>4, <1>14, <2>1, AllSessions
<1>16. Alone(MetaGroup)' /\ Alone(HeaderGroup)'
  BY <1>4, AloneKept DEF FileInv, MetaGroup, HeaderGroup
<1> QED
  BY <1>11, <1>12, <1>13, <1>15, <1>16 DEF FileInv

(* The state a failed write or sync leaves. *)
LEMMA UncertainStep ==
  ASSUME FileInv, TypeOK', NEW w \in Writer, phase[w] \in {"Ready", "Appending", "Syncing"},
         phase'[w] = "Ready", uncertain'[w] = TRUE, lock' = lock,
         OthersSame(w), RecordsSame(w)
  PROVE  FileInv'
<1>1. TypeOK /\ SessionInv(w)
  BY DEF FileInv
<1>2. SessionInv(w)'
  <2>1. CreationInv(w)' /\ LockInv(w)'
    BY <1>1 DEF SessionInv, CreationInv, LockInv, InUse, Writing, RecordsSame
  <2>2. KnowsInv(w)' /\ AppendInv(w)'
    BY DEF KnowsInv, AppendInv
  <2> QED
    BY <2>1, <2>2 DEF SessionInv
<1> QED
  BY <1>2, WriterStep DEF MetaGroup, HeaderGroup

LEMMA WriteFailsInv ==
  ASSUME FileInv, TypeOK', NEW w \in Writer, WriteFails(w)
  PROVE  FileInv'
<1> USE DEF files, reader, history
<1>1. TypeOK /\ phase[w] = "Appending" /\ lock = w /\ pgno.header
  BY DEF FileInv, WriteFails, SessionInv, LockInv, InUse, Writing
<1>2. RecordsSame(w)
  <2>1. UNCHANGED <<meta, author, landed, created, view>>
    BY DEF WriteFails
  <2>2. CASE pgno' = pgno
    BY <1>1, <2>1, <2>2 DEF WriteFails, RecordsSame
  <2>3. CASE pgno' = [pgno EXCEPT !.torn = TRUE] /\ durable' = durable
    BY <1>1, <2>1, <2>3 DEF RecordsSame, TypeOK
  <2> QED
    BY <2>2, <2>3 DEF WriteFails
<1>3. /\ OthersSame(w) /\ phase'[w] = "Ready" /\ uncertain'[w] = TRUE /\ lock' = lock
  BY <1>1 DEF WriteFails, Undetermined, Goto, TypeOK, OthersSame
<1> QED
  BY <1>1, <1>2, <1>3, UncertainStep

LEMMA DieWritingInv ==
  ASSUME FileInv, TypeOK', NEW w \in Writer, DieWriting(w)
  PROVE  FileInv'
<1> USE DEF files, reader, history
<1>1. TypeOK /\ phase[w] = "Appending" /\ lock = w /\ pgno.header
  BY DEF FileInv, DieWriting, SessionInv, LockInv, InUse, Writing
<1>2. Forget(w) /\ RecordsSame(w)
  BY <1>1 DEF DieWriting, RecordsSame, TypeOK
<1> QED
  BY <1>2, ForgetStep

LEMMA SyncBlockFailsInv ==
  ASSUME FileInv, TypeOK', NEW w \in Writer, SyncBlockFails(w)
  PROVE  FileInv'
<1> USE DEF files, reader, history
<1>1. TypeOK /\ phase[w] = "Syncing" /\ RecordsSame(w)
  BY DEF FileInv, SyncBlockFails, RecordsSame
<1>2. /\ OthersSame(w) /\ phase'[w] = "Ready" /\ uncertain'[w] = TRUE /\ lock' = lock
  BY <1>1 DEF SyncBlockFails, Undetermined, Goto, TypeOK, OthersSame
<1> QED
  BY <1>1, <1>2, UncertainStep

LEMMA SyncFailsInv ==
  ASSUME FileInv, TypeOK', NEW w \in Writer, SyncFails(w)
  PROVE  FileInv'
<1> USE DEF files, reader, history
<1>1. TypeOK /\ phase[w] = "Ready" /\ RecordsSame(w)
  BY DEF FileInv, SyncFails, RecordsSame
<1>2. /\ OthersSame(w) /\ phase'[w] = "Ready" /\ uncertain'[w] = TRUE /\ lock' = lock
  BY <1>1 DEF SyncFails, TypeOK, OthersSame
<1> QED
  BY <1>1, <1>2, UncertainStep

LEMMA SyncInv ==
  ASSUME FileInv, TypeOK', NEW w \in Writer, Sync(w)
  PROVE  FileInv'
<1> USE DEF files, session, reader, history
<1>1. TypeOK /\ SessionInv(w) /\ phase[w] = "Ready" /\ RecordsSame(w)
      /\ UNCHANGED <<meta, pgno, lock, session, author>>
  BY DEF FileInv, Sync, RecordsSame
<1>2. OthersSame(w) /\ phase'[w] = "Ready"
  BY <1>1 DEF OthersSame
<1>3. SessionInv(w)'
  BY <1>1 DEF SessionInv, CreationInv, LockInv, KnowsInv, AppendInv
<1> QED
  BY <1>1, <1>2, <1>3, WriterStep DEF MetaGroup, HeaderGroup

(* A landed event is the last of the file, and the whole file is on disk. *)
LEMMA SyncBlockInv ==
  ASSUME FileInv, TypeOK', NEW w \in Writer, SyncBlock(w)
  PROVE  FileInv'
<1> USE DEF files, reader, history
<1> DEFINE frames == pgno.frames
           n == Len(frames) - 1
<1>1. /\ TypeOK /\ SessionInv(w) /\ PgnoInv /\ MetaInv /\ ViewInv
      /\ phase[w] = "Syncing" /\ lock = w /\ ~uncertain[w]
      /\ pgno.exists /\ pgno.header /\ meta.written = 3 /\ ~pgno.torn
      /\ count[w] = n /\ index[w] = IndexOf(frames, count[w])
      /\ frames # << >> /\ frames[Len(frames)] = pending[w]
      /\ frames \in Seq(EnvelopeHeader) /\ Len(frames) \in Nat
  BY DEF FileInv, SyncBlock, SessionInv, LockInv, KnowsInv, AppendInv, InUse, Writing, TypeOK
<1>2. /\ UNCHANGED <<meta, pgno, lock, carried, uncertain, author, created, view>>
      /\ durable' = Len(frames) + 1 /\ landed' = frames
      /\ index'[w] = CommitEnvelope(index[w], pending[w])
      /\ count'[w] = count[w] + 1
      /\ phase'[w] = "Ready" /\ OthersSame(w)
  BY <1>1 DEF SyncBlock, Goto, Records, TypeOK, OthersSame
<1>3. n \in 0 .. Len(frames) - 1 /\ n + 1 = Len(frames)
  <2>1. Len(frames) # 0
    BY <1>1, EmptySeq
  <2> QED
    BY <1>1, <2>1
<1>4. index'[w] = IndexOf(frames, Len(frames)) /\ count'[w] = Len(frames)
  <2>1. CommitEnvelope(IndexOf(frames, n), frames[n + 1]) = IndexOf(frames, n + 1)
    <3> HIDE DEF n, frames
    <3> QED
      BY <1>1, <1>3, CommitStep
  <2> QED
    BY <1>1, <1>2, <1>3, <2>1
<1>5. SessionInv(w)'
  <2>1. CreationInv(w)' /\ LockInv(w)' /\ AppendInv(w)'
    BY <1>1, <1>2
    DEF SessionInv, CreationInv, LockInv, AppendInv, InUse, Writing
  <2>2. KnowsInv(w)'
    BY <1>1, <1>2, <1>4 DEF KnowsInv
  <2> QED
    BY <2>1, <2>2 DEF SessionInv
<1>6. \A v \in Writer : SessionInv(v)'
  <2>1. FramesSame /\ pgno'.header = pgno.header
    BY <1>2 DEF FramesSame
  <2>2. meta.claim \in Nat /\ meta' = meta /\ pgno' = pgno /\ durable' >= 1
    BY <1>1, <1>2 DEF TypeOK, MetaFile
  <2>3. FilesGrow
    BY <2>2 DEF FilesGrow
  <2> QED
    BY <1>2, <1>5, <2>1, <2>3, AllSessions
<1>7. PgnoInv'
  <2>1. PrefixOf(frames, frames)
    BY <1>1, PrefixEnds
  <2>2. Len(landed') < durable' /\ durable' >= 1
    BY <1>1, <1>2
  <2> QED
    BY <1>1, <1>2, <2>1, <2>2 DEF PgnoInv, EpochOrder
<1>8. MetaInv' /\ ViewInv'
  <2>1. \A v \in Writer : phase'[v] \in {"CreatingMeta", "WritingMeta"}
                            => phase[v] \in {"CreatingMeta", "WritingMeta"}
    BY <1>2 DEF OthersSame
  <2> QED
    BY <1>1, <1>2, <2>1 DEF MetaInv, ViewInv
<1>9. Alone(MetaGroup)' /\ Alone(HeaderGroup)'
  BY <1>2, AloneKept DEF FileInv, MetaGroup, HeaderGroup
<1> QED
  BY <1>6, <1>7, <1>8, <1>9 DEF FileInv

(* Reading the whole file again finds the index the session already has,   *)
(* unless it is uncertain.                                                 *)
LEMMA ReadAllInv ==
  ASSUME FileInv, TypeOK', NEW w \in Writer, ReadAll(w)
  PROVE  FileInv'
<1> USE DEF files, reader, history
<1>1. /\ TypeOK /\ SessionInv(w) /\ phase[w] = "Ready" /\ RecordsSame(w)
      /\ pgno.frames \in Seq(EnvelopeHeader) /\ WellFormed(pgno.frames)
      /\ Len(pgno.frames) \in 0 .. Len(pgno.frames)
      /\ UNCHANGED <<meta, pgno, lock, phase, carried, uncertain, pending, author>>
  BY DEF FileInv, ReadAll, RecordsSame, PgnoInv, TypeOK
<1>2. Rebuilt(pgno.frames)[Len(pgno.frames)] = IndexOf(pgno.frames, Len(pgno.frames))
  BY <1>1, RebuiltIsIndex
<1>3. PICK ix \in {index[w], Rebuilt(pgno.frames)[Len(pgno.frames)]} :
         index' = [index EXCEPT ![w] = ix]
  BY DEF ReadAll
<1>4. /\ index'[w] = ix /\ count'[w] = Len(pgno.frames)
      /\ OthersSame(w) /\ phase'[w] = "Ready"
  BY <1>1, <1>3 DEF ReadAll, TypeOK, OthersSame
<1>5. ~uncertain[w] => index[w] = IndexOf(pgno.frames, Len(pgno.frames)) /\ ~pgno.torn
  BY <1>1 DEF SessionInv, KnowsInv, InUse, Writing
<1>6. ~uncertain[w] => ix = IndexOf(pgno.frames, Len(pgno.frames))
  BY <1>2, <1>3, <1>5
<1>7. SessionInv(w)'
  <2>1. CreationInv(w)' /\ LockInv(w)' /\ AppendInv(w)'
    BY <1>1, <1>4
    DEF SessionInv, CreationInv, LockInv, AppendInv, InUse, Writing
  <2>2. KnowsInv(w)'
    <3>1. Len(pgno.frames) \in Nat
      BY <1>1
    <3>2. ~uncertain'[w] => /\ ~pgno'.torn
                            /\ index'[w] = IndexOf(pgno'.frames, count'[w])
      BY <1>1, <1>4, <1>5, <1>6
    <3>3. count'[w] = Len(pgno'.frames) - 0
      BY <1>1, <1>4, <3>1
    <3> QED
      BY <1>4, <3>2, <3>3 DEF KnowsInv
  <2> QED
    BY <2>1, <2>2 DEF SessionInv
<1> QED
  BY <1>1, <1>4, <1>7, WriterStep DEF MetaGroup, HeaderGroup
-----------------------------------------------------------------------------
(* Readers, the operator and power loss. *)

LEMMA ReadInv ==
  ASSUME FileInv, TypeOK', NEW r \in Reader, Read(r)
  PROVE  FileInv'
<1> USE DEF files, session, reader, history
<1>1. /\ TypeOK /\ PgnoInv /\ MetaInv /\ ViewInv
      /\ pgno.frames \in Seq(EnvelopeHeader)
  BY DEF FileInv, TypeOK
<1>2. UNCHANGED <<files, lock, session, history>>
  BY DEF Read, OpenRead, ReadFrames, ReadTorn, ReadForMigration, CloseReader
<1>3. /\ \A q \in Reader \ {r} : view'[q] = view[q]
      /\ view'[r] \in {view[r], pgno.frames, << >>}
  <2>1. view \in [Reader -> Seq(EnvelopeHeader)]
    BY <1>1 DEF TypeOK
  <2>2. \/ view' = view
        \/ \E seen \in {pgno.frames, << >>} : view' = [view EXCEPT ![r] = seen]
    BY DEF Read, OpenRead, ReadFrames, ReadTorn, ReadForMigration, CloseReader
  <2> QED
    BY <2>1, <2>2
<1>4. ViewInv'
  <2>1. PrefixOf(<< >>, pgno.frames) /\ PrefixOf(pgno.frames, pgno.frames)
    BY <1>1, PrefixEnds
  <2>2. ASSUME NEW q \in Reader PROVE PrefixOf(view'[q], pgno.frames)
    BY <1>1, <1>3, <2>1 DEF ViewInv
  <2> QED
    BY <1>2, <2>2 DEF ViewInv
<1>5. PgnoInv' /\ MetaInv' /\ Alone(MetaGroup)' /\ Alone(HeaderGroup)'
  BY <1>1, <1>2 DEF FileInv, PgnoInv, MetaInv, Alone, EpochOrder
<1>6. \A w \in Writer : SessionInv(w)'
  BY <1>2 DEF FileInv, SessionInv, CreationInv, LockInv, KnowsInv, AppendInv
<1> QED
  BY <1>4, <1>5, <1>6 DEF FileInv

LEMMA OperatorInv ==
  ASSUME FileInv, TypeOK', TakeOver \/ Retire \/ TearRecord \/ SyncRecord
  PROVE  FileInv'
<1> USE DEF files, session, reader, history
<1>1. /\ TypeOK /\ PgnoInv /\ MetaInv /\ ViewInv /\ meta.exists
      /\ meta.claim \in Nat
  <2>1. TypeOK /\ PgnoInv /\ MetaInv /\ ViewInv /\ meta.claim \in Nat
    BY DEF FileInv, TypeOK, MetaFile
  <2>2. CASE TakeOver \/ Retire \/ TearRecord
    BY <2>1, <2>2 DEF TakeOver, Retire, TearRecord, MetaReadable
  <2>3. CASE SyncRecord
    BY <2>1, <2>3 DEF SyncRecord, HasDescriptor, MetaInv, NoMeta
  <2> QED
    BY <2>1, <2>2, <2>3
<1>2. /\ UNCHANGED <<pgno, durable, lock, session, reader, history>>
      /\ meta'.exists = meta.exists /\ meta'.written = meta.written
      /\ meta'.claim \in {meta.claim, meta.claim + 1}
  BY <1>1 DEF TakeOver, Retire, TearRecord, SyncRecord, TypeOK, MetaFile
<1>3. meta'.claim \in Nat /\ meta.claim <= meta'.claim
  BY <1>1, <1>2
<1>4. MetaInv'
  <2>1. ASSUME meta.written = 3, NEW i \in 1 .. Len(author)
        PROVE  author[i] <= meta'.claim
    <3>1. author[i] <= meta.claim /\ author[i] \in Nat
      BY <1>1, <2>1, ElementOfSeq DEF MetaInv, TypeOK
    <3> QED
      BY <1>1, <1>3, <3>1
  <2> QED
    BY <1>1, <1>2, <2>1 DEF MetaInv
<1>5. PgnoInv' /\ ViewInv' /\ Alone(MetaGroup)' /\ Alone(HeaderGroup)'
  BY <1>1, <1>2 DEF FileInv, PgnoInv, ViewInv, Alone, EpochOrder
<1>6. ASSUME NEW v \in Writer PROVE SessionInv(v)'
  <2>1. FilesGrow /\ FramesSame
    BY <1>1, <1>2, <1>3 DEF FilesGrow, FramesSame
  <2> QED
    BY <1>1, <1>2, <2>1, OtherSession DEF FileInv
<1> QED
  BY <1>4, <1>5, <1>6 DEF FileInv

LEMMA PowerLossInv ==
  ASSUME FileInv, FirmInv, TypeOK', PowerLoss
  PROVE  FileInv'
<1>1. TypeOK /\ PgnoInv /\ MetaInv /\ pgno.frames \in Seq(EnvelopeHeader)
  BY DEF FileInv, TypeOK
<1>2. PICK k \in Len(landed) .. Len(pgno.frames) :
         pgno'.frames = SubSeq(pgno.frames, 1, k)
  BY <1>1, PowerLossPgno
<1>3. /\ ~pgno'.exists => ~pgno'.header
      /\ ~pgno'.header => pgno'.frames = << >> /\ ~pgno'.torn
      /\ created => pgno'.exists /\ pgno'.header
  BY <1>1, PowerLossPgno
<1>4. /\ Len(landed) \in Nat /\ Len(pgno.frames) \in Nat /\ k \in Nat
      /\ k \in 0 .. Len(pgno.frames) /\ k \in 0 .. Len(author)
      /\ landed \in Seq(EnvelopeHeader) /\ author \in Seq(Nat)
  BY <1>1, <1>2 DEF TypeOK, PgnoInv
<1>5. Len(pgno'.frames) = k
  BY <1>1, <1>2, <1>4, CutSeq
<1>6. /\ author' = SubSeq(author, 1, k) /\ landed' = landed /\ created' = created
      /\ durable' = Records(pgno')
  BY <1>5 DEF PowerLoss
<1>7. Len(author') = k /\ \A i \in 1 .. k : author'[i] = author[i]
  BY <1>4, <1>6, CutSeq
<1>8. /\ \A w \in Writer : phase'[w] = "Closed"
      /\ \A w \in Writer : /\ index'[w] = NewIndex /\ count'[w] = 0
                           /\ uncertain'[w] = FALSE
      /\ \A r \in Reader : view'[r] = << >>
  BY DEF PowerLoss
<1>9. PgnoInv'
  <2>1. WellFormed(pgno.frames)'
    BY <1>1, <1>2, <1>4, PrefixWellFormed DEF PgnoInv
  <2>2. PrefixOf(landed, pgno.frames)'
    BY <1>1, <1>2, <1>4, <1>6, PrefixKept DEF PgnoInv
  <2>3. EpochOrder'
    <3>1. \A i \in 1 .. k : i \in 1 .. Len(author)
      BY <1>4
    <3>2. \A i, j \in 1 .. k : i < j => author[i] <= author[j]
      BY <1>1, <3>1 DEF PgnoInv, EpochOrder
    <3> QED
      BY <1>7, <3>2 DEF EpochOrder
  <2>4. landed' # << >> => Len(landed') < durable'
    <3>1. SUFFICES ASSUME landed # << >> PROVE Len(landed) < durable'
      BY <1>6
    <3>2. Len(landed) # 0
      BY <1>4, <3>1, EmptySeq
    <3>3. k # 0 /\ Len(landed) <= k
      BY <1>2, <1>4, <3>2
    <3>4. pgno'.header
      <4>1. SUFFICES ASSUME ~pgno'.header PROVE FALSE
        OBVIOUS
      <4>2. Len(pgno'.frames) = 0
        BY <1>3, <4>1
      <4> QED
        BY <1>5, <3>3, <4>2
    <3>5. durable' = k + 1
      BY <1>5, <1>6, <3>4 DEF Records
    <3> QED
      BY <1>4, <3>3, <3>5
  <2>5. created' => pgno'.exists /\ pgno'.header /\ durable' >= 1
    <3>1. created => durable' = k + 1
      BY <1>3, <1>5, <1>6 DEF Records
    <3> QED
      BY <1>3, <1>4, <1>6, <3>1
  <2> QED
    BY <1>3, <1>5, <1>7, <2>1, <2>2, <2>3, <2>4, <2>5 DEF PgnoInv
<1>10. MetaInv'
  <2>1. /\ ~meta'.exists => meta' = NoMeta
        /\ meta'.written = 3 => FirmClaim <= meta'.claim
    BY <1>1, PowerLossMeta
  <2>2. ASSUME meta'.written = 3, NEW i \in 1 .. k PROVE author'[i] <= meta'.claim
    <3>1. i \in 1 .. Len(author) /\ author'[i] = author[i]
      BY <1>4, <1>7
    <3>2. author[i] <= FirmClaim /\ FirmClaim <= meta'.claim
      BY <2>1, <2>2, <3>1 DEF FirmInv
    <3>3. author[i] \in Nat /\ FirmClaim \in Nat /\ meta'.claim \in Nat
      BY <1>1, <1>4, <3>1, FirmClaimType, ElementOfSeq DEF TypeOK, MetaFile
    <3> QED
      BY <3>1, <3>2, <3>3
  <2> QED
    BY <1>7, <1>8, <2>1, <2>2 DEF MetaInv
<1>11. Alone(MetaGroup)' /\ Alone(HeaderGroup)'
  BY <1>8 DEF Alone, MetaGroup, HeaderGroup
<1>12. \A w \in Writer : SessionInv(w)'
  BY <1>8 DEF SessionInv, CreationInv, LockInv, KnowsInv, AppendInv, InUse, Writing
<1>13. ViewInv'
  <2>1. pgno'.frames \in Seq(EnvelopeHeader)
    BY DEF TypeOK
  <2>2. PrefixOf(<< >>, pgno'.frames)
    BY <2>1, PrefixEnds
  <2> QED
    BY <1>8, <2>2 DEF ViewInv
<1> QED
  BY <1>9, <1>10, <1>11, <1>12, <1>13 DEF FileInv

-----------------------------------------------------------------------------
(* What is on disk of .meta. *)

(* A step of w that leaves .meta alone and raises no epoch. *)
LEMMA FirmKept ==
  ASSUME FileInv, FirmInv, NEW w \in Writer, UNCHANGED <<meta, metaDisk, author>>,
         \/ phase' = phase
         \/ \E p : /\ phase' = [phase EXCEPT ![w] = p]
                  /\ p \notin {"CreatingMeta", "WritingMeta"},
         \/ carried' = carried
         \/ /\ carried' = [carried EXCEPT ![w] = 0]
            /\ phase' = [phase EXCEPT ![w] = "Closed"]
  PROVE  FirmInv'
<1>1. TypeOK /\ FirmClaim' = FirmClaim /\ FirmClaim \in Nat
  BY FirmClaimType DEF FileInv, FirmClaim
<1>2. ASSUME NEW v \in Writer
      PROVE  /\ carried'[v] \in {carried[v], 0}
             /\ phase'[v] \in {"CreatingMeta", "WritingMeta"}
                  => phase'[v] = phase[v] /\ carried'[v] = carried[v]
  BY <1>1 DEF TypeOK
<1>3. ASSUME NEW v \in Writer PROVE carried'[v] <= FirmClaim
  BY <1>1, <1>2 DEF FirmInv
<1> QED
  BY <1>1, <1>2, <1>3 DEF FirmInv

(* So does every step of a writer but the ones below. *)
LEMMA WriterFirm ==
  ASSUME FileInv, FirmInv, NEW w \in Writer, Create(w) \/ Open(w) \/ Write(w)
  PROVE  \/ FirmInv'
         \/ CreateBegin(w) \/ CreateMeta(w) \/ WriteMeta(w) \/ TearMeta(w)
         \/ SyncMeta(w) \/ WriteBlock(w)
         \/ \E epoch \in 1 .. MaxEpoch : OpenWrite(w, epoch)
<1> USE DEF files, session, reader, history, Goto
<1>1. Forget(w) => /\ phase' = [phase EXCEPT ![w] = "Closed"]
                   /\ carried' = [carried EXCEPT ![w] = 0]
  BY DEF Forget
<1>2. CASE CreatePgno(w) \/ WriteHeader(w) \/ SyncHeader(w) \/ LockHeader(w)
  BY <1>1, <1>2, FirmKept DEF CreatePgno, MakePgno, WriteHeader, SyncHeader, LockHeader
<1>3. CASE CompleteCreation(w) \/ TakeLock(w)
  BY <1>1, <1>3, FirmKept DEF CompleteCreation, TakeLock
<1>4. CASE Admit(w) \/ AdmitUnsynced(w)
  BY <1>1, <1>4, FirmKept DEF Admit, TruncateTail, AdmitUnsynced
<1>5. CASE RecoverFrame(w) \/ RecoverDone(w) \/ Close(w)
  BY <1>1, <1>5, FirmKept DEF RecoverFrame, RecoverDone, Close
<1>6. CASE \E f \in FiberId, id \in EventId : AppendEvent(w, f, id)
  BY <1>6, FirmKept DEF AppendEvent, BeginAppend
<1>7. CASE WriteFails(w) \/ DieWriting(w) \/ SyncBlock(w) \/ SyncBlockFails(w)
  BY <1>1, <1>7, FirmKept
  DEF WriteFails, Undetermined, DieWriting, SyncBlock, SyncBlockFails
<1>8. CASE Sync(w) \/ SyncFails(w) \/ ReadAll(w)
  BY <1>8, FirmKept DEF Sync, SyncFails, ReadAll
<1> QED
  BY <1>2, <1>3, <1>4, <1>5, <1>6, <1>7, <1>8 DEF Create, Open, Write

(* A writer takes up an epoch whose claim is on disk, or creates with the  *)
(* first, and writes with the epoch it carries.                            *)
LEMMA CarryFirm ==
  ASSUME FileInv, FirmInv, NEW w \in Writer,
         \/ CreateBegin(w) \/ WriteBlock(w)
         \/ \E epoch \in 1 .. MaxEpoch : OpenWrite(w, epoch)
  PROVE  FirmInv'
<1> USE DEF files, session, reader, history
<1>1. /\ TypeOK /\ FirmClaim \in Nat /\ FirmClaim >= 1
      /\ author \in Seq(Nat) /\ Len(author) \in Nat /\ carried[w] \in Nat
  BY FirmClaimType DEF FileInv, TypeOK
<1>2. CASE CreateBegin(w)
  <2>1. /\ UNCHANGED <<meta, metaDisk, author>> /\ FirmClaim' = FirmClaim
        /\ phase' = [phase EXCEPT ![w] = "CreatingMeta"]
        /\ carried' = [carried EXCEPT ![w] = 1]
    BY <1>2 DEF CreateBegin, Goto, FirmClaim
  <2>2. /\ carried'[w] = 1 /\ phase'[w] = "CreatingMeta"
        /\ \A v \in Writer \ {w} : carried'[v] = carried[v] /\ phase'[v] = phase[v]
    BY <1>1, <2>1 DEF TypeOK
  <2> QED
    BY <1>1, <2>1, <2>2 DEF FirmInv
<1>3. CASE \E epoch \in 1 .. MaxEpoch : OpenWrite(w, epoch)
  <2>1. PICK epoch \in 1 .. MaxEpoch : OpenWrite(w, epoch)
    BY <1>3
  <2>2. PICK p \in {"Locking", "Completing"} : phase' = [phase EXCEPT ![w] = p]
    BY <2>1 DEF OpenWrite, Goto
  <2>3. /\ UNCHANGED <<meta, metaDisk, author>> /\ FirmClaim' = FirmClaim
        /\ carried' = [carried EXCEPT ![w] = epoch] /\ epoch <= FirmClaim
    BY <2>1 DEF OpenWrite, FirmClaim
  <2>4. /\ carried'[w] = epoch /\ phase'[w] = p
        /\ \A v \in Writer \ {w} : carried'[v] = carried[v] /\ phase'[v] = phase[v]
    BY <1>1, <2>2, <2>3 DEF TypeOK
  <2> QED
    BY <1>1, <2>2, <2>3, <2>4 DEF FirmInv
<1>4. CASE WriteBlock(w)
  <2>1. /\ UNCHANGED <<meta, metaDisk, carried>> /\ FirmClaim' = FirmClaim
        /\ phase' = [phase EXCEPT ![w] = "Syncing"]
        /\ author' = Append(author, carried[w])
    BY <1>4 DEF WriteBlock, Goto, FirmClaim
  <2>2. /\ Len(author') = Len(author) + 1 /\ author'[Len(author) + 1] = carried[w]
        /\ \A i \in 1 .. Len(author) : author'[i] = author[i]
    BY <1>1, <2>1
  <2>3. \A i \in 1 .. Len(author') : author'[i] <= FirmClaim
    <3>1. ASSUME NEW i \in 1 .. Len(author) + 1 PROVE author'[i] <= FirmClaim
      <4>1. i = Len(author) + 1 \/ i \in 1 .. Len(author)
        BY <1>1
      <4> QED
        BY <2>2, <4>1 DEF FirmInv
    <3> QED
      BY <2>2, <3>1
  <2>4. /\ phase'[w] = "Syncing"
        /\ \A v \in Writer \ {w} : phase'[v] = phase[v]
    BY <1>1, <2>1 DEF TypeOK
  <2> QED
    BY <2>1, <2>3, <2>4 DEF FirmInv
<1> QED
  BY <1>2, <1>3, <1>4

(* The claim on disk only moves up. *)
FirmGrows == FirmClaim' \in Nat /\ FirmClaim <= FirmClaim'

LEMMA FirmCovers ==
  ASSUME TypeOK, FirmInv, FirmGrows, UNCHANGED <<author, carried>>
  PROVE  /\ \A i \in 1 .. Len(author') : author'[i] <= FirmClaim'
         /\ \A v \in Writer : carried'[v] <= FirmClaim'
<1>1. FirmClaim \in Nat /\ FirmClaim' \in Nat /\ FirmClaim <= FirmClaim'
  BY FirmClaimType DEF FirmGrows
<1>2. \A v \in Writer : carried[v] \in Nat /\ carried[v] <= FirmClaim
  BY DEF TypeOK, FirmInv
<1>3. \A i \in 1 .. Len(author) : author[i] \in Nat /\ author[i] <= FirmClaim
  BY ElementOfSeq DEF TypeOK, FirmInv
<1> QED
  BY <1>1, <1>2, <1>3

(* The creator writes the first claim, where there was none, and syncs it. *)
LEMMA CreateFirm ==
  ASSUME FileInv, FirmInv, NEW w \in Writer,
         CreateMeta(w) \/ WriteMeta(w) \/ TearMeta(w) \/ SyncMeta(w)
  PROVE  FirmInv'
<1> USE DEF files, session, reader, history
<1>1. /\ TypeOK /\ FirmClaim \in Nat /\ FirmClaim >= 1
      /\ meta.written \in 0 .. 3 /\ meta.claim \in Nat /\ metaDisk.claim \in Nat
  BY FirmClaimType DEF FileInv, TypeOK, MetaFile
<1>2. CASE CreateMeta(w)
  <2>1. CASE meta.exists
    <3>1. /\ UNCHANGED <<meta, metaDisk, author>>
          /\ phase' = [phase EXCEPT ![w] = "Closed"]
          /\ carried' = [carried EXCEPT ![w] = 0]
      BY <1>2, <2>1 DEF CreateMeta, Forget, Goto
    <3>2. \E p : /\ phase' = [phase EXCEPT ![w] = p]
                /\ p \notin {"CreatingMeta", "WritingMeta"}
      <4>1. "Closed" \notin {"CreatingMeta", "WritingMeta"}
        OBVIOUS
      <4> QED
        BY <3>1, <4>1, Zenon
    <3> QED
      BY <3>1, <3>2, FirmKept
  <2>2. CASE ~meta.exists
    <3>1. /\ UNCHANGED <<metaDisk, author, carried>> /\ FirmClaim' = FirmClaim
          /\ phase' = [phase EXCEPT ![w] = "WritingMeta"]
          /\ meta'.written = 0 /\ meta'.claim = 0
      BY <1>2, <2>2 DEF CreateMeta, Goto, NoMeta, FirmClaim
    <3>2. meta.claim = 0
      BY <2>2 DEF FileInv, MetaInv, NoMeta
    <3>3. metaDisk.claim = 0
      BY <1>1, <3>2 DEF FirmInv
    <3>4. /\ phase'[w] = "WritingMeta" /\ phase[w] = "CreatingMeta"
          /\ \A v \in Writer \ {w} : phase'[v] = phase[v]
      BY <1>1, <1>2, <3>1 DEF TypeOK, CreateMeta
    <3> QED
      BY <3>1, <3>3, <3>4 DEF FirmInv
  <2> QED
    BY <2>1, <2>2
<1>3. CASE WriteMeta(w)
  <2>1. /\ UNCHANGED <<metaDisk, author, carried, phase>> /\ FirmClaim' = FirmClaim
        /\ phase[w] = "WritingMeta"
        /\ meta'.written = meta.written + 1
        /\ meta'.claim = IF meta.written = 1 THEN carried[w] ELSE meta.claim
    BY <1>1, <1>3 DEF WriteMeta, FirmClaim, TypeOK, MetaFile
  <2>2. carried[w] = 1 /\ metaDisk.claim = 0
    BY <2>1 DEF FirmInv
  <2>3. metaDisk'.claim <= meta'.claim /\ (meta'.written >= 2 => meta'.claim >= 1)
    BY <1>1, <2>1, <2>2 DEF FirmInv
  <2> QED
    BY <2>1, <2>2, <2>3 DEF FirmInv
<1>4. CASE TearMeta(w)
  <2>1. /\ UNCHANGED <<metaDisk, author>> /\ FirmClaim' = FirmClaim
        /\ phase' = [phase EXCEPT ![w] = "Closed"]
        /\ carried' = [carried EXCEPT ![w] = 0]
        /\ meta'.written = meta.written /\ meta'.claim = meta.claim
    BY <1>1, <1>4 DEF TearMeta, Forget, Goto, FirmClaim, TypeOK, MetaFile
  <2>2. /\ carried'[w] = 0 /\ phase'[w] = "Closed"
        /\ \A v \in Writer \ {w} : carried'[v] = carried[v] /\ phase'[v] = phase[v]
    BY <1>1, <2>1 DEF TypeOK
  <2> QED
    BY <1>1, <2>1, <2>2 DEF FirmInv
<1>5. CASE SyncMeta(w)
  <2>1. /\ UNCHANGED <<meta, author, carried>> /\ metaDisk' = meta
        /\ phase' = [phase EXCEPT ![w] = "CreatingPgno"]
        /\ phase[w] = "WritingMeta" /\ meta.written = 3
    BY <1>5 DEF SyncMeta, Goto
  <2>2. metaDisk.claim = 0 /\ meta.claim >= 1 /\ meta.exists
    BY <1>1, <2>1 DEF FirmInv, FileInv, SessionInv, CreationInv
  <2>3. FirmClaim = 1 /\ FirmClaim' = meta.claim
    BY <1>1, <2>1, <2>2 DEF FirmClaim
  <2>4. \A v \in Writer \ {w} : phase[v] # "WritingMeta" /\ phase'[v] = phase[v]
    BY <1>1, <2>1 DEF FileInv, Alone, MetaGroup, TypeOK
  <2>5. phase'[w] = "CreatingPgno"
    BY <1>1, <2>1 DEF TypeOK
  <2>6. FirmGrows
    BY <1>1, <2>2, <2>3 DEF FirmGrows
  <2>7. /\ \A i \in 1 .. Len(author') : author'[i] <= FirmClaim'
        /\ \A v \in Writer : carried'[v] <= FirmClaim'
    BY <1>1, <2>1, <2>6, FirmCovers
  <2> QED
    BY <1>1, <2>1, <2>2, <2>4, <2>5, <2>7 DEF FirmInv
<1> QED
  BY <1>2, <1>3, <1>4, <1>5

(* The operator adds claims behind the ones on disk and syncs them. *)
LEMMA OperatorFirm ==
  ASSUME FileInv, FirmInv, TakeOver \/ Retire \/ TearRecord \/ SyncRecord
  PROVE  FirmInv'
<1> USE DEF files, session, reader, history
<1>1. /\ TypeOK /\ FirmClaim \in Nat /\ FirmClaim >= 1
      /\ meta.written \in 0 .. 3 /\ meta.claim \in Nat /\ metaDisk.claim \in Nat
      /\ metaDisk.claim <= meta.claim
  BY FirmClaimType DEF FileInv, FirmInv, TypeOK, MetaFile
<1>2. CASE TakeOver \/ Retire \/ TearRecord
  <2>1. /\ UNCHANGED <<metaDisk, author, carried, phase>> /\ FirmClaim' = FirmClaim
        /\ meta'.written = meta.written
        /\ meta'.claim \in {meta.claim, meta.claim + 1}
    BY <1>1, <1>2 DEF TakeOver, Retire, TearRecord, FirmClaim, TypeOK, MetaFile
  <2> QED
    BY <1>1, <2>1 DEF FirmInv
<1>3. CASE SyncRecord
  <2>1. /\ UNCHANGED <<meta, author, carried, phase>> /\ metaDisk' = meta
        /\ meta.written >= 3 /\ \A v \in Writer : phase[v] # "WritingMeta"
    BY <1>3 DEF SyncRecord, HasDescriptor, Quiet, Creating
  <2>2. meta.written = 3 /\ meta.claim >= 1 /\ meta.exists
    BY <1>1, <2>1 DEF FirmInv, FileInv, MetaInv, NoMeta
  <2>3. FirmGrows
    BY <1>1, <2>1, <2>2 DEF FirmGrows, FirmClaim
  <2>4. /\ \A i \in 1 .. Len(author') : author'[i] <= FirmClaim'
        /\ \A v \in Writer : carried'[v] <= FirmClaim'
    BY <1>1, <2>1, <2>3, FirmCovers
  <2> QED
    BY <1>1, <2>1, <2>2, <2>4 DEF FirmInv
<1> QED
  BY <1>2, <1>3

(* Power loss takes away no claim that was surely on disk. *)
LEMMA PowerLossFirm ==
  ASSUME FileInv, FirmInv, PowerLoss
  PROVE  FirmInv'
<1>1. TypeOK /\ PgnoInv /\ MetaInv /\ FirmClaim \in Nat /\ FirmClaim >= 1
  BY FirmClaimType DEF FileInv
<1>2. /\ meta' \in MetaFile
      /\ ~meta'.exists => meta' = NoMeta
      /\ meta'.written = 3 => FirmClaim <= meta'.claim
      /\ meta'.written # 3 => FirmClaim = 1 /\ meta'.claim <= 1
      /\ meta'.written >= 2 => meta'.claim >= 1
  BY <1>1, PowerLossMeta
<1>3. metaDisk' = meta' /\ meta'.claim \in Nat /\ meta'.written \in 0 .. 3
  BY <1>2 DEF PowerLoss, MetaFile
<1>4. FirmGrows /\ FirmClaim' >= 1
  BY <1>1, <1>2, <1>3 DEF FirmGrows, FirmClaim
<1>5. meta'.claim >= 2 => meta'.exists /\ meta'.written = 3
  BY <1>2, <1>3 DEF NoMeta
<1>6. PICK k \in Len(landed) .. Len(pgno.frames) :
         pgno'.frames = SubSeq(pgno.frames, 1, k)
  BY <1>1, PowerLossPgno
<1>7. /\ k \in 0 .. Len(author) /\ k \in 0 .. Len(pgno.frames)
      /\ author \in Seq(Nat) /\ pgno.frames \in Seq(EnvelopeHeader)
  BY <1>1, <1>6 DEF TypeOK, PgnoInv
<1>8. author' = SubSeq(author, 1, k)
  BY <1>6, <1>7, CutSeq DEF PowerLoss
<1>9. Len(author') = k /\ \A i \in 1 .. k : author'[i] = author[i]
  BY <1>7, <1>8, CutSeq
<1>10. ASSUME NEW i \in 1 .. k PROVE author'[i] <= FirmClaim'
  <2>1. i \in 1 .. Len(author)
    BY <1>7
  <2>2. author[i] \in Nat /\ author[i] <= FirmClaim
    BY <1>7, <2>1, ElementOfSeq DEF FirmInv
  <2> QED
    BY <1>1, <1>4, <1>9, <2>2 DEF FirmGrows
<1>11. \A w \in Writer : phase'[w] = "Closed" /\ carried'[w] = 0
  BY DEF PowerLoss
<1>12. \A w \in Writer : carried'[w] <= FirmClaim'
  BY <1>4, <1>11 DEF FirmGrows
<1> QED
  BY <1>2, <1>3, <1>5, <1>9, <1>10, <1>11, <1>12 DEF FirmInv

LEMMA NextFirm ==
  ASSUME IInv, Next
  PROVE  FirmInv'
<1>1. FileInv /\ FirmInv
  BY DEF IInv
<1>2. ASSUME NEW w \in Writer, Create(w) \/ Open(w) \/ Write(w) PROVE FirmInv'
  BY <1>1, <1>2, WriterFirm, CarryFirm, CreateFirm
<1>3. ASSUME NEW r \in Reader, Read(r) PROVE FirmInv'
  <2>1. UNCHANGED <<meta, metaDisk, author, phase, carried>>
    BY <1>3 DEF Read, OpenRead, ReadFrames, ReadTorn, ReadForMigration, CloseReader,
                files, session, history
  <2> QED
    BY <1>1, <2>1 DEF FirmInv, FirmClaim
<1> QED
  BY <1>1, <1>2, <1>3, OperatorFirm, PowerLossFirm DEF Next

-----------------------------------------------------------------------------
(* The theorems. *)

LEMMA InitInv ==
  ASSUME Init
  PROVE  IInv
<1>1. TypeOK
  <2>1. /\ meta = [exists |-> FALSE, written |-> 0, torn |-> FALSE, claim |-> 0,
                   outbound |-> FALSE]
        /\ metaDisk = meta
        /\ pgno = [exists |-> FALSE, header |-> FALSE, frames |-> << >>, torn |-> FALSE]
    BY DEF Init, NoMeta, NoPgno
  <2>2. /\ meta \in MetaFile /\ metaDisk \in MetaFile
        /\ pgno \in [exists : BOOLEAN, header : BOOLEAN,
                    frames : Seq(EnvelopeHeader), torn : BOOLEAN]
    BY <2>1 DEF MetaFile
  <2>3. /\ phase \in [Writer -> Phase] /\ index \in [Writer -> Index]
        /\ pending \in [Writer -> EnvelopeHeader]
    BY NewIndexType, NoEnvelopeType DEF Init, Phase
  <2> QED
    <3>1. pgnoSynced \in BOOLEAN /\ created \in BOOLEAN
      BY Zenon DEF Init
    <3>2. /\ durable \in Nat /\ lock \in Writer \cup {Nobody}
          /\ author \in Seq(Nat) /\ landed \in Seq(EnvelopeHeader)
      BY DEF Init
    <3>3. /\ carried \in [Writer -> Nat] /\ count \in [Writer -> Nat]
          /\ uncertain \in [Writer -> BOOLEAN]
          /\ rphase \in [Reader -> {"Closed", "Empty", "Scanned", "Reading", "Broken"}]
          /\ view \in [Reader -> Seq(EnvelopeHeader)]
      BY DEF Init
    <3> QED
      BY <2>2, <2>3, <3>1, <3>2, <3>3 DEF TypeOK
<1>2. pgno.frames = << >> /\ ~pgno.exists /\ ~pgno.header /\ ~pgno.torn
  BY DEF Init, NoPgno
<1>3. PrefixOf(<< >>, pgno.frames)
  BY <1>1, PrefixEnds DEF TypeOK
<1>4. PgnoInv
  BY <1>2, <1>3 DEF Init, PgnoInv, WellFormed, EpochOrder
<1>5. MetaInv
  BY <1>2 DEF Init, MetaInv
<1>6. /\ Alone(MetaGroup) /\ Alone(HeaderGroup)
      /\ \A w \in Writer : SessionInv(w)
  BY DEF Init, Alone, MetaGroup, HeaderGroup, SessionInv, CreationInv, LockInv,
         KnowsInv, AppendInv, InUse, Writing
<1>7. ViewInv
  BY <1>3 DEF Init, ViewInv
<1>8. FirmInv
  BY DEF Init, NoMeta, FirmInv, FirmClaim
<1> QED
  BY <1>1, <1>4, <1>5, <1>6, <1>7, <1>8 DEF IInv, FileInv

LEMMA NextInv ==
  ASSUME IInv, Next
  PROVE  FileInv'
<1>1. FileInv /\ FirmInv /\ TypeOK'
  BY NextType DEF IInv, FileInv
<1>2. ASSUME NEW w \in Writer, Create(w) PROVE FileInv'
  BY <1>1, <1>2, CreateBeginInv, CreateMetaInv, WriteMetaInv, TearMetaInv, SyncMetaInv,
     CreatePgnoInv, WriteHeaderInv, SyncHeaderInv, LockHeaderInv DEF Create
<1>3. ASSUME NEW w \in Writer, Open(w) PROVE FileInv'
  BY <1>1, <1>3, OpenWriteInv, CompleteCreationInv, TakeLockInv, AdmitInv,
     AdmitUnsyncedInv, RecoverFrameInv, RecoverDoneInv, CloseInv DEF Open
<1>4. ASSUME NEW w \in Writer, Write(w) PROVE FileInv'
  BY <1>1, <1>4, AppendEventInv, WriteBlockInv, WriteFailsInv, DieWritingInv,
     SyncBlockInv, SyncBlockFailsInv, SyncInv, SyncFailsInv, ReadAllInv DEF Write
<1>5. ASSUME NEW r \in Reader, Read(r) PROVE FileInv'
  BY <1>1, <1>5, ReadInv
<1>6. CASE TakeOver \/ Retire \/ TearRecord \/ SyncRecord
  BY <1>1, <1>6, OperatorInv
<1>7. CASE PowerLoss
  BY <1>1, <1>7, PowerLossInv
<1> QED
  BY <1>2, <1>3, <1>4, <1>5, <1>6, <1>7 DEF Next

(* Every reachable state satisfies the inductive invariant. *)
THEOREM FileInvariant == Spec => []IInv
<1>1. Init => IInv
  BY InitInv
<1>2. IInv /\ [Next]_vars => IInv'
  <2>1. ASSUME IInv, UNCHANGED vars PROVE IInv'
    BY <2>1
    DEF vars, files, session, reader, history, IInv, FileInv, TypeOK, PgnoInv, MetaInv,
        Alone, SessionInv, CreationInv, LockInv, KnowsInv, AppendInv, ViewInv,
        EpochOrder, FirmInv, FirmClaim
  <2>2. ASSUME IInv, Next PROVE IInv'
    BY <2>2, NextInv, NextFirm DEF IInv
  <2> QED
    BY <2>1, <2>2
<1> QED
  BY <1>1, <1>2, PTL DEF Spec
(* Each property a reader of the model needs follows from it. *)
LEMMA InvImplies ==
  ASSUME IInv
  PROVE  /\ FramesWellFormed /\ WriterKnowsFile /\ LandedIsDurable /\ EpochOrder
         /\ ExclusiveCreation /\ CreatedStaysOpenable /\ ReaderViewStays
<1>1. FramesWellFormed /\ LandedIsDurable /\ EpochOrder /\ CreatedStaysOpenable
  BY DEF IInv, FileInv, PgnoInv, PrefixOf, FramesWellFormed, LandedIsDurable, CreatedStaysOpenable
<1>2. WriterKnowsFile
  BY DEF IInv, FileInv, SessionInv, LockInv, KnowsInv, InUse, Writing, WriterKnowsFile
<1>3. ExclusiveCreation
  <2>1. \A group \in {MetaGroup, HeaderGroup} : Alone(group)
    BY DEF IInv, FileInv
  <2>2. \A w \in Writer : phase[w] = "WritingHeader" => pgno.frames = << >>
    BY DEF IInv, FileInv, SessionInv, CreationInv, PgnoInv
  <2> QED
    BY <2>1, <2>2 DEF ExclusiveCreation, Alone, MetaGroup, HeaderGroup
<1>4. ReaderViewStays
  BY DEF IInv, FileInv, ViewInv, PrefixOf, ReaderViewStays
<1> QED
  BY <1>1, <1>2, <1>3, <1>4

(* Whatever dies, fails or is lost, the frames of .pgno are one            *)
(* well-formed line (append_block, open_write's recovery).                 *)
THEOREM FramesStayWellFormed == Spec => []FramesWellFormed
  BY FileInvariant, InvImplies, PTL

(* A session that may still append holds the lock, has indexed the whole   *)
(* file and never appends behind torn bytes (append_block).                *)
THEOREM WritersKnowTheFile == Spec => []WriterKnowsFile
  BY FileInvariant, InvImplies, PTL

(* An event reported as landed stays on disk at its position               *)
(* (append_block's sync, the rollback, the cutting of torn tails).         *)
THEOREM LandedEventsStay == Spec => []LandedIsDurable
  BY FileInvariant, InvImplies, PTL

(* The epochs of the writers never decrease along the file, whenever the   *)
(* operator records a new claim (the lock, open_write's epoch check).      *)
THEOREM EpochsInOrder == Spec => []EpochOrder
  BY FileInvariant, InvImplies, PTL

(* Of concurrent creators one fills in each file, and nobody appends to a  *)
(* .pgno whose header is still to be written (create_new).                 *)
THEOREM CreationIsExclusive == Spec => []ExclusiveCreation
  BY FileInvariant, InvImplies, PTL

(* A .pgno whose creation succeeded keeps its header through any crash     *)
(* (create, complete_creation).                                            *)
THEOREM CreatedFilesOpen == Spec => []CreatedStaysOpenable
  BY FileInvariant, InvImplies, PTL

(* What a reader has read stays a prefix of the file while it runs         *)
(* (open_read, reconcile_tail_state).                                      *)
THEOREM ReadersKeepTheirView == Spec => []ReaderViewStays
  BY FileInvariant, InvImplies, PTL
-----------------------------------------------------------------------------
(* The file implements the durable line. *)

(* What a step does to the frames and to what was reported as landed. *)
LineStep ==
    \/ pgno'.frames = pgno.frames /\ landed' = landed
    \/ /\ landed' = landed
       /\ \E env \in EnvelopeHeader :
             /\ Extends(pgno.frames, Len(pgno.frames), env)
             /\ pgno'.frames = Append(pgno.frames, env)
    \/ pgno'.frames = pgno.frames /\ landed' = pgno.frames
    \/ /\ landed' = landed
       /\ \E k \in Len(landed) .. Len(pgno.frames) :
             pgno'.frames = SubSeq(pgno.frames, 1, k)

(* A creator that makes .pgno found none, and so no frames. *)
LEMMA CreateLine ==
  ASSUME FileInv, NEW w \in Writer, Create(w)
  PROVE  LineStep
<1> USE DEF files, session, reader, history
<1>1. TypeOK /\ PgnoInv
  BY DEF FileInv
<1>2. CASE CreateBegin(w) \/ CreateMeta(w) \/ WriteMeta(w) \/ TearMeta(w) \/ SyncMeta(w)
           \/ SyncHeader(w) \/ LockHeader(w)
  BY <1>2 DEF LineStep, CreateBegin, CreateMeta, WriteMeta, TearMeta, SyncMeta,
              SyncHeader, LockHeader
<1>3. CASE CreatePgno(w)
  <2>1. ~pgno.exists => pgno.frames = << >>
    BY <1>1 DEF PgnoInv
  <2> QED
    BY <1>3, <2>1 DEF LineStep, CreatePgno, MakePgno, NoPgno
<1>4. CASE WriteHeader(w)
  <2>1. pgno'.frames = pgno.frames
    BY <1>1, <1>4 DEF WriteHeader, TypeOK
  <2> QED
    BY <1>4, <2>1 DEF LineStep, WriteHeader
<1> QED
  BY <1>2, <1>3, <1>4 DEF Create

(* Opening cuts off torn bytes only. *)
LEMMA OpenLine ==
  ASSUME FileInv, NEW w \in Writer, Open(w)
  PROVE  LineStep
<1> USE DEF files, session, reader, history
<1>1. TypeOK
  BY DEF FileInv
<1>2. CASE \/ \E epoch \in 1 .. MaxEpoch : OpenWrite(w, epoch)
           \/ CompleteCreation(w) \/ TakeLock(w) \/ RecoverFrame(w) \/ RecoverDone(w)
           \/ Close(w)
  BY <1>2 DEF LineStep, OpenWrite, CompleteCreation, TakeLock, RecoverFrame, RecoverDone, Close
<1>3. CASE Admit(w) \/ AdmitUnsynced(w)
  <2>1. pgno'.frames = pgno.frames
    BY <1>1, <1>3 DEF Admit, AdmitUnsynced, TruncateTail, TypeOK
  <2> QED
    BY <1>3, <2>1 DEF LineStep, Admit, AdmitUnsynced
<1> QED
  BY <1>2, <1>3 DEF Open

(* Only the write of a frame adds to the line, and it adds what the index  *)
(* admitted; only a sync reports what was written.                         *)
LEMMA WriteLine ==
  ASSUME FileInv, NEW w \in Writer, Write(w)
  PROVE  LineStep
<1> USE DEF files, session, reader, history
<1>1. TypeOK /\ SessionInv(w)
  BY DEF FileInv
<1>2. CASE \/ \E f \in FiberId, id \in EventId : AppendEvent(w, f, id)
           \/ SyncBlockFails(w) \/ Sync(w) \/ SyncFails(w) \/ ReadAll(w)
  BY <1>2
  DEF LineStep, AppendEvent, BeginAppend, SyncBlockFails, Sync, SyncFails, ReadAll
<1>3. CASE WriteFails(w) \/ DieWriting(w)
  <2>1. pgno'.frames = pgno.frames
    BY <1>1, <1>3 DEF WriteFails, DieWriting, TypeOK
  <2> QED
    BY <1>3, <2>1 DEF LineStep, WriteFails, DieWriting
<1>4. CASE SyncBlock(w)
  BY <1>4 DEF LineStep, SyncBlock
<1>5. CASE WriteBlock(w)
  <2>1. /\ pending[w] \in EnvelopeHeader
        /\ Extends(pgno.frames, Len(pgno.frames), pending[w])
    BY <1>1, <1>5 DEF WriteBlock, SessionInv, AppendInv, TypeOK
  <2>2. pgno'.frames = Append(pgno.frames, pending[w]) /\ landed' = landed
    BY <1>1, <1>5 DEF WriteBlock, TypeOK
  <2> QED
    BY <2>1, <2>2 DEF LineStep
<1> QED
  BY <1>2, <1>3, <1>4, <1>5 DEF Write

LEMMA NextLine ==
  ASSUME FileInv, [Next]_vars
  PROVE  LineStep
<1> USE DEF files, session, reader, history
<1>1. CASE UNCHANGED vars
  BY <1>1 DEF LineStep, vars
<1>2. ASSUME NEW r \in Reader, Read(r) PROVE LineStep
  BY <1>2 DEF LineStep, Read, OpenRead, ReadFrames, ReadTorn, ReadForMigration, CloseReader
<1>3. CASE TakeOver \/ Retire \/ TearRecord \/ SyncRecord
  BY <1>3 DEF LineStep, TakeOver, Retire, TearRecord, SyncRecord
<1>4. CASE PowerLoss
  <2>1. /\ landed' = landed
        /\ \E k \in Len(landed) .. Len(pgno.frames) :
              pgno'.frames = SubSeq(pgno.frames, 1, k)
    BY <1>4, PowerLossPgno DEF FileInv, PowerLoss
  <2> QED
    BY <2>1 DEF LineStep
<1> QED
  BY <1>1, <1>2, <1>3, <1>4, CreateLine, OpenLine, WriteLine DEF Next

(* The instance of the abstract line counts and extends as the module does. *)
LEMMA DurableExtends ==
  ASSUME NEW log, NEW n, NEW env
  PROVE  Durable!Extends(log, n, env) <=> Extends(log, n, env)
<1>1. \A S : Durable!Cardinality(S) = Cardinality(S)
  <2>1. \A T : Durable!IsFiniteSet(T) <=> IsFiniteSet(T)
    BY DEF Durable!IsFiniteSet, IsFiniteSet
  <2> QED
    BY <2>1 DEF Durable!Cardinality, Cardinality
<1>2. /\ \A f : Durable!Positions(log, n, f) = Positions(log, n, f)
      /\ Durable!IdsIn(log, n) = IdsIn(log, n)
      /\ \A S : Durable!Latest(S) = Latest(S)
      /\ Durable!IsGenesis(env) <=> IsGenesis(env)
  BY DEF Durable!Positions, Positions, Durable!IdsIn, IdsIn, Durable!Latest, Latest,
         Durable!IsGenesis, IsGenesis
<1>3. Durable!FibersIn(log, n) = FibersIn(log, n)
  BY <1>2 DEF Durable!FibersIn, FibersIn
<1> QED
  BY <1>1, <1>2, <1>3 DEF Durable!Extends, Extends

(* Sessions, crashes, failed writes and lost power together implement one  *)
(* durable line: .pgno changes at its end only, an event is added only if  *)
(* it continues its fiber, and none that was reported as landed goes       *)
(* (append_block, open_write, reconcile_tail_state).                       *)
THEOREM ImplementsDurableLine == Spec => DurableSpec
<1>1. Init => Durable!Init
  BY DEF Init, NoPgno, Durable!Init
<1>2. ASSUME IInv, [Next]_vars PROVE [Durable!Next]_(Durable!vars)
  <2>1. /\ pgno.frames \in Seq(EnvelopeHeader) /\ landed \in Seq(EnvelopeHeader)
        /\ Len(pgno.frames) \in Nat /\ Len(landed) \in Nat
        /\ Len(landed) <= Len(pgno.frames)
    BY <1>2 DEF IInv, FileInv, TypeOK, PgnoInv, PrefixOf
  <2>2. CASE pgno'.frames = pgno.frames /\ landed' = landed
    BY <2>2 DEF Durable!vars
  <2>3. CASE /\ landed' = landed
             /\ \E env \in EnvelopeHeader :
                   /\ Extends(pgno.frames, Len(pgno.frames), env)
                   /\ pgno'.frames = Append(pgno.frames, env)
    <3>1. Durable!EnvelopeHeader = EnvelopeHeader
      BY DEF Durable!EnvelopeHeader, EnvelopeHeader
    <3> QED
      BY <2>3, <3>1, DurableExtends DEF Durable!Next, Durable!Extend
  <2>4. CASE pgno'.frames = pgno.frames /\ landed' = pgno.frames
    <3>1. Len(landed)' \in Len(landed) .. Len(pgno.frames)
      BY <2>1, <2>4
    <3> QED
      BY <2>4, <3>1 DEF Durable!Next, Durable!Keep
  <2>5. CASE /\ landed' = landed
             /\ \E k \in Len(landed) .. Len(pgno.frames) :
                   pgno'.frames = SubSeq(pgno.frames, 1, k)
    BY <2>5 DEF Durable!Next, Durable!Lose
  <2> QED
    BY <1>2, <2>2, <2>3, <2>4, <2>5, NextLine DEF LineStep, IInv
<1> QED
  BY <1>1, <1>2, FileInvariant, PTL DEF Spec, DurableSpec, Durable!Spec
=============================================================================
