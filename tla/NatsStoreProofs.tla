-------------------------- MODULE NatsStoreProofs --------------------------
(***************************************************************************)
(* Safety of NatsStore for any number of sessions, fibers, identifiers and *)
(* epochs and for every value of the limits.  The invariant is proved for  *)
(* a stream into which other clients publish as well (ForeignSpec); what   *)
(* is said of the sessions alone (Spec) rests on it.                       *)
(***************************************************************************)
EXTENDS NatsStoreInv, LineIndexProofs

(* An append begins with an envelope, minted or given. *)
LEMMA BeginCases ==
  ASSUME TypeOK, NEW s \in Session, NEW f \in FiberId, NEW id \in EventId,
         AppendToFiber(s, f, id) \/ DetachFiber(s, f, id) \/ RescueFiber(s, f, id)
  PROVE  \E env \in EnvelopeHeader : BeginAppend(s, env)
<1>1. index[s] \in Index
  BY DEF TypeOK
<1> QED
  BY <1>1, MintType DEF AppendToFiber, DetachFiber, RescueFiber, Mint

(* The cases of a step. *)
LEMMA StepCases ==
  ASSUME TypeOK, [Next]_vars
  PROVE  \/ \E s \in Session :
               \/ OpenWrite(s) \/ RecoverBegin(s) \/ RecoverFrame(s)
               \/ RecoverDone(s) \/ RecoverRefused(s) \/ Close(s)
               \/ \E env \in EnvelopeHeader : BeginAppend(s, env)
               \/ PublishBlock(s) \/ AuthorityLost(s) \/ SequenceExhausted(s)
               \/ AppendFails(s) \/ AckLanded(s) \/ AckConflict(s) \/ AckTimeout(s)
               \/ SyncFails(s) \/ IterateBegin(s) \/ IterateFrame(s)
               \/ IterateBroken(s) \/ IterateFails(s) \/ IterateDone(s)
               \/ ReadAllFrames(s) \/ ReadFrame(s) \/ ReadRefused(s) \/ ReadDone(s)
               \/ \E r \in {"Reading", "ReadingForMigration"} : ReadBegin(s, r)
         \/ \E m \in net : ServerAccepts(m) \/ ServerRejects(m)
         \/ TakeOver
         \/ Retire
         \/ UNCHANGED vars
  BY BeginCases, NatsAssumption DEF Next, Proceed, Call, Fail, AppendEnvelope

(* A scan step reads an envelope of the stream. *)
LEMMA ScanAtType ==
  ASSUME TypeOK, NEW s \in Session, ScanMore(s), snap[s] <= LastSequence
  PROVE  ScanAt(s) \in EnvelopeHeader
  BY ElementOfSeq DEF TypeOK, ScanMore, ScanAt, LastSequence

(* validate_append answers Ok or one of the failure conditions. *)
LEMMA VerdictType ==
  ASSUME NEW ix, NEW env
  PROVE  ValidateAppend(ix, env) \in FailureCondition \cup {"Ok"}
  BY DEF ValidateAppend, ValidateActive, ValidateFirst, FailureCondition

(* The variables have their types before any session is opened. *)
LEMMA TypeInit ==
  ASSUME Init
  PROVE  TypeOK
<1>0. /\ stream \in Seq(EnvelopeHeader) /\ author \in Seq(Nat)
  BY DEF Init
<1>1. /\ claim \in Nat /\ retired \in BOOLEAN
      /\ net \subseteq Request /\ replies \subseteq Reply /\ landed \subseteq Verdict
  BY DEF Init
<1>2. /\ phase \in [Session -> Phase] /\ uncertain \in [Session -> BOOLEAN]
      /\ cause \in [Session -> FailureCondition \cup {"None"}]
  BY DEF Init, Phase, Idle
<1>3. /\ index \in [Session -> Index] /\ work \in [Session -> Index]
      /\ pending \in [Session -> EnvelopeHeader]
  BY NewIndexType, NoEnvelopeType DEF Init
<1>4. /\ epoch \in [Session -> Nat] /\ lastSeq \in [Session -> Nat]
      /\ rolling \in [Session -> Nat] /\ snap \in [Session -> Nat]
      /\ pos \in [Session -> Nat]
  BY DEF Init
<1> QED
  BY <1>0, <1>1, <1>2, <1>3, <1>4 DEF TypeOK

(* Publishes in flight keep their type when their session stops            *)
(* listening, and no reply is added.                                       *)
LEMMA OrphanType ==
  ASSUME TypeOK, NEW s \in Session, Orphan(s)
  PROVE  net' \subseteq Request /\ replies' \subseteq Reply
<1>1. ASSUME NEW m \in net
      PROVE  (IF m.from = s THEN [m EXCEPT !.from = Nobody] ELSE m) \in Request
  BY DEF TypeOK, Request
<1> QED
  BY <1>1 DEF Orphan, TypeOK

(* The variables keep their types when a session is dropped. *)
LEMMA ForgetType ==
  ASSUME TypeOK, NEW s \in Session, Forget(s)
  PROVE  TypeOK'
<1>1. net' \subseteq Request /\ replies' \subseteq Reply
  BY OrphanType DEF Forget
<1> QED
  BY <1>1, NewIndexType, NoEnvelopeType
  DEF Forget, Goto, ScanEnd, TypeOK, Phase, Idle, FailureCondition, history

(* The server's answer to a publish is a reply to a session. *)
LEMMA AnswerType ==
  ASSUME TypeOK, NEW m \in net, NEW ok \in BOOLEAN, Answer(m, ok)
  PROVE  replies' \subseteq Reply
<1>1. CASE m.from = Nobody
  BY <1>1 DEF Answer, TypeOK
<1>2. CASE m.from # Nobody
  <2>1. m.from \in Session
    BY <1>2 DEF TypeOK, Request
  <2>2. (IF ok THEN LastSequence + 1 ELSE 0) \in Nat
    BY DEF TypeOK, LastSequence
  <2>3. [to |-> m.from, landed |-> ok,
         seq |-> IF ok THEN LastSequence + 1 ELSE 0] \in Reply
    BY <2>1, <2>2 DEF Reply
  <2> QED
    BY <1>2, <2>3 DEF Answer, TypeOK
<1> QED
  BY <1>1, <1>2

(* Every step keeps the types, as long as scans stay inside the stream. *)
LEMMA TypeStep ==
  ASSUME TypeOK, [Next]_vars,
         \A s \in Session : phase[s] \in Scanning => snap[s] <= LastSequence
  PROVE  TypeOK'
<1> USE DEF server, session, scan, history
<1>1. ASSUME NEW s \in Session, OpenWrite(s) PROVE TypeOK'
  BY <1>1 DEF OpenWrite, Goto, TypeOK, Phase
<1>2. ASSUME NEW s \in Session, RecoverBegin(s) PROVE TypeOK'
  BY <1>2, NewIndexType
  DEF RecoverBegin, Goto, ScanBegin, LastSequence, TypeOK, Phase, Scanning
<1>3. ASSUME NEW s \in Session, NEW next \in Index, ScanTake(s, next),
             UNCHANGED <<server, session, history>>
      PROVE  TypeOK'
  BY <1>3, SMTT(30) DEF ScanTake, TypeOK
<1>4. ASSUME NEW s \in Session, RecoverFrame(s) \/ ReadFrame(s) \/ IterateFrame(s)
      PROVE  TypeOK'
  <2>1. ScanMore(s) /\ phase[s] \in Scanning
    BY <1>4 DEF RecoverFrame, ReadFrame, IterateFrame, Scanning
  <2>2. ScanAt(s) \in EnvelopeHeader /\ work[s] \in Index
    BY <2>1, ScanAtType DEF TypeOK
  <2>3. /\ ProcessFrame(work[s], ScanAt(s)) \in Index
        /\ CommitEnvelope(work[s], ScanAt(s)) \in Index
    BY <2>2, ProcessType, CommitType
  <2> QED
    BY <1>3, <1>4, <2>3 DEF RecoverFrame, ReadFrame, IterateFrame
<1>5. ASSUME NEW s \in Session, RecoverDone(s) PROVE TypeOK'
  BY <1>5, NewIndexType DEF RecoverDone, Goto, ScanAdopt, ScanEnd, TypeOK, Phase, Idle
<1>6. ASSUME NEW s \in Session, RecoverRefused(s) \/ Close(s) PROVE TypeOK'
  BY <1>6, ForgetType DEF RecoverRefused, Close
<1>7. ASSUME NEW s \in Session, NEW env \in EnvelopeHeader, BeginAppend(s, env)
      PROVE  TypeOK'
  BY <1>7 DEF BeginAppend, Goto, TypeOK, Phase
<1>8. ASSUME NEW s \in Session, PublishBlock(s) PROVE TypeOK'
  <2>1. [from     |-> s, expected |-> lastSeq[s],
         env      |-> pending[s], epoch |-> epoch[s]] \in Request
    BY DEF TypeOK, Request
  <2> QED
    BY <1>8, <2>1 DEF PublishBlock, ExpectedSequence, Goto, TypeOK, Phase
<1>9. ASSUME NEW s \in Session,
             AuthorityLost(s) \/ SequenceExhausted(s) \/ AppendFails(s)
      PROVE  TypeOK'
  <2>1. CASE AuthorityLost(s)
    BY <2>1, NoEnvelopeType
    DEF AuthorityLost, EndAppend, MarkUncertain, Goto, TypeOK, Phase, Idle
  <2>2. CASE SequenceExhausted(s)
    BY <2>2, NoEnvelopeType
    DEF SequenceExhausted, EndAppend, Goto, TypeOK, Phase, Idle
  <2>3. CASE AppendFails(s)
    BY <2>3, NoEnvelopeType DEF AppendFails, EndAppend, Goto, TypeOK, Phase, Idle
  <2> QED
    BY <1>9, <2>1, <2>2, <2>3
<1>10. ASSUME NEW s \in Session, AckLanded(s) PROVE TypeOK'
  <2>1. PICK r \in replies : lastSeq' = [lastSeq EXCEPT ![s] = r.seq]
    BY <1>10 DEF AckLanded
  <2>2. r.seq \in Nat
    BY <2>1 DEF TypeOK, Reply
  <2>3. lastSeq' \in [Session -> Nat]
    BY <2>1, <2>2 DEF TypeOK
  <2>4. CommitEnvelope(index[s], pending[s]) \in Index
    BY CommitType DEF TypeOK
  <2>5. [env |-> pending[s], count |-> rolling[s] + 1] \in Verdict
    BY DEF TypeOK, Verdict
  <2>6. index' \in [Session -> Index] /\ landed' \subseteq Verdict
    BY <1>10, <2>4, <2>5 DEF AckLanded, TypeOK
  <2> QED
    BY <1>10, <2>3, <2>6, NoEnvelopeType
    DEF AckLanded, Unanswered, EndAppend, Goto, TypeOK, Phase, Idle
<1>11. ASSUME NEW s \in Session, AckConflict(s) PROVE TypeOK'
  BY <1>11, NoEnvelopeType
  DEF AckConflict, Unanswered, EndAppend, MarkUncertain, Goto, TypeOK, Phase, Idle
<1>12. ASSUME NEW s \in Session, AckTimeout(s) PROVE TypeOK'
  <2>1. net' \subseteq Request /\ replies' \subseteq Reply
    BY <1>12, OrphanType DEF AckTimeout
  <2> QED
    BY <1>12, <2>1, NoEnvelopeType
    DEF AckTimeout, EndAppend, MarkUncertain, Goto, TypeOK, Phase, Idle
<1>13. ASSUME NEW s \in Session, SyncFails(s) PROVE TypeOK'
  BY <1>13 DEF SyncFails, MarkUncertain, TypeOK
<1>14. ASSUME NEW s \in Session, IterateBegin(s) PROVE TypeOK'
  BY <1>14, NewIndexType
  DEF IterateBegin, Goto, ScanBegin, LastSequence, TypeOK, Phase, Scanning
<1>15. ASSUME NEW s \in Session, IterateBroken(s) PROVE TypeOK'
  <2>1. ValidateAppend(work[s], ScanAt(s)) \in FailureCondition
    BY <1>15, VerdictType DEF IterateBroken
  <2> QED
    BY <1>15, <2>1, NewIndexType
    DEF IterateBroken, Goto, ScanEnd, TypeOK, Phase, Idle
<1>16. ASSUME NEW s \in Session, IterateFails(s) \/ ReadRefused(s) PROVE TypeOK'
  <2>1. CASE IterateFails(s)
    BY <2>1, NewIndexType DEF IterateFails, Goto, ScanEnd, TypeOK, Phase, Idle
  <2>2. CASE ReadRefused(s)
    BY <2>2, NewIndexType DEF ReadRefused, Goto, ScanEnd, TypeOK, Phase, Idle
  <2> QED
    BY <1>16, <2>1, <2>2
<1>17. ASSUME NEW s \in Session, IterateDone(s) PROVE TypeOK'
  BY <1>17, NewIndexType DEF IterateDone, Goto, ScanAdopt, ScanEnd, TypeOK, Phase, Idle
<1>18. ASSUME NEW s \in Session, ReadAllFrames(s) PROVE TypeOK'
  BY <1>18 DEF ReadAllFrames, TypeOK
<1>19. ASSUME NEW s \in Session, NEW r \in {"Reading", "ReadingForMigration"},
              ReadBegin(s, r)
       PROVE  TypeOK'
  BY <1>19, NewIndexType
  DEF ReadBegin, Goto, ScanBegin, LastSequence, TypeOK, Phase, Scanning
<1>20. ASSUME NEW s \in Session, ReadDone(s) PROVE TypeOK'
  BY <1>20, NewIndexType
  DEF ReadDone, Goto, ScanEnd, TypeOK, Phase, Idle, FailureCondition
<1>21. ASSUME NEW m \in net, ServerAccepts(m) PROVE TypeOK'
  <2>1. replies' \subseteq Reply
    BY <1>21, AnswerType DEF ServerAccepts
  <2>2. m.env \in EnvelopeHeader /\ m.epoch \in Nat
    BY DEF TypeOK, Request
  <2>3. stream' \in Seq(EnvelopeHeader) /\ author' \in Seq(Nat)
    BY <1>21, <2>2, AppendProperties DEF ServerAccepts, TypeOK
  <2> QED
    BY <1>21, <2>1, <2>3 DEF ServerAccepts, TypeOK
<1>22. ASSUME NEW m \in net, ServerRejects(m) PROVE TypeOK'
  <2>1. replies' \subseteq Reply
    BY <1>22, AnswerType DEF ServerRejects
  <2> QED
    BY <1>22, <2>1 DEF ServerRejects, TypeOK
<1>23. ASSUME TakeOver \/ Retire PROVE TypeOK'
  <2>1. CASE TakeOver
    BY <2>1 DEF TakeOver, TypeOK
  <2>2. CASE Retire
    BY <2>2 DEF Retire, TypeOK
  <2> QED
    BY <1>23, <2>1, <2>2
<1>24. ASSUME UNCHANGED vars PROVE TypeOK'
  BY <1>24 DEF vars, TypeOK
<1> QED
  BY StepCases, <1>1, <1>2, <1>4, <1>5, <1>6, <1>7, <1>8, <1>9, <1>10, <1>11,
     <1>12, <1>13, <1>14, <1>15, <1>16, <1>17, <1>18, <1>19, <1>20, <1>21,
     <1>22, <1>23, <1>24

-----------------------------------------------------------------------------
(* What a step leaves alone. *)

(* The session t takes no part in the step. *)
SameSession(t) ==
    /\ phase'[t] = phase[t]
    /\ epoch'[t] = epoch[t]
    /\ lastSeq'[t] = lastSeq[t]
    /\ index'[t] = index[t]
    /\ rolling'[t] = rolling[t]
    /\ pending'[t] = pending[t]
    /\ work'[t] = work[t]
    /\ snap'[t] = snap[t]
    /\ pos'[t] = pos[t]

(* The stream keeps what it has. *)
Grows ==
    /\ Len(stream') \in Nat
    /\ Len(stream) <= Len(stream')
    /\ \A i \in 1 .. Len(stream) : stream'[i] = stream[i]

(* A session that takes no part in a step keeps its invariant. *)
LEMMA SessionStable ==
  ASSUME TypeOK, NEW t \in Session, SessionInv(t), SameSession(t), Grows
  PROVE  SessionInv(t)'
<1>1. Len(stream) \in Nat /\ Len(stream') \in Nat /\ Len(stream) <= Len(stream')
  BY DEF TypeOK, Grows
<1>2. ASSUME NEW n \in 0 .. Len(stream)
      PROVE  \A ix : Knows(ix, stream', n) <=> Knows(ix, stream, n)
  <2>1. n \in Nat /\ \A i \in 1 .. n : stream'[i] = stream[i]
    BY <1>1, <1>2 DEF Grows
  <2> QED
    BY <2>1, KnowsStable
<1>3. ScanInv(t)'
  <2> SUFFICES ASSUME phase[t] \in Scanning
               PROVE  /\ snap[t] \in 1 .. Len(stream') + 1
                      /\ pos[t] + 1 <= snap[t]
                      /\ Knows(work[t], stream', pos[t])
                      /\ phase[t] # "Recovering" => lastSeq[t] <= snap[t]
    BY DEF ScanInv, SameSession, LastSequence
  <2>1. /\ snap[t] \in 1 .. Len(stream) + 1
        /\ pos[t] + 1 <= snap[t]
        /\ Knows(work[t], stream, pos[t])
        /\ phase[t] # "Recovering" => lastSeq[t] <= snap[t]
    BY DEF SessionInv, ScanInv, LastSequence
  <2>2. pos[t] \in 0 .. Len(stream)
    BY <2>1, <1>1 DEF TypeOK
  <2> QED
    BY <2>1, <2>2, <1>1, <1>2
<1>4. OpenInv(t)'
  <2> SUFFICES ASSUME phase[t] \in Open
               PROVE  /\ \E n \in 0 .. Len(stream') :
                            lastSeq[t] <= n + 1 /\ Knows(index[t], stream', n)
                      /\ lastSeq[t] >= 1
                      /\ lastSeq[t] <= rolling[t] + 1
                      /\ rolling[t] <= Len(stream')
    BY DEF OpenInv, SameSession
  <2>1. PICK n \in 0 .. Len(stream) :
           lastSeq[t] <= n + 1 /\ Knows(index[t], stream, n)
    BY DEF SessionInv, OpenInv
  <2>2. /\ lastSeq[t] >= 1
        /\ lastSeq[t] <= rolling[t] + 1
        /\ rolling[t] <= Len(stream)
        /\ rolling[t] \in Nat
    BY DEF SessionInv, OpenInv, TypeOK
  <2>3. n \in 0 .. Len(stream') /\ Knows(index[t], stream', n)
    BY <2>1, <1>1, <1>2
  <2> QED
    BY <2>1, <2>2, <2>3, <1>1
<1>5. AppendInv(t)'
  BY DEF SessionInv, AppendInv, SameSession
<1> QED
  BY <1>3, <1>4, <1>5 DEF SessionInv

(* A step of a session that is not waiting for a publish, and that leaves  *)
(* the server alone, has to keep only that session's own invariant.        *)
LEMMA LocalStep ==
  ASSUME SessionsKnowPrefixes, TypeOK', NEW s \in Session,
         phase[s] # "Awaiting", UNCHANGED <<server, history>>,
         \A t \in Session \ {s} : SameSession(t),
         SessionInv(s)'
  PROVE  SessionsKnowPrefixes'
<1>1. Grows
  BY DEF Grows, server, SessionsKnowPrefixes, TypeOK
<1>2. ASSUME NEW t \in Session PROVE SessionInv(t)'
  BY <1>1, SessionStable DEF SessionsKnowPrefixes
<1>3. StreamInv'
  BY DEF SessionsKnowPrefixes, StreamInv, OwnWritesExtend, server, history
<1>4. NetInv'
  <2> SUFFICES ASSUME NEW m \in net
               PROVE  /\ m.expected <= LastSequence
                      /\ m.epoch \in 1 .. claim
                      /\ m.expected = LastSequence =>
                            /\ Extends(stream, Len(stream), m.env)
                            /\ Intact(stream, Len(stream), m.env.fiber_id)
                            /\ \A i \in 1 .. Len(author) : author[i] <= m.epoch
                      /\ m.from # Nobody =>
                            /\ phase'[m.from] = "Awaiting"
                            /\ m = PublishOf(m.from)'
    BY DEF NetInv, LastSequence, server, history
  <2>1. /\ m.expected <= LastSequence
        /\ m.epoch \in 1 .. claim
        /\ m.expected = LastSequence =>
              /\ Extends(stream, Len(stream), m.env)
              /\ Intact(stream, Len(stream), m.env.fiber_id)
              /\ \A i \in 1 .. Len(author) : author[i] <= m.epoch
        /\ m.from # Nobody =>
              /\ phase[m.from] = "Awaiting"
              /\ m = PublishOf(m.from)
    BY DEF SessionsKnowPrefixes, NetInv
  <2>2. m.from # Nobody => m.from \in Session \ {s}
    BY <2>1 DEF SessionsKnowPrefixes, TypeOK, Request
  <2> QED
    BY <2>1, <2>2 DEF SameSession, PublishOf
<1>5. ReplyInv'
  <2> SUFFICES ASSUME NEW r \in replies
               PROVE  /\ phase'[r.to] = "Awaiting"
                      /\ \A m \in net : m.from # r.to
                      /\ r.landed =>
                            /\ r.seq = lastSeq'[r.to] + 1
                            /\ lastSeq'[r.to] \in 1 .. Len(stream)
                            /\ stream[lastSeq'[r.to]] = pending'[r.to]
                            /\ Knows(index'[r.to], stream, lastSeq'[r.to] - 1)
                            /\ rolling'[r.to] = lastSeq'[r.to] - 1
    BY DEF ReplyInv, server
  <2>1. r.to \in Session /\ phase[r.to] = "Awaiting"
    BY DEF SessionsKnowPrefixes, TypeOK, Reply, ReplyInv
  <2>2. SameSession(r.to)
    BY <2>1
  <2> QED
    BY <2>2 DEF SessionsKnowPrefixes, ReplyInv, SameSession
<1>6. LandedInv'
  BY DEF SessionsKnowPrefixes, LandedInv, server, history
<1> QED
  BY <1>2, <1>3, <1>4, <1>5, <1>6 DEF SessionsKnowPrefixes

-----------------------------------------------------------------------------
(* Scans. *)

(* The frame a scan takes next is known to the index it then has. *)
LEMMA ScanAdvances ==
  ASSUME SessionsKnowPrefixes, NEW s \in Session,
         phase[s] \in Scanning, ScanMore(s)
  PROVE  /\ ProcessFrameAdmits(work[s], ScanAt(s)) =>
               Knows(ProcessFrame(work[s], ScanAt(s)), stream, pos[s] + 1)
         /\ ValidateAppend(work[s], ScanAt(s)) = "Ok" =>
               Knows(CommitEnvelope(work[s], ScanAt(s)), stream, pos[s] + 1)
<1>1. /\ pos[s] \in Nat
      /\ stream \in Seq(EnvelopeHeader)
      /\ Len(stream) \in Nat
      /\ snap[s] \in 1 .. Len(stream) + 1
      /\ pos[s] + 1 < snap[s]
      /\ work[s] \in Index
      /\ Knows(work[s], stream, pos[s])
  BY DEF SessionsKnowPrefixes, TypeOK, SessionInv, ScanInv, ScanMore, LastSequence
<1>2. pos[s] \in 0 .. Len(stream) - 1
  BY <1>1
<1> QED
  BY <1>1, <1>2, ProcessKnows, CommitKnows DEF ScanAt

(* A step of a scan that takes the next frame. *)
LEMMA ScanFrameInv ==
  ASSUME SessionsKnowPrefixes, TypeOK', NEW s \in Session,
         RecoverFrame(s) \/ IterateFrame(s) \/ ReadFrame(s)
  PROVE  SessionsKnowPrefixes'
<1>1. phase[s] \in Scanning /\ phase[s] # "Awaiting" /\ ScanMore(s)
  BY DEF RecoverFrame, IterateFrame, ReadFrame, Scanning
<1>2. /\ pos[s] \in Nat /\ snap[s] \in Nat
      /\ snap[s] \in 1 .. LastSequence
      /\ pos[s] + 1 < snap[s]
      /\ phase[s] # "Recovering" => lastSeq[s] <= snap[s]
  BY <1>1 DEF SessionsKnowPrefixes, TypeOK, SessionInv, ScanInv, ScanMore
<1>3. PICK next : /\ ScanTake(s, next)
                   /\ Knows(next, stream, pos[s] + 1)
                   /\ UNCHANGED <<server, session, history>>
  BY <1>1, ScanAdvances DEF RecoverFrame, IterateFrame, ReadFrame
<1>4. \A t \in Session \ {s} : SameSession(t)
  BY <1>3 DEF ScanTake, SameSession, session, SessionsKnowPrefixes, TypeOK
<1>5. /\ Knows(work'[s], stream, pos[s] + 1)
      /\ pos'[s] = pos[s] + 1
      /\ snap'[s] = snap[s]
      /\ stream' = stream
      /\ phase'[s] = phase[s] /\ lastSeq'[s] = lastSeq[s]
  BY <1>3 DEF ScanTake, session, server, SessionsKnowPrefixes, TypeOK
<1>6. ScanInv(s)'
  BY <1>2, <1>5 DEF ScanInv, LastSequence
<1>7. OpenInv(s)' /\ AppendInv(s)'
  BY <1>3 DEF SessionsKnowPrefixes, SessionInv, OpenInv, AppendInv, session, server
<1> QED
  BY <1>1, <1>3, <1>4, <1>6, <1>7, LocalStep DEF SessionInv

(* A scan begins: it has read nothing. *)
LEMMA ScanBeginInv ==
  ASSUME SessionsKnowPrefixes, TypeOK', NEW s \in Session,
         \/ RecoverBegin(s)
         \/ IterateBegin(s)
         \/ \E r \in {"Reading", "ReadingForMigration"} : ReadBegin(s, r)
  PROVE  SessionsKnowPrefixes'
<1>1. Len(stream) \in Nat /\ lastSeq[s] \in Nat
  BY DEF SessionsKnowPrefixes, TypeOK
<1>2. /\ phase[s] # "Awaiting"
      /\ UNCHANGED <<server, history>>
      /\ ScanBegin(s)
      /\ UNCHANGED <<epoch, lastSeq, index, pending>>
      /\ \/ RecoverBegin(s)
         \/ /\ phase[s] = "Ready"
            /\ phase'[s] \in Scanning
            /\ rolling'[s] \in {rolling[s], Len(stream)}
  BY DEF RecoverBegin, IterateBegin, ReadBegin, Goto, Scanning,
         SessionsKnowPrefixes, TypeOK
<1>3. \A t \in Session \ {s} : SameSession(t)
  BY ZenonT(30) DEF RecoverBegin, IterateBegin, ReadBegin, Goto, ScanBegin, SameSession,
         SessionsKnowPrefixes, TypeOK
<1>4. /\ Knows(work'[s], stream, 0)
      /\ pos'[s] = 0
      /\ snap'[s] = Len(stream) + 1
      /\ stream' = stream
      /\ lastSeq'[s] = lastSeq[s] /\ index'[s] = index[s]
      /\ pending'[s] = pending[s]
  BY <1>2, KnowsEmpty DEF ScanBegin, server, LastSequence, SessionsKnowPrefixes, TypeOK
<1>5. CASE RecoverBegin(s)
  <2>1. phase'[s] = "Recovering"
    BY <1>5 DEF RecoverBegin, Goto, SessionsKnowPrefixes, TypeOK
  <2>2. ScanInv(s)'
    BY <1>1, <1>4, <2>1 DEF ScanInv, LastSequence
  <2>3. OpenInv(s)' /\ AppendInv(s)'
    BY <2>1 DEF OpenInv, AppendInv, Open
  <2> QED
    BY <1>2, <1>3, <2>2, <2>3, LocalStep DEF SessionInv
<1>6. CASE phase[s] = "Ready" /\ phase'[s] \in Scanning
           /\ rolling'[s] \in {rolling[s], Len(stream)}
  <2>1. PICK n \in 0 .. Len(stream) :
           lastSeq[s] <= n + 1 /\ Knows(index[s], stream, n)
    BY <1>6 DEF SessionsKnowPrefixes, SessionInv, OpenInv, Open, Phase, Idle
  <2>2. /\ lastSeq[s] >= 1
        /\ lastSeq[s] <= rolling[s] + 1
        /\ rolling[s] <= Len(stream)
        /\ rolling[s] \in Nat
    BY <1>6 DEF SessionsKnowPrefixes, SessionInv, OpenInv, Open, Phase, Idle, TypeOK
  <2>3. lastSeq[s] <= Len(stream) + 1
    BY <2>1, <1>1
  <2>4. ScanInv(s)'
    BY <1>1, <1>4, <2>3 DEF ScanInv, LastSequence
  <2>5. /\ lastSeq[s] <= rolling'[s] + 1
        /\ rolling'[s] <= Len(stream)
    BY <1>6, <2>2, <2>3, <1>1
  <2>6. OpenInv(s)'
    BY <2>1, <2>2, <2>5, <1>4 DEF OpenInv
  <2>7. AppendInv(s)'
    BY <1>6 DEF AppendInv, Scanning
  <2> QED
    BY <1>2, <1>3, <2>4, <2>6, <2>7, LocalStep DEF SessionInv
<1> QED
  BY <1>2, <1>5, <1>6

(* A scan ends having read the whole of its view. *)
LEMMA ScanDoneInv ==
  ASSUME SessionsKnowPrefixes, TypeOK', NEW s \in Session,
         RecoverDone(s) \/ IterateDone(s) \/ ReadDone(s)
  PROVE  SessionsKnowPrefixes'
<1>1. /\ phase[s] \in Scanning
      /\ phase[s] # "Awaiting"
      /\ ~ScanMore(s)
      /\ UNCHANGED <<server, history>>
      /\ phase'[s] = "Ready"
      /\ stream' = stream
      /\ index'[s] = work[s]
      /\ \/ lastSeq'[s] = snap[s] /\ rolling'[s] = pos[s]
         \/ /\ phase[s] \in {"Reading", "ReadingForMigration"}
            /\ lastSeq'[s] = lastSeq[s] /\ rolling'[s] = rolling[s]
  BY DEF RecoverDone, IterateDone, ReadDone, ScanAdopt, Goto, Scanning, server,
         SessionsKnowPrefixes, TypeOK
<1>2. \A t \in Session \ {s} : SameSession(t)
  <2> USE DEF Goto, ScanAdopt, ScanEnd, SameSession, SessionsKnowPrefixes, TypeOK
  <2>1. CASE RecoverDone(s)
    BY <2>1 DEF RecoverDone
  <2>2. CASE IterateDone(s)
    BY <2>2 DEF IterateDone
  <2>3. CASE ReadDone(s)
    BY <2>3 DEF ReadDone
  <2> QED
    BY <2>1, <2>2, <2>3
<1>3. /\ pos[s] \in Nat /\ lastSeq[s] \in Nat /\ Len(stream) \in Nat
      /\ snap[s] = pos[s] + 1
      /\ pos[s] \in 0 .. Len(stream)
      /\ Knows(work[s], stream, pos[s])
      /\ phase[s] # "Recovering" => lastSeq[s] <= snap[s]
  BY <1>1, SMTT(30) DEF SessionsKnowPrefixes, TypeOK, SessionInv, ScanInv, ScanMore, LastSequence
<1>6. OpenInv(s)'
  <2>1. CASE lastSeq'[s] = snap[s] /\ rolling'[s] = pos[s]
    BY <1>1, <1>3, <2>1 DEF OpenInv
  <2>2. CASE /\ phase[s] \in {"Reading", "ReadingForMigration"}
             /\ lastSeq'[s] = lastSeq[s] /\ rolling'[s] = rolling[s]
    <3>1. /\ lastSeq[s] >= 1
          /\ lastSeq[s] <= rolling[s] + 1
          /\ rolling[s] <= Len(stream)
      BY <2>2 DEF SessionsKnowPrefixes, SessionInv, OpenInv, Open, Phase, Scanning
    <3>2. lastSeq[s] <= pos[s] + 1
      BY <1>3, <2>2
    <3> QED
      BY <1>1, <1>3, <2>2, <3>1, <3>2 DEF OpenInv
  <2> QED
    BY <1>1, <2>1, <2>2
<1>7. ScanInv(s)' /\ AppendInv(s)'
  BY <1>1 DEF ScanInv, AppendInv, Scanning
<1> QED
  BY <1>1, <1>2, <1>6, <1>7, LocalStep DEF SessionInv

-----------------------------------------------------------------------------
(* The other steps of a session that leave the server alone. *)

(* Opening, and a call that ends with the session as it was. *)
LEMMA QuietInv ==
  ASSUME SessionsKnowPrefixes, TypeOK', NEW s \in Session,
         \/ OpenWrite(s) \/ SyncFails(s)
         \/ IterateBroken(s) \/ IterateFails(s) \/ ReadRefused(s)
         \/ AuthorityLost(s) \/ SequenceExhausted(s) \/ AppendFails(s)
  PROVE  SessionsKnowPrefixes'
<1>1. /\ phase[s] # "Awaiting"
      /\ UNCHANGED <<server, history>>
      /\ stream' = stream
      /\ phase'[s] = "Opening" \/ (phase[s] \in Open /\ phase'[s] = "Ready")
      /\ UNCHANGED <<lastSeq, index, rolling>>
  <2> USE DEF Goto, EndAppend, server, SessionsKnowPrefixes, TypeOK, Open, Phase,
              Idle, Scanning
  <2>1. CASE OpenWrite(s)
    BY <2>1 DEF OpenWrite
  <2>2. CASE SyncFails(s)
    BY <2>2 DEF SyncFails
  <2>3. CASE IterateBroken(s) \/ IterateFails(s) \/ ReadRefused(s)
    BY <2>3 DEF IterateBroken, IterateFails, ReadRefused
  <2>4. CASE AuthorityLost(s) \/ SequenceExhausted(s) \/ AppendFails(s)
    BY <2>4 DEF AuthorityLost, SequenceExhausted, AppendFails
  <2> QED
    BY <2>1, <2>2, <2>3, <2>4
<1>2. \A t \in Session \ {s} : SameSession(t)
  <2> USE DEF Goto, EndAppend, ScanEnd, scan, SameSession, SessionsKnowPrefixes, TypeOK
  <2>1. CASE OpenWrite(s)
    BY <2>1 DEF OpenWrite
  <2>2. CASE SyncFails(s)
    BY <2>2 DEF SyncFails
  <2>3. CASE IterateBroken(s)
    BY <2>3 DEF IterateBroken
  <2>4. CASE IterateFails(s)
    BY <2>4 DEF IterateFails
  <2>5. CASE ReadRefused(s)
    BY <2>5 DEF ReadRefused
  <2>6. CASE AuthorityLost(s)
    BY <2>6 DEF AuthorityLost
  <2>7. CASE SequenceExhausted(s)
    BY <2>7 DEF SequenceExhausted
  <2>8. CASE AppendFails(s)
    BY <2>8 DEF AppendFails
  <2> QED
    BY <2>1, <2>2, <2>3, <2>4, <2>5, <2>6, <2>7, <2>8
<1>3. OpenInv(s)'
  BY <1>1 DEF SessionsKnowPrefixes, SessionInv, OpenInv, Open
<1>4. ScanInv(s)' /\ AppendInv(s)'
  BY <1>1 DEF ScanInv, AppendInv, Scanning
<1> QED
  BY <1>1, <1>2, <1>3, <1>4, LocalStep DEF SessionInv

(* Store::read_all_frames moves the frame count to the end of the stream. *)
LEMMA ReadAllFramesInv ==
  ASSUME SessionsKnowPrefixes, TypeOK', NEW s \in Session, ReadAllFrames(s)
  PROVE  SessionsKnowPrefixes'
<1>1. /\ phase[s] = "Ready"
      /\ UNCHANGED <<server, history, phase, lastSeq, index>>
      /\ stream' = stream
      /\ rolling'[s] = Len(stream)
  BY DEF ReadAllFrames, server, SessionsKnowPrefixes, TypeOK
<1>2. \A t \in Session \ {s} : SameSession(t)
  BY DEF ReadAllFrames, scan, SameSession, SessionsKnowPrefixes, TypeOK
<1>3. PICK n \in 0 .. Len(stream) :
         lastSeq[s] <= n + 1 /\ Knows(index[s], stream, n)
  BY <1>1 DEF SessionsKnowPrefixes, SessionInv, OpenInv, Open, Phase, Idle
<1>4. lastSeq[s] >= 1 /\ lastSeq[s] \in Nat /\ Len(stream) \in Nat
  <2>1. lastSeq[s] >= 1
    BY <1>1 DEF SessionsKnowPrefixes, SessionInv, OpenInv, Open, Phase, Idle
  <2> QED
    BY <2>1 DEF SessionsKnowPrefixes, TypeOK
<1>5. OpenInv(s)'
  BY <1>1, <1>3, <1>4 DEF OpenInv
<1>6. ScanInv(s)' /\ AppendInv(s)'
  BY <1>1 DEF ScanInv, AppendInv, Scanning
<1> QED
  BY <1>1, <1>2, <1>5, <1>6, LocalStep DEF SessionInv

(* An append begins with an envelope validated on the session's index. *)
LEMMA BeginAppendInv ==
  ASSUME SessionsKnowPrefixes, TypeOK', NEW s \in Session,
         NEW env \in EnvelopeHeader, BeginAppend(s, env)
  PROVE  SessionsKnowPrefixes'
<1>1. /\ phase[s] = "Ready"
      /\ UNCHANGED <<server, history, lastSeq, index, rolling>>
      /\ stream' = stream
      /\ phase'[s] = "Appending"
      /\ pending'[s] = env
      /\ ValidateAppend(index[s], env) = "Ok"
  BY DEF BeginAppend, Goto, server, SessionsKnowPrefixes, TypeOK
<1>2. \A t \in Session \ {s} : SameSession(t)
  BY DEF BeginAppend, Goto, scan, SameSession, SessionsKnowPrefixes, TypeOK
<1>3. OpenInv(s)'
  BY <1>1 DEF SessionsKnowPrefixes, SessionInv, OpenInv, Open, Phase, Idle
<1>4. ScanInv(s)' /\ AppendInv(s)'
  BY <1>1 DEF ScanInv, AppendInv, Scanning
<1> QED
  BY <1>1, <1>2, <1>3, <1>4, LocalStep DEF SessionInv

-----------------------------------------------------------------------------
(* Publishing. *)

(* If the server would accept the publish, the session knows the whole     *)
(* stream, so the validated envelope extends it in an unbroken fiber.      *)
LEMMA PublishBlockInv ==
  ASSUME SessionsKnowPrefixes, TypeOK', NEW s \in Session, PublishBlock(s)
  PROVE  SessionsKnowPrefixes'
<1> DEFINE p == PublishOf(s)
<1>1. /\ phase[s] = "Appending"
      /\ claim = epoch[s]
      /\ net' = net \cup {p}
      /\ UNCHANGED <<claim, stream, replies, author, landed, scan>>
      /\ UNCHANGED <<epoch, lastSeq, index, rolling, pending>>
      /\ phase'[s] = "Awaiting"
  BY DEF PublishBlock, ExpectedSequence, HasAuthority, PublishOf, Goto, history,
         SessionsKnowPrefixes, TypeOK
<1>2. \A t \in Session \ {s} : SameSession(t)
  BY <1>1 DEF PublishBlock, Goto, scan, SameSession, SessionsKnowPrefixes, TypeOK
<1>3. Grows
  BY <1>1 DEF Grows, SessionsKnowPrefixes, TypeOK
<1>4. SessionInv(s)'
  BY <1>1 DEF SessionsKnowPrefixes, SessionInv, ScanInv, OpenInv, AppendInv, Scanning,
              Open, Phase
<1>5. \A t \in Session : SessionInv(t)'
  BY <1>2, <1>3, <1>4, SessionStable DEF SessionsKnowPrefixes
<1>6. PICK n \in 0 .. Len(stream) :
         lastSeq[s] <= n + 1 /\ Knows(index[s], stream, n)
  BY <1>1 DEF SessionsKnowPrefixes, SessionInv, OpenInv, Open, Phase, Idle, Scanning
<1>7. /\ lastSeq[s] \in Nat /\ Len(stream) \in Nat /\ pending[s] \in EnvelopeHeader
      /\ stream \in Seq(EnvelopeHeader)
  BY DEF SessionsKnowPrefixes, TypeOK
<1>8. ASSUME lastSeq[s] = LastSequence
      PROVE  /\ Extends(stream, Len(stream), pending[s])
             /\ Intact(stream, Len(stream), pending[s].fiber_id)
  <2>1. n = Len(stream)
    BY <1>6, <1>7, <1>8 DEF LastSequence
  <2>2. ValidateAppend(index[s], pending[s]) = "Ok"
    BY <1>1 DEF SessionsKnowPrefixes, SessionInv, AppendInv
  <2> QED
    BY <2>1, <2>2, <1>6, <1>7, ValidateKnows
<1>9. NetInv'
  <2>1. /\ p.expected = lastSeq[s] /\ p.env = pending[s]
        /\ p.epoch = claim /\ p.from = s
    BY <1>1 DEF PublishOf
  <2>2. lastSeq[s] <= LastSequence
    BY <1>6, <1>7 DEF LastSequence
  <2>3. /\ claim \in 1 .. claim
        /\ \A i \in 1 .. Len(author) : author[i] <= claim
    BY DEF SessionsKnowPrefixes, StreamInv, TypeOK
  <2>4. PublishOf(s)' = p
    BY <1>1 DEF PublishOf
  <2>5. ASSUME NEW m \in net, m.from # Nobody
        PROVE  phase'[m.from] = "Awaiting" /\ m = PublishOf(m.from)'
    <3>1. phase[m.from] = "Awaiting" /\ m = PublishOf(m.from) /\ m.from \in Session
      BY <2>5 DEF SessionsKnowPrefixes, NetInv, TypeOK, Request
    <3>2. m.from \in Session \ {s}
      BY <3>1, <1>1
    <3> QED
      BY <3>1, <3>2, <1>2 DEF SameSession, PublishOf
  <2>6. ASSUME NEW m \in net
        PROVE  /\ m.expected <= LastSequence
               /\ m.epoch \in 1 .. claim
               /\ m.expected = LastSequence =>
                     /\ Extends(stream, Len(stream), m.env)
                     /\ Intact(stream, Len(stream), m.env.fiber_id)
                     /\ \A i \in 1 .. Len(author) : author[i] <= m.epoch
    BY DEF SessionsKnowPrefixes, NetInv
  <2>7. LastSequence' = LastSequence
    BY <1>1 DEF LastSequence
  <2> HIDE DEF p
  <2>8. ASSUME NEW m \in net'
        PROVE  /\ m.expected <= LastSequence
               /\ m.epoch \in 1 .. claim
               /\ m.expected = LastSequence =>
                     /\ Extends(stream, Len(stream), m.env)
                     /\ Intact(stream, Len(stream), m.env.fiber_id)
                     /\ \A i \in 1 .. Len(author) : author[i] <= m.epoch
               /\ m.from # Nobody =>
                     phase'[m.from] = "Awaiting" /\ m = PublishOf(m.from)'
    <3>1. CASE m \in net
      BY <3>1, <2>5, <2>6
    <3>2. CASE m = p
      BY <3>2, <2>1, <2>2, <2>3, <2>4, <1>8, <1>1
    <3> QED
      BY <3>1, <3>2, <1>1
  <2> QED
    BY <2>7, <2>8, <1>1 DEF NetInv
<1>10. ReplyInv'
  <2> SUFFICES ASSUME NEW r \in replies
               PROVE  /\ phase'[r.to] = "Awaiting"
                      /\ \A m \in net' : m.from # r.to
                      /\ r.landed =>
                            /\ r.seq = lastSeq[r.to] + 1
                            /\ lastSeq[r.to] \in 1 .. Len(stream)
                            /\ stream[lastSeq[r.to]] = pending[r.to]
                            /\ Knows(index[r.to], stream, lastSeq[r.to] - 1)
                            /\ rolling[r.to] = lastSeq[r.to] - 1
    BY <1>1 DEF ReplyInv
  <2>1. r.to \in Session /\ phase[r.to] = "Awaiting"
    BY DEF SessionsKnowPrefixes, TypeOK, Reply, ReplyInv
  <2>2. SameSession(r.to) /\ r.to # s
    BY <2>1, <1>1, <1>2
  <2>3. p.from = s
    BY DEF PublishOf
  <2> QED
    BY <1>1, <2>1, <2>2, <2>3 DEF SessionsKnowPrefixes, ReplyInv, SameSession
<1>11. StreamInv' /\ LandedInv'
  BY <1>1 DEF SessionsKnowPrefixes, StreamInv, OwnWritesExtend, LandedInv
<1> QED
  BY <1>5, <1>9, <1>10, <1>11 DEF SessionsKnowPrefixes

(* The two ways in which a session stops waiting: its publish is left in   *)
(* flight without a listener, or was answered and is no longer in flight.  *)
LEMMA ReleaseStep ==
  ASSUME SessionsKnowPrefixes, TypeOK', NEW s \in Session,
         UNCHANGED <<claim, stream, author>>,
         Orphan(s) \/ (replies' = {r \in replies : r.to # s} /\ net' = net
                          /\ \E r \in replies : r.to = s),
         \A t \in Session \ {s} : SameSession(t),
         SessionInv(s)', LandedInv'
  PROVE  SessionsKnowPrefixes'
<1>1. Grows
  BY DEF Grows, SessionsKnowPrefixes, TypeOK
<1>2. \A t \in Session : SessionInv(t)'
  BY <1>1, SessionStable DEF SessionsKnowPrefixes
<1>3. StreamInv'
  BY DEF SessionsKnowPrefixes, StreamInv, OwnWritesExtend
<1>4. replies' = {r \in replies : r.to # s}
  BY DEF Orphan
<1>5. ASSUME NEW m \in net'
      PROVE  \E k \in net : /\ m.expected = k.expected
                            /\ m.env = k.env
                            /\ m.epoch = k.epoch
                            /\ m.from # Nobody => m = k /\ m.from # s
  <2>1. CASE Orphan(s)
    <3>1. PICK k \in net : m = IF k.from = s THEN [k EXCEPT !.from = Nobody] ELSE k
      BY <2>1 DEF Orphan
    <3>2. k \in Request
      BY DEF SessionsKnowPrefixes, TypeOK
    <3>3. CASE k.from = s
      <4>1. m = [k EXCEPT !.from = Nobody]
        BY <3>1, <3>3
      <4>2. m.from = Nobody /\ m.expected = k.expected /\ m.env = k.env
              /\ m.epoch = k.epoch
        BY <3>2, <4>1 DEF Request
      <4> QED
        BY <4>2
    <3>4. CASE k.from # s
      BY <3>1, <3>4
    <3> QED
      BY <3>3, <3>4
  <2>2. CASE net' = net /\ \E r \in replies : r.to = s
    BY <2>2 DEF SessionsKnowPrefixes, ReplyInv
  <2> QED
    BY <2>1, <2>2
<1>6. NetInv'
  <2>1. LastSequence' = LastSequence
    BY DEF LastSequence
  <2>2. ASSUME NEW m \in net'
        PROVE  /\ m.expected <= LastSequence
               /\ m.epoch \in 1 .. claim
               /\ m.expected = LastSequence =>
                     /\ Extends(stream, Len(stream), m.env)
                     /\ Intact(stream, Len(stream), m.env.fiber_id)
                     /\ \A i \in 1 .. Len(author) : author[i] <= m.epoch
               /\ m.from # Nobody =>
                     phase'[m.from] = "Awaiting" /\ m = PublishOf(m.from)'
    <3>1. PICK k \in net : /\ m.expected = k.expected
                           /\ m.env = k.env
                           /\ m.epoch = k.epoch
                           /\ m.from # Nobody => m = k /\ m.from # s
      BY <1>5
    <3>2. /\ k.expected <= LastSequence
          /\ k.epoch \in 1 .. claim
          /\ k.expected = LastSequence =>
                /\ Extends(stream, Len(stream), k.env)
                /\ Intact(stream, Len(stream), k.env.fiber_id)
                /\ \A i \in 1 .. Len(author) : author[i] <= k.epoch
          /\ k.from # Nobody => phase[k.from] = "Awaiting" /\ k = PublishOf(k.from)
          /\ k.from # Nobody => k.from \in Session
      BY DEF SessionsKnowPrefixes, NetInv, TypeOK, Request
    <3>3. ASSUME m.from # Nobody
          PROVE  phase'[m.from] = "Awaiting" /\ m = PublishOf(m.from)'
      BY <3>1, <3>2, <3>3 DEF SameSession, PublishOf
    <3> QED
      BY <3>1, <3>2, <3>3
  <2> QED
    BY <2>1, <2>2 DEF NetInv
<1>7. ReplyInv'
  <2> SUFFICES ASSUME NEW r \in replies, r.to # s
               PROVE  /\ phase'[r.to] = "Awaiting"
                      /\ \A m \in net' : m.from # r.to
                      /\ r.landed =>
                            /\ r.seq = lastSeq'[r.to] + 1
                            /\ lastSeq'[r.to] \in 1 .. Len(stream)
                            /\ stream[lastSeq'[r.to]] = pending'[r.to]
                            /\ Knows(index'[r.to], stream, lastSeq'[r.to] - 1)
                            /\ rolling'[r.to] = lastSeq'[r.to] - 1
    BY <1>4 DEF ReplyInv
  <2>1. r.to \in Session /\ r.to # Nobody
    BY NatsAssumption DEF SessionsKnowPrefixes, TypeOK, Reply
  <2>2. SameSession(r.to)
    BY <2>1
  <2>3. \A m \in net' : m.from # r.to
    BY <1>5, <2>1 DEF SessionsKnowPrefixes, ReplyInv
  <2> QED
    BY <2>2, <2>3 DEF SessionsKnowPrefixes, ReplyInv, SameSession
<1> QED
  BY <1>2, <1>3, <1>6, <1>7 DEF SessionsKnowPrefixes

(* A session that is dropped, or whose recovery is refused. *)
LEMMA ForgetInv ==
  ASSUME SessionsKnowPrefixes, TypeOK', NEW s \in Session,
         RecoverRefused(s) \/ Close(s)
  PROVE  SessionsKnowPrefixes'
<1>1. Forget(s)
  BY DEF RecoverRefused, Close
<1>2. /\ phase'[s] = "Closed"
      /\ Orphan(s)
      /\ UNCHANGED <<claim, stream, author, landed>>
  BY <1>1 DEF Forget, Goto, history, SessionsKnowPrefixes, TypeOK
<1>3. \A t \in Session \ {s} : SameSession(t)
  BY <1>1 DEF Forget, Goto, ScanEnd, SameSession, SessionsKnowPrefixes, TypeOK
<1>4. SessionInv(s)'
  BY <1>2 DEF SessionInv, ScanInv, OpenInv, AppendInv, Scanning, Open
<1>5. LandedInv'
  BY <1>2 DEF SessionsKnowPrefixes, LandedInv
<1> QED
  BY <1>2, <1>3, <1>4, <1>5, ReleaseStep

(* The publish is refused, or is not answered in time. *)
LEMMA UndeterminedInv ==
  ASSUME SessionsKnowPrefixes, TypeOK', NEW s \in Session,
         AckConflict(s) \/ AckTimeout(s)
  PROVE  SessionsKnowPrefixes'
<1>1. /\ phase[s] = "Awaiting"
      /\ phase'[s] = "Ready"
      /\ UNCHANGED <<claim, stream, author, landed>>
      /\ UNCHANGED <<lastSeq, index, rolling>>
      /\ Orphan(s) \/ (replies' = {r \in replies : r.to # s} /\ net' = net
                           /\ \E r \in replies : r.to = s)
  BY DEF AckConflict, AckTimeout, EndAppend, Unanswered, Goto, history,
         SessionsKnowPrefixes, TypeOK
<1>2. \A t \in Session \ {s} : SameSession(t)
  <2> USE DEF EndAppend, Goto, scan, SameSession, SessionsKnowPrefixes, TypeOK
  <2>1. CASE AckConflict(s)
    BY <2>1 DEF AckConflict
  <2>2. CASE AckTimeout(s)
    BY <2>2 DEF AckTimeout
  <2> QED
    BY <2>1, <2>2
<1>3. SessionInv(s)'
  BY <1>1 DEF SessionsKnowPrefixes, SessionInv, ScanInv, OpenInv, AppendInv, Scanning,
              Open, Phase, Idle
<1>4. LandedInv'
  BY <1>1 DEF SessionsKnowPrefixes, LandedInv
<1> QED
  BY <1>1, <1>2, <1>3, <1>4, ReleaseStep

(* The session learns that its publish landed: it knows the prefix that    *)
(* ends with the envelope, and its count is that position.                 *)
LEMMA AckLandedInv ==
  ASSUME SessionsKnowPrefixes, TypeOK', NEW s \in Session, AckLanded(s)
  PROVE  SessionsKnowPrefixes'
<1>1. PICK r \in replies : /\ r.to = s
                           /\ r.landed
                           /\ lastSeq' = [lastSeq EXCEPT ![s] = r.seq]
  BY DEF AckLanded
<1> DEFINE k == lastSeq[s]
<1>2. /\ r.seq = k + 1
      /\ k \in 1 .. Len(stream)
      /\ stream[k] = pending[s]
      /\ Knows(index[s], stream, k - 1)
      /\ rolling[s] = k - 1
  BY <1>1 DEF SessionsKnowPrefixes, ReplyInv
<1>3. /\ stream \in Seq(EnvelopeHeader) /\ Len(stream) \in Nat /\ k \in Nat
      /\ index[s] \in Index
  BY DEF SessionsKnowPrefixes, TypeOK
<1>4. Knows(CommitEnvelope(index[s], pending[s]), stream, k)
  <2>1. k - 1 \in 0 .. Len(stream) - 1 /\ (k - 1) + 1 = k
    BY <1>2, <1>3
  <2>2. phase[s] = "Awaiting"
    BY DEF AckLanded
  <2>3. ValidateAppend(index[s], pending[s]) = "Ok"
    BY <2>2 DEF SessionsKnowPrefixes, SessionInv, AppendInv
  <2>4. Knows(CommitEnvelope(index[s], stream[(k - 1) + 1]), stream, (k - 1) + 1)
    BY <2>1, <2>3, <1>2, <1>3, CommitKnows
  <2> QED
    BY <2>1, <2>4, <1>2
<1>5. /\ phase'[s] = "Ready"
      /\ lastSeq'[s] = k + 1
      /\ Knows(index'[s], stream, k)
      /\ rolling'[s] = k
      /\ UNCHANGED <<claim, stream, author, net>>
      /\ replies' = {q \in replies : q.to # s}
      /\ landed' = landed \cup {[env |-> pending[s], count |-> k]}
  <2>1. rolling[s] + 1 = k
    BY <1>2, <1>3
  <2> QED
    BY <1>1, <1>2, <1>4, <2>1
    DEF AckLanded, EndAppend, Unanswered, Goto, SessionsKnowPrefixes, TypeOK
<1>6. \A t \in Session \ {s} : SameSession(t)
  BY <1>1 DEF AckLanded, EndAppend, Goto, scan, SameSession, SessionsKnowPrefixes, TypeOK
<1>7. OpenInv(s)'
  BY <1>2, <1>3, <1>5 DEF OpenInv
<1>8. ScanInv(s)' /\ AppendInv(s)'
  BY <1>5 DEF ScanInv, AppendInv, Scanning
<1>9. LandedInv'
  BY <1>2, <1>5 DEF SessionsKnowPrefixes, LandedInv
<1> QED
  BY <1>1, <1>5, <1>6, <1>7, <1>8, <1>9, ReleaseStep DEF SessionInv

-----------------------------------------------------------------------------
(* The server. *)

(* An answer leaves its session as it is: no other publish or reply of     *)
(* that session is in flight.                                              *)
LEMMA RejectInv ==
  ASSUME SessionsKnowPrefixes, TypeOK', NEW m \in net, ServerRejects(m)
  PROVE  SessionsKnowPrefixes'
<1>1. /\ net' = net \ {m}
      /\ UNCHANGED <<claim, stream, author, landed>>
      /\ UNCHANGED <<session, scan>>
      /\ Answer(m, FALSE)
  BY DEF ServerRejects, history
<1>2. UNCHANGED <<phase, epoch, lastSeq, index, rolling, pending, work, snap, pos>>
  BY <1>1 DEF session, scan
<1>3. Grows /\ \A t \in Session : SameSession(t)
  BY <1>1, <1>2 DEF Grows, SameSession, SessionsKnowPrefixes, TypeOK
<1>4. \A t \in Session : SessionInv(t)'
  BY <1>3, SessionStable DEF SessionsKnowPrefixes
<1>5. StreamInv' /\ LandedInv'
  BY <1>1 DEF SessionsKnowPrefixes, StreamInv, OwnWritesExtend, LandedInv
<1>6. NetInv'
  BY <1>1, <1>2 DEF SessionsKnowPrefixes, NetInv, PublishOf, LastSequence
<1>7. ASSUME NEW r \in replies'
      PROVE  \/ r \in replies
             \/ m.from # Nobody /\ r.to = m.from /\ ~r.landed
  BY <1>1 DEF Answer
<1>8. ReplyInv'
  <2> SUFFICES ASSUME NEW r \in replies'
               PROVE  /\ phase[r.to] = "Awaiting"
                      /\ \A q \in net' : q.from # r.to
                      /\ r.landed =>
                            /\ r.seq = lastSeq[r.to] + 1
                            /\ lastSeq[r.to] \in 1 .. Len(stream)
                            /\ stream[lastSeq[r.to]] = pending[r.to]
                            /\ Knows(index[r.to], stream, lastSeq[r.to] - 1)
                            /\ rolling[r.to] = lastSeq[r.to] - 1
    BY <1>1, <1>2 DEF ReplyInv
  <2>1. CASE r \in replies
    BY <2>1, <1>1 DEF SessionsKnowPrefixes, ReplyInv
  <2>2. CASE m.from # Nobody /\ r.to = m.from /\ ~r.landed
    BY <2>2, <1>1 DEF SessionsKnowPrefixes, NetInv
  <2> QED
    BY <1>7, <2>1, <2>2
<1> QED
  BY <1>4, <1>5, <1>6, <1>8 DEF SessionsKnowPrefixes

(* An event at the end of the stream, of a session or foreign (by 0). *)
LEMMA AppendedInv ==
  ASSUME TypeOK, StreamInv, claim' = claim,
         NEW env \in EnvelopeHeader, NEW by \in 0 .. claim,
         stream' = Append(stream, env), author' = Append(author, by),
         by > 0 => /\ Extends(stream, Len(stream), env)
                   /\ Intact(stream, Len(stream), env.fiber_id)
                   /\ \A i \in 1 .. Len(author) : author[i] <= by
  PROVE  StreamInv'
<1> DEFINE n == Len(stream)
<1>1. /\ stream \in Seq(EnvelopeHeader) /\ n \in Nat
      /\ author \in Seq(Nat) /\ claim \in Nat
  BY DEF TypeOK
<1>2. /\ Len(author) = n
      /\ \A i \in 1 .. n : author[i] <= claim
      /\ \A i, j \in 1 .. n : i < j /\ author[j] > 0 => author[i] <= author[j]
  BY DEF StreamInv
<1>3. /\ Len(stream') = n + 1
      /\ \A i \in 1 .. n : stream'[i] = stream[i]
      /\ stream'[n + 1] = env
  BY <1>1
<1>4. /\ Len(author') = n + 1
      /\ \A i \in 1 .. n : author'[i] = author[i]
      /\ author'[n + 1] = by
  BY <1>1, <1>2
<1>5. \A i \in 1 .. n + 1 : i \in 1 .. n \/ i = n + 1
  BY <1>1
<1>6. \A i \in 1 .. Len(author') : author'[i] <= claim'
  BY <1>1, <1>2, <1>4, <1>5
<1>7. ASSUME NEW i \in 1 .. n + 1, NEW j \in 1 .. n + 1, i < j, author'[j] > 0
      PROVE  author'[i] <= author'[j]
  <2>1. i \in 1 .. n
    BY <1>1, <1>7
  <2>2. CASE j \in 1 .. n
    BY <2>1, <2>2, <1>2, <1>4, <1>7
  <2>3. CASE j = n + 1
    BY <2>1, <2>3, <1>2, <1>4, <1>7
  <2> QED
    BY <1>5, <2>2, <2>3
<1>8. ASSUME NEW k \in 1 .. n + 1, author'[k] > 0
      PROVE  /\ Extends(stream', k - 1, stream'[k])
             /\ Intact(stream', k - 1, stream'[k].fiber_id)
  <2>1. k - 1 \in Nat /\ \A i \in 1 .. k - 1 : stream'[i] = stream[i]
    BY <1>1, <1>3
  <2>2. /\ \A e : Extends(stream', k - 1, e) = Extends(stream, k - 1, e)
        /\ \A f : Intact(stream', k - 1, f) <=> Intact(stream, k - 1, f)
    BY <2>1, PrefixStable, KnowsStable
  <2>3. CASE k \in 1 .. n
    BY <2>2, <2>3, <1>3, <1>4, <1>8 DEF StreamInv, OwnWritesExtend
  <2>4. CASE k = n + 1
    <3>1. k - 1 = n /\ stream'[k] = env /\ author'[k] = by
      BY <2>4, <1>1, <1>3, <1>4
    <3> QED
      BY <3>1, <2>2, <1>8
  <2> QED
    BY <1>5, <2>3, <2>4
<1>9. OwnWritesExtend'
  BY <1>3, <1>8 DEF OwnWritesExtend
<1> QED
  BY <1>3, <1>4, <1>6, <1>7, <1>9 DEF StreamInv

(* The server accepts only at the end of the stream, where the publish was *)
(* shown to extend the line.                                               *)
LEMMA AcceptInv ==
  ASSUME SessionsKnowPrefixes, TypeOK', NEW m \in net, ServerAccepts(m)
  PROVE  SessionsKnowPrefixes'
<1> DEFINE n == Len(stream)
<1>1. /\ m.expected = LastSequence
      /\ stream' = Append(stream, m.env)
      /\ author' = Append(author, m.epoch)
      /\ net' = net \ {m}
      /\ UNCHANGED <<claim, landed>>
      /\ UNCHANGED <<session, scan>>
      /\ Answer(m, TRUE)
  BY DEF ServerAccepts
<1>2. UNCHANGED <<phase, epoch, lastSeq, index, rolling, pending, work, snap, pos>>
  BY <1>1 DEF session, scan
<1>3. /\ stream \in Seq(EnvelopeHeader) /\ n \in Nat
      /\ author \in Seq(Nat) /\ claim \in Nat
      /\ m.env \in EnvelopeHeader /\ m.epoch \in Nat
  BY DEF SessionsKnowPrefixes, TypeOK, Request
<1>4. /\ Len(stream') = n + 1
      /\ \A i \in 1 .. n : stream'[i] = stream[i]
      /\ stream'[n + 1] = m.env
  BY <1>1, <1>3
<1>5. Grows /\ \A t \in Session : SameSession(t)
  BY <1>2, <1>3, <1>4 DEF Grows, SameSession
<1>6. \A t \in Session : SessionInv(t)'
  BY <1>5, SessionStable DEF SessionsKnowPrefixes
<1>7. /\ Extends(stream, n, m.env)
      /\ Intact(stream, n, m.env.fiber_id)
      /\ m.epoch \in 1 .. claim
      /\ \A i \in 1 .. Len(author) : author[i] <= m.epoch
  BY <1>1 DEF SessionsKnowPrefixes, NetInv
<1>8. StreamInv'
  <2>1. m.epoch \in 0 .. claim
    BY <1>3, <1>7
  <2> QED
    BY <2>1, <1>1, <1>3, <1>7, AppendedInv DEF SessionsKnowPrefixes
<1>9. LandedInv'
  <2> SUFFICES ASSUME NEW v \in landed
               PROVE  v.count \in 1 .. Len(stream') /\ stream'[v.count] = v.env
    BY <1>1 DEF LandedInv
  <2>1. v.count \in 1 .. n /\ stream[v.count] = v.env
    BY DEF SessionsKnowPrefixes, LandedInv
  <2> QED
    BY <2>1, <1>3, <1>4
<1>10. NetInv'
  <2> SUFFICES ASSUME NEW q \in net, q # m
               PROVE  /\ q.expected <= LastSequence'
                      /\ q.epoch \in 1 .. claim
                      /\ q.expected # LastSequence'
                      /\ q.from # Nobody => phase[q.from] = "Awaiting"
                                               /\ q = PublishOf(q.from)
    BY <1>1, <1>2 DEF NetInv, PublishOf
  <2>1. /\ q.expected <= LastSequence /\ q.expected \in Nat
        /\ q.epoch \in 1 .. claim
        /\ q.from # Nobody => phase[q.from] = "Awaiting" /\ q = PublishOf(q.from)
    BY DEF SessionsKnowPrefixes, NetInv, TypeOK, Request
  <2>2. LastSequence = n + 1 /\ LastSequence' = n + 2
    BY <1>3, <1>4 DEF LastSequence
  <2> QED
    BY <2>1, <2>2, <1>3
<1>11. ReplyInv'
  <2>1. ASSUME NEW r \in replies'
        PROVE  \/ r \in replies
               \/ m.from # Nobody /\ r.to = m.from /\ r.seq = n + 2
    BY <1>1, <1>3 DEF Answer, LastSequence
  <2>2. ASSUME NEW j \in 0 .. n
        PROVE  \A ix : Knows(ix, stream', j) <=> Knows(ix, stream, j)
    <3>1. j \in Nat /\ \A i \in 1 .. j : stream'[i] = stream[i]
      BY <1>3, <1>4, <2>2
    <3> QED
      BY <3>1, KnowsStable
  <2> SUFFICES ASSUME NEW r \in replies'
               PROVE  /\ phase[r.to] = "Awaiting"
                      /\ \A q \in net' : q.from # r.to
                      /\ r.landed =>
                            /\ r.seq = lastSeq[r.to] + 1
                            /\ lastSeq[r.to] \in 1 .. Len(stream')
                            /\ stream'[lastSeq[r.to]] = pending[r.to]
                            /\ Knows(index[r.to], stream', lastSeq[r.to] - 1)
                            /\ rolling[r.to] = lastSeq[r.to] - 1
    BY <1>2 DEF ReplyInv
  <2>3. CASE r \in replies
    <3>1. /\ phase[r.to] = "Awaiting"
          /\ \A q \in net' : q.from # r.to
          /\ r.landed =>
                /\ r.seq = lastSeq[r.to] + 1
                /\ lastSeq[r.to] \in 1 .. n
                /\ stream[lastSeq[r.to]] = pending[r.to]
                /\ Knows(index[r.to], stream, lastSeq[r.to] - 1)
                /\ rolling[r.to] = lastSeq[r.to] - 1
      BY <2>3, <1>1 DEF SessionsKnowPrefixes, ReplyInv
    <3>2. ASSUME r.landed
          PROVE  /\ lastSeq[r.to] \in 1 .. Len(stream')
                 /\ stream'[lastSeq[r.to]] = pending[r.to]
                 /\ Knows(index[r.to], stream', lastSeq[r.to] - 1)
      <4>1. lastSeq[r.to] \in 1 .. n /\ lastSeq[r.to] - 1 \in 0 .. n
        BY <3>1, <3>2, <1>3
      <4> QED
        BY <4>1, <3>1, <3>2, <2>2, <1>3, <1>4
    <3> QED
      BY <3>1, <3>2
  <2>4. CASE m.from # Nobody /\ r.to = m.from /\ r.seq = n + 2
    <3> DEFINE s == m.from
    <3>1. /\ s \in Session /\ phase[s] = "Awaiting" /\ m = PublishOf(s)
          /\ \A q \in net : q.from = s => q = m
      BY <2>4 DEF SessionsKnowPrefixes, NetInv, TypeOK, Request
    <3>2. lastSeq[s] = n + 1 /\ pending[s] = m.env
      BY <3>1, <1>1 DEF PublishOf, LastSequence
    <3>3. /\ \E j \in 0 .. n : lastSeq[s] <= j + 1 /\ Knows(index[s], stream, j)
          /\ lastSeq[s] <= rolling[s] + 1
          /\ rolling[s] <= n
          /\ rolling[s] \in Nat
      <4>1. OpenInv(s) /\ phase[s] \in Open
        BY <3>1 DEF SessionsKnowPrefixes, SessionInv, Open, Phase
      <4> QED
        BY <3>1, <4>1 DEF OpenInv, SessionsKnowPrefixes, TypeOK
    <3>4. Knows(index[s], stream, n) /\ rolling[s] = n
      BY <3>2, <3>3, <1>3
    <3>5. Knows(index[s], stream', n)
      BY <3>4, <2>2, <1>3
    <3> HIDE DEF s
    <3>6. /\ r.seq = lastSeq[s] + 1
          /\ lastSeq[s] \in 1 .. Len(stream')
          /\ stream'[lastSeq[s]] = pending[s]
          /\ lastSeq[s] - 1 = n
      BY <2>4, <3>2, <1>3, <1>4
    <3>7. \A q \in net' : q.from # s
      BY <3>1, <1>1
    <3> QED
      BY <2>4, <3>1, <3>4, <3>5, <3>6, <3>7 DEF s
  <2> QED
    BY <2>1, <2>3, <2>4
<1> QED
  BY <1>6, <1>8, <1>9, <1>10, <1>11 DEF SessionsKnowPrefixes

(* A new claim or an outbound pointer is recorded. *)
LEMMA OperatorInv ==
  ASSUME SessionsKnowPrefixes, TypeOK', TakeOver \/ Retire
  PROVE  SessionsKnowPrefixes'
<1>1. /\ claim \in Nat /\ claim' \in Nat /\ claim <= claim'
      /\ UNCHANGED <<stream, net, replies, session, scan, history>>
  BY DEF TakeOver, Retire, SessionsKnowPrefixes, TypeOK
<1>2. /\ UNCHANGED <<phase, epoch, lastSeq, index, rolling, pending, work, snap, pos>>
      /\ UNCHANGED <<author, landed>>
  BY <1>1 DEF session, scan, history
<1>3. Grows /\ \A t \in Session : SameSession(t)
  BY <1>1, <1>2 DEF Grows, SameSession, SessionsKnowPrefixes, TypeOK
<1>4. \A t \in Session : SessionInv(t)'
  BY <1>3, SessionStable DEF SessionsKnowPrefixes
<1>5. StreamInv'
  <2>1. \A i \in 1 .. Len(author) : author[i] \in Nat /\ author[i] <= claim
    BY ElementOfSeq DEF SessionsKnowPrefixes, StreamInv, TypeOK
  <2>2. \A i \in 1 .. Len(author) : author[i] <= claim'
    BY <2>1, <1>1
  <2> QED
    BY <2>2, <1>1, <1>2 DEF SessionsKnowPrefixes, StreamInv, OwnWritesExtend
<1>6. NetInv'
  <2>1. \A m \in net : m.epoch \in 1 .. claim
    BY DEF SessionsKnowPrefixes, NetInv, TypeOK, Request
  <2>2. \A m \in net : m.epoch \in 1 .. claim'
    BY <2>1, <1>1
  <2> QED
    BY <2>2, <1>1, <1>2 DEF SessionsKnowPrefixes, NetInv, PublishOf, LastSequence
<1>7. ReplyInv' /\ LandedInv'
  BY <1>1, <1>2 DEF SessionsKnowPrefixes, ReplyInv, LandedInv
<1> QED
  BY <1>4, <1>5, <1>6, <1>7 DEF SessionsKnowPrefixes

(* Another client publishes to the data subject: whatever it writes, it    *)
(* only puts the publishes in flight out of date.                          *)
LEMMA ForeignInv ==
  ASSUME SessionsKnowPrefixes, TypeOK', NEW env \in EnvelopeHeader,
         ForeignPublish(env)
  PROVE  SessionsKnowPrefixes'
<1> DEFINE n == Len(stream)
<1>1. /\ stream' = Append(stream, env)
      /\ author' = Append(author, 0)
      /\ UNCHANGED <<claim, net, replies, landed>>
      /\ UNCHANGED <<session, scan>>
  BY DEF ForeignPublish
<1>2. UNCHANGED <<phase, epoch, lastSeq, index, rolling, pending, work, snap, pos>>
  BY <1>1 DEF session, scan
<1>3. stream \in Seq(EnvelopeHeader) /\ n \in Nat /\ claim \in Nat
  BY DEF SessionsKnowPrefixes, TypeOK
<1>4. /\ Len(stream') = n + 1
      /\ \A i \in 1 .. n : stream'[i] = stream[i]
  BY <1>1, <1>3
<1>5. Grows /\ \A t \in Session : SameSession(t)
  BY <1>2, <1>3, <1>4 DEF Grows, SameSession
<1>6. \A t \in Session : SessionInv(t)'
  BY <1>5, SessionStable DEF SessionsKnowPrefixes
<1>7. StreamInv'
  <2>1. 0 \in 0 .. claim /\ ~(0 > 0)
    BY <1>3
  <2> QED
    BY <2>1, <1>1, AppendedInv DEF SessionsKnowPrefixes
<1>8. LandedInv'
  <2>1. \A v \in landed : v.count \in 1 .. n /\ stream[v.count] = v.env
    BY DEF SessionsKnowPrefixes, LandedInv
  <2>2. \A i \in 1 .. n : i \in 1 .. Len(stream')
    BY <1>3, <1>4
  <2> QED
    BY <2>1, <2>2, <1>1, <1>4 DEF LandedInv
<1>9. NetInv'
  <2> SUFFICES ASSUME NEW m \in net
               PROVE  /\ m.expected <= LastSequence'
                      /\ m.epoch \in 1 .. claim
                      /\ m.expected # LastSequence'
                      /\ m.from # Nobody => phase[m.from] = "Awaiting"
                                               /\ m = PublishOf(m.from)
    BY <1>1, <1>2 DEF NetInv, PublishOf
  <2>1. /\ m.expected <= LastSequence /\ m.expected \in Nat
        /\ m.epoch \in 1 .. claim
        /\ m.from # Nobody => phase[m.from] = "Awaiting" /\ m = PublishOf(m.from)
    BY DEF SessionsKnowPrefixes, NetInv, TypeOK, Request
  <2>2. LastSequence = n + 1 /\ LastSequence' = n + 2
    BY <1>3, <1>4 DEF LastSequence
  <2> QED
    BY <2>1, <2>2, <1>3
<1>10. ReplyInv'
  <2> SUFFICES ASSUME NEW r \in replies
               PROVE  /\ phase[r.to] = "Awaiting"
                      /\ \A m \in net : m.from # r.to
                      /\ r.landed =>
                            /\ r.seq = lastSeq[r.to] + 1
                            /\ lastSeq[r.to] \in 1 .. Len(stream')
                            /\ stream'[lastSeq[r.to]] = pending[r.to]
                            /\ Knows(index[r.to], stream', lastSeq[r.to] - 1)
                            /\ rolling[r.to] = lastSeq[r.to] - 1
    BY <1>1, <1>2 DEF ReplyInv
  <2>1. /\ phase[r.to] = "Awaiting"
        /\ \A m \in net : m.from # r.to
        /\ r.landed =>
              /\ r.seq = lastSeq[r.to] + 1
              /\ lastSeq[r.to] \in 1 .. n
              /\ stream[lastSeq[r.to]] = pending[r.to]
              /\ Knows(index[r.to], stream, lastSeq[r.to] - 1)
              /\ rolling[r.to] = lastSeq[r.to] - 1
    BY DEF SessionsKnowPrefixes, ReplyInv
  <2>2. ASSUME r.landed
        PROVE  /\ lastSeq[r.to] \in 1 .. Len(stream')
               /\ stream'[lastSeq[r.to]] = pending[r.to]
               /\ Knows(index[r.to], stream', lastSeq[r.to] - 1)
    <3>1. /\ lastSeq[r.to] \in 1 .. n /\ lastSeq[r.to] - 1 \in Nat
          /\ \A i \in 1 .. lastSeq[r.to] - 1 : stream'[i] = stream[i]
      BY <2>1, <2>2, <1>3, <1>4
    <3>2. Knows(index[r.to], stream', lastSeq[r.to] - 1)
      <4>1. \A ix : Knows(ix, stream', lastSeq[r.to] - 1)
                       <=> Knows(ix, stream, lastSeq[r.to] - 1)
        BY <3>1, KnowsStable
      <4> QED
        BY <2>1, <2>2, <4>1
    <3> QED
      BY <2>1, <2>2, <3>1, <3>2, <1>3, <1>4
  <2> QED
    BY <2>1, <2>2
<1> QED
  BY <1>6, <1>7, <1>8, <1>9, <1>10 DEF SessionsKnowPrefixes

-----------------------------------------------------------------------------
(* The theorems about a stream that other clients write to as well. *)

(* The invariant holds before any session is opened: the stream has its    *)
(* header only.                                                            *)
LEMMA InvInit ==
  ASSUME Init
  PROVE  SessionsKnowPrefixes
<1>1. TypeOK
  BY TypeInit
<1>2. /\ Len(stream) = 0 /\ Len(author) = 0 /\ claim = 1
      /\ net = {} /\ replies = {} /\ landed = {}
      /\ \A s \in Session : phase[s] = "Closed"
  BY DEF Init
<1>3. StreamInv
  BY <1>2 DEF StreamInv, OwnWritesExtend
<1>4. \A s \in Session : SessionInv(s)
  BY <1>2 DEF SessionInv, ScanInv, OpenInv, AppendInv, Scanning, Open
<1>5. NetInv /\ ReplyInv /\ LandedInv
  BY <1>2 DEF NetInv, ReplyInv, LandedInv
<1> QED
  BY <1>1, <1>3, <1>4, <1>5 DEF SessionsKnowPrefixes

(* Every step keeps the invariant: one lemma above for each kind of step. *)
LEMMA InvStep ==
  ASSUME SessionsKnowPrefixes, [ForeignNext]_vars
  PROVE  SessionsKnowPrefixes'
<1>1. \A s \in Session : phase[s] \in Scanning => snap[s] <= LastSequence
  BY DEF SessionsKnowPrefixes, SessionInv, ScanInv, LastSequence, TypeOK
<1>2. CASE [Next]_vars
  <2>1. TypeOK /\ TypeOK'
    BY <1>1, <1>2, TypeStep DEF SessionsKnowPrefixes
  <2>2. ASSUME UNCHANGED vars PROVE SessionsKnowPrefixes'
    BY <2>1, <2>2
    DEF vars, server, session, scan, history, SessionsKnowPrefixes, StreamInv,
        OwnWritesExtend, SessionInv, ScanInv, OpenInv, AppendInv, NetInv, PublishOf,
        ReplyInv, LandedInv, LastSequence
  <2> QED
    BY <1>2, <2>1, <2>2, StepCases, QuietInv, ScanBeginInv, ScanFrameInv,
       ScanDoneInv, ForgetInv, BeginAppendInv, PublishBlockInv, AckLandedInv,
       UndeterminedInv, ReadAllFramesInv, AcceptInv, RejectInv, OperatorInv
<1>3. ASSUME NEW env \in ForeignEnvelope, ForeignPublish(env)
      PROVE  SessionsKnowPrefixes'
  <2>1. env \in EnvelopeHeader
    BY NatsAssumption
  <2>2. stream' \in Seq(EnvelopeHeader) /\ author' \in Seq(Nat)
    BY <1>3, <2>1, AppendProperties DEF ForeignPublish, SessionsKnowPrefixes, TypeOK
  <2>3. TypeOK'
    BY <1>3, <2>2 DEF ForeignPublish, SessionsKnowPrefixes, TypeOK, session, scan
  <2> QED
    BY <1>3, <2>1, <2>3, ForeignInv
<1> QED
  BY <1>2, <1>3 DEF ForeignNext

(* Every session, publish and reply knows what the inductive invariant     *)
(* says of the stream, at every step of any number of sessions, whatever   *)
(* another client publishes to the data subject.                           *)
THEOREM InvariantHolds == ForeignSpec => []SessionsKnowPrefixes
<1>1. Init => SessionsKnowPrefixes
  BY InvInit
<1>2. SessionsKnowPrefixes /\ [ForeignNext]_vars => SessionsKnowPrefixes'
  BY InvStep
<1> QED
  BY <1>1, <1>2, PTL DEF ForeignSpec

(* Every variable keeps its type. *)
THEOREM TypeCorrect == ForeignSpec => []TypeOK
<1>1. SessionsKnowPrefixes => TypeOK
  BY DEF SessionsKnowPrefixes
<1> QED
  BY <1>1, InvariantHolds, PTL

(* What a session writes extends the line, in a fiber without a break, in  *)
(* whatever state another client has left the stream (process_frame marks  *)
(* the fiber, validate_append refuses it, the server compares).            *)
THEOREM OwnWritesStaySound == ForeignSpec => []OwnWritesExtend
<1>1. SessionsKnowPrefixes => OwnWritesExtend
  BY DEF SessionsKnowPrefixes, StreamInv
<1> QED
  BY <1>1, InvariantHolds, PTL

(* A Landed verdict names the position at which the event stays, although  *)
(* foreign frames come between the frames a session counts.                *)
THEOREM LandedStaysDurable == ForeignSpec => []LandedIsDurable
<1>1. SessionsKnowPrefixes => LandedIsDurable
  BY DEF SessionsKnowPrefixes, LandedInv, LandedIsDurable
<1> QED
  BY <1>1, InvariantHolds, PTL

-----------------------------------------------------------------------------
(* The theorems about a stream that only sessions write to. *)

(* Every event is a session's. *)
AllOwn == \A i \in 1 .. Len(author) : author[i] > 0

(* Only the server's accepting a publish extends the stream. *)
LEMMA StreamStep ==
  ASSUME TypeOK, [Next]_vars, ~ \E m \in net : ServerAccepts(m)
  PROVE  stream' = stream /\ author' = author
  BY StepCases, ZenonT(30)
  DEF server, history, vars, OpenWrite, RecoverBegin, RecoverFrame,
      RecoverDone, RecoverRefused, Close, Forget, BeginAppend, PublishBlock,
      AuthorityLost, SequenceExhausted, AppendFails, AckLanded, AckConflict,
      AckTimeout, SyncFails, IterateBegin, IterateFrame, IterateBroken,
      IterateFails, IterateDone, ReadAllFrames, ReadBegin, ReadFrame,
      ReadRefused, ReadDone, ServerRejects, TakeOver, Retire

(* Without other clients, all events of the stream are sessions' own. *)
LEMMA OwnInvariant == Spec => [](SessionsKnowPrefixes /\ AllOwn)
<1>1. Init => SessionsKnowPrefixes /\ AllOwn
  <2>1. Init => Len(author) = 0
    BY DEF Init
  <2> QED
    BY <2>1, InvInit DEF AllOwn
<1>2. ASSUME SessionsKnowPrefixes, AllOwn, [Next]_vars
      PROVE  SessionsKnowPrefixes' /\ AllOwn'
  <2>1. SessionsKnowPrefixes'
    BY <1>2, InvStep DEF ForeignNext
  <2>2. ASSUME NEW m \in net, ServerAccepts(m) PROVE AllOwn'
    <3>1. author \in Seq(Nat) /\ m.epoch \in Nat /\ m.epoch > 0
      BY <1>2 DEF SessionsKnowPrefixes, TypeOK, Request, NetInv
    <3>2. author' = Append(author, m.epoch)
      BY <2>2 DEF ServerAccepts
    <3>3. \A i \in 1 .. Len(author') : i \in 1 .. Len(author) \/ i = Len(author) + 1
      BY <3>1, <3>2
    <3>4. /\ \A i \in 1 .. Len(author) : author'[i] = author[i]
          /\ author'[Len(author) + 1] = m.epoch
      BY <3>1, <3>2
    <3> QED
      BY <1>2, <3>1, <3>3, <3>4 DEF AllOwn
  <2>3. CASE ~ \E m \in net : ServerAccepts(m)
    <3>1. author' = author
      BY <1>2, <2>3, StreamStep DEF SessionsKnowPrefixes
    <3> QED
      BY <1>2, <2>1, <3>1 DEF AllOwn
  <2> QED
    BY <2>1, <2>2, <2>3
<1> QED
  BY <1>1, <1>2, PTL DEF Spec

(* A line of which every event was written by a session is well formed,    *)
(* and an index that knows a prefix is the index of that prefix.           *)
LEMMA OwnLine ==
  ASSUME SessionsKnowPrefixes, AllOwn
  PROVE  /\ WellFormed(stream)
         /\ \A ix \in Index, n \in 0 .. Len(stream) :
               Knows(ix, stream, n) => ix = IndexOf(stream, n)
<1>1. WellFormed(stream)
  BY DEF SessionsKnowPrefixes, StreamInv, AllOwn, OwnWritesExtend, WellFormed
<1>2. stream \in Seq(EnvelopeHeader)
  BY DEF SessionsKnowPrefixes, TypeOK
<1> QED
  BY <1>1, <1>2, KnowsIsIndex

(* The data stream is one well-formed line, whatever the order in which    *)
(* publishes of open, timed-out, closed and superseded sessions arrive.    *)
THEOREM StreamStaysWellFormed == Spec => []StreamWellFormed
<1>1. SessionsKnowPrefixes /\ AllOwn => StreamWellFormed
  BY OwnLine DEF StreamWellFormed
<1> QED
  BY <1>1, OwnInvariant, PTL

(* The writers' epochs never decrease along the stream. *)
THEOREM EpochsStayOrdered == Spec => []EpochOrder
<1>1. SessionsKnowPrefixes /\ AllOwn => EpochOrder
  BY DEF SessionsKnowPrefixes, StreamInv, AllOwn, EpochOrder
<1> QED
  BY <1>1, OwnInvariant, PTL

(* The index of an open session is the index of a prefix of the stream     *)
(* that reaches the sequence the session will expect.                      *)
THEOREM IndexStaysFaithful == Spec => []IndexFaithful
<1>1. ASSUME SessionsKnowPrefixes, AllOwn PROVE IndexFaithful
  <2> SUFFICES ASSUME NEW s \in Session, phase[s] \in Open
               PROVE  \E n \in 0 .. Len(stream) :
                         lastSeq[s] <= n + 1 /\ index[s] = IndexOf(stream, n)
    BY DEF IndexFaithful
  <2>1. PICK n \in 0 .. Len(stream) : lastSeq[s] <= n + 1 /\ Knows(index[s], stream, n)
    BY <1>1 DEF SessionsKnowPrefixes, SessionInv, OpenInv
  <2>2. index[s] \in Index
    BY <1>1 DEF SessionsKnowPrefixes, TypeOK
  <2> QED
    BY <1>1, <2>1, <2>2, OwnLine
<1> QED
  BY <1>1, OwnInvariant, PTL

(* No scan of what the sessions wrote is refused: what can be written can  *)
(* be opened and iterated again.                                           *)
THEOREM ScansAreNeverRefused == Spec => []ScanNeverRefused
<1>1. ASSUME SessionsKnowPrefixes, AllOwn PROVE ScanNeverRefused
  <2> SUFFICES ASSUME NEW s \in Session, phase[s] \in Scanning, ScanMore(s)
               PROVE  ValidateAppend(work[s], ScanAt(s)) = "Ok"
    BY DEF ScanNeverRefused
  <2>1. /\ pos[s] \in Nat
        /\ stream \in Seq(EnvelopeHeader)
        /\ Len(stream) \in Nat
        /\ snap[s] \in 1 .. Len(stream) + 1
        /\ pos[s] + 1 < snap[s]
        /\ work[s] \in Index
        /\ Knows(work[s], stream, pos[s])
    BY <1>1 DEF SessionsKnowPrefixes, TypeOK, SessionInv, ScanInv, ScanMore, LastSequence
  <2>2. /\ pos[s] \in 0 .. Len(stream) - 1 /\ pos[s] \in 0 .. Len(stream)
        /\ pos[s] + 1 \in 1 .. Len(stream) /\ (pos[s] + 1) - 1 = pos[s]
    BY <2>1
  <2>3. WellFormed(stream) /\ work[s] = IndexOf(stream, pos[s])
    BY <1>1, <2>1, <2>2, OwnLine
  <2>4. Extends(stream, pos[s], stream[pos[s] + 1])
    BY <2>2, <2>3 DEF WellFormed
  <2> QED
    BY <2>1, <2>2, <2>3, <2>4, ProcessStep DEF ScanAt
<1> QED
  BY <1>1, OwnInvariant, PTL

(* The instance of the abstract dragline counts as the module itself does. *)
LEMMA LineCardinality ==
  ASSUME NEW S
  PROVE  Line!Cardinality(S) = Cardinality(S)
<1>1. \A T : Line!IsFiniteSet(T) <=> IsFiniteSet(T)
  BY DEF Line!IsFiniteSet, IsFiniteSet
<1> QED
  BY <1>1 DEF Line!Cardinality, Cardinality

(* The sessions, the network and the server together implement the         *)
(* abstract dragline: the stream only grows, by events that extend it.     *)
THEOREM ImplementsDragline == Spec => LineSpec
<1>1. Init => Line!Init
  BY DEF Init, Line!Init
<1>2. ASSUME SessionsKnowPrefixes, [Next]_vars
      PROVE  [Line!Next]_stream
  <2>1. ASSUME NEW m \in net, ServerAccepts(m) PROVE Line!Next
    <3>1. m.env \in EnvelopeHeader /\ Extends(stream, Len(stream), m.env)
      BY <1>2, <2>1
      DEF ServerAccepts, SessionsKnowPrefixes, NetInv, TypeOK, Request
    <3>2. stream' = Append(stream, m.env)
      BY <2>1 DEF ServerAccepts
    <3>3. Line!EnvelopeHeader = EnvelopeHeader
      BY DEF Line!EnvelopeHeader, EnvelopeHeader
    <3>4. /\ \A f : Line!Positions(stream, Len(stream), f)
                      = Positions(stream, Len(stream), f)
          /\ Line!IdsIn(stream, Len(stream)) = IdsIn(stream, Len(stream))
          /\ \A S : Line!Latest(S) = Latest(S)
          /\ \A env : Line!IsGenesis(env) <=> IsGenesis(env)
      BY DEF Line!Positions, Positions, Line!IdsIn, IdsIn, Line!Latest, Latest,
             Line!IsGenesis, IsGenesis
    <3>5. Line!FibersIn(stream, Len(stream)) = FibersIn(stream, Len(stream))
      BY <3>4 DEF Line!FibersIn, FibersIn
    <3>6. Line!Extends(stream, Len(stream), m.env)
      BY <3>1, <3>4, <3>5, LineCardinality DEF Line!Extends, Extends
    <3> QED
      BY <3>1, <3>2, <3>3, <3>6 DEF Line!Next, Line!Commit
  <2>2. ASSUME ~ \E m \in net : ServerAccepts(m) PROVE stream' = stream
    BY <1>2, <2>2, StreamStep DEF SessionsKnowPrefixes
  <2> QED
    BY <2>1, <2>2
<1> QED
  BY <1>1, <1>2, OwnInvariant, PTL DEF Spec, LineSpec, Line!Spec
=============================================================================
