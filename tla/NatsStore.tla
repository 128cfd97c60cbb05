----------------------------- MODULE NatsStore -----------------------------
(***************************************************************************)
(* Writer sessions of one artefact kept in NATS JetStream                  *)
(* (crates/pardosa-nats/src/adapter.rs under the Store pipeline of         *)
(* crates/pardosa/src/store/pipeline.rs).                                  *)
(*                                                                         *)
(* Any number of sessions may be open at once: the adapter takes no        *)
(* exclusion.  What keeps them apart is the epoch each checks in the meta  *)
(* stream before it publishes, and the expected last sequence the server   *)
(* compares when the publish arrives.  Between the two the publish is in   *)
(* flight, and may arrive after its session has timed out, been closed or  *)
(* been superseded, or not at all.                                         *)
(*                                                                         *)
(* The artefact is already created: the data stream holds the container    *)
(* header at sequence 1, so event i of the model has sequence i + 1.       *)
(***************************************************************************)
EXTENDS LineIndex

CONSTANTS
    Session,          \* writer sessions (the values of NatsWriterSession)
    Nobody,           \* sender of a publish whose session no longer listens
    RawEnvelope,      \* envelopes an application hands to append_envelope
    ForeignEnvelope,  \* envelopes some other client publishes
    BulkRead,         \* the bulk reads the application calls on a writer
    MaxInFlight,      \* bound: publishes in flight at once
    MaxForeign,       \* bound: length up to which foreign frames are added
    MaxSequence,      \* u64::MAX, the last sequence that can be expected
    MaxEpoch          \* bound: epochs recorded

ASSUME NatsAssumption ==
    /\ Nobody \notin Session
    /\ RawEnvelope \subseteq EnvelopeHeader
    /\ ForeignEnvelope \subseteq EnvelopeHeader
    /\ BulkRead \subseteq {"Frames", "Iterating", "Reading", "ReadingForMigration"}
    /\ MaxInFlight \in Nat
    /\ MaxForeign \in Nat
    /\ MaxSequence \in Nat
    /\ MaxEpoch \in Nat \ {0}

VARIABLES
    claim,      \* epoch of the latest ownership claim in the meta stream
    retired,    \* an outbound pointer is recorded in the meta stream
    stream,     \* the envelopes of the data stream, after its header
    net,        \* publishes in flight to the server
    replies     \* publish acknowledgements in flight to sessions

VARIABLES
    phase,      \* which call a session is in
    epoch,      \* carried_epoch
    lastSeq,    \* last_data_seq
    index,      \* fiber_index
    rolling,    \* rolling_commitment.frame_count()
    uncertain,  \* the engine or the store is in the uncertain state
    cause,      \* broken_reader_cause
    pending,    \* the envelope of the append in progress
    work,       \* the index a scan is building
    snap,       \* the last sequence a scan will read
    pos         \* the frames a scan has read

(* History: who wrote each event, and the Landed verdicts given. *)
VARIABLES author, landed

server == <<claim, retired, stream, net, replies>>
scan == <<work, snap, pos>>
session == <<phase, epoch, lastSeq, index, rolling, uncertain, cause, pending>>
history == <<author, landed>>
vars == <<server, session, scan, history>>

Idle == {"Closed", "Ready"}
Scanning == {"Recovering", "Iterating", "Reading", "ReadingForMigration"}
Phase == Idle \cup Scanning \cup {"Opening", "Appending", "Awaiting"}
Open == Phase \ {"Closed", "Opening", "Recovering"}

Request ==
    [from     : Session \cup {Nobody},
     expected : Nat,
     env      : EnvelopeHeader,
     epoch    : Nat]

Reply == [to : Session, landed : BOOLEAN, seq : Nat]

Verdict == [env : EnvelopeHeader, count : Nat]

LastSequence == Len(stream) + 1

Init ==
    /\ claim = 1
    /\ retired = FALSE
    /\ stream = << >>
    /\ net = {}
    /\ replies = {}
    /\ phase = [s \in Session |-> "Closed"]
    /\ epoch = [s \in Session |-> 0]
    /\ lastSeq = [s \in Session |-> 0]
    /\ index = [s \in Session |-> NewIndex]
    /\ rolling = [s \in Session |-> 0]
    /\ uncertain = [s \in Session |-> FALSE]
    /\ cause = [s \in Session |-> "None"]
    /\ pending = [s \in Session |-> NoEnvelope]
    /\ work = [s \in Session |-> NewIndex]
    /\ snap = [s \in Session |-> 0]
    /\ pos = [s \in Session |-> 0]
    /\ author = << >>
    /\ landed = {}

Goto(s, p) == phase' = [phase EXCEPT ![s] = p]

MarkUncertain(s) == uncertain' = [uncertain EXCEPT ![s] = TRUE]

(* Mutant of HasAuthority: the epoch is not compared. *)
AnyEpoch(s) == ~retired

(* NatsEngine::check_authority, on the meta stream as it is read now. *)
HasAuthority(s) == ~retired /\ claim = epoch[s]

-----------------------------------------------------------------------------
(* A scan reads the frames up to the last sequence it found when it began. *)

ScanBegin(s) ==
    /\ work' = [work EXCEPT ![s] = NewIndex]
    /\ snap' = [snap EXCEPT ![s] = LastSequence]
    /\ pos' = [pos EXCEPT ![s] = 0]

ScanAt(s) == stream[pos[s] + 1]

ScanMore(s) == pos[s] + 1 < snap[s]

ScanTake(s, next) ==
    /\ work' = [work EXCEPT ![s] = next]
    /\ pos' = [pos EXCEPT ![s] = @ + 1]
    /\ snap' = snap

(* Mutants of ScanAdopt: the index, or the frame count, is left as it was. *)
KeepIndex(s) ==
    /\ lastSeq' = [lastSeq EXCEPT ![s] = snap[s]]
    /\ rolling' = [rolling EXCEPT ![s] = pos[s]]
    /\ index' = index

KeepCount(s) ==
    /\ lastSeq' = [lastSeq EXCEPT ![s] = snap[s]]
    /\ index' = [index EXCEPT ![s] = work[s]]
    /\ rolling' = rolling

(* The session takes over what a completed scan found. *)
ScanAdopt(s) ==
    /\ index' = [index EXCEPT ![s] = work[s]]
    /\ lastSeq' = [lastSeq EXCEPT ![s] = snap[s]]
    /\ rolling' = [rolling EXCEPT ![s] = pos[s]]

ScanEnd(s) ==
    /\ work' = [work EXCEPT ![s] = NewIndex]
    /\ snap' = [snap EXCEPT ![s] = 0]
    /\ pos' = [pos EXCEPT ![s] = 0]

-----------------------------------------------------------------------------
(* Opening a writer session. *)

(* open_write admits the carried epoch the meta stream records. *)
OpenWrite(s) ==
    /\ phase[s] = "Closed"
    /\ ~retired
    /\ Goto(s, "Opening")
    /\ epoch' = [epoch EXCEPT ![s] = claim]
    /\ UNCHANGED <<server, lastSeq, index, rolling, uncertain, cause, pending,
                   scan, history>>

(* Store::open_writer: recover_frames takes its own view of the stream. *)
RecoverBegin(s) ==
    /\ phase[s] = "Opening"
    /\ Goto(s, "Recovering")
    /\ ScanBegin(s)
    /\ UNCHANGED <<server, epoch, lastSeq, index, rolling, uncertain, cause,
                   pending, history>>

RecoverFrame(s) ==
    /\ phase[s] = "Recovering"
    /\ ScanMore(s)
    /\ ProcessFrameAdmits(work[s], ScanAt(s))
    /\ ScanTake(s, ProcessFrame(work[s], ScanAt(s)))
    /\ UNCHANGED <<server, session, history>>

RecoverDone(s) ==
    /\ phase[s] = "Recovering"
    /\ ~ScanMore(s)
    /\ Goto(s, "Ready")
    /\ ScanAdopt(s)
    /\ ScanEnd(s)
    /\ UNCHANGED <<server, epoch, uncertain, cause, pending, history>>

(* A publish whose session is gone stays in flight; its reply does not. *)
Orphan(s) ==
    /\ net' = {IF m.from = s THEN [m EXCEPT !.from = Nobody] ELSE m : m \in net}
    /\ replies' = {r \in replies : r.to # s}

(* The session value is dropped, or its process ends, in whatever call. *)
Forget(s) ==
    /\ Goto(s, "Closed")
    /\ epoch' = [epoch EXCEPT ![s] = 0]
    /\ lastSeq' = [lastSeq EXCEPT ![s] = 0]
    /\ index' = [index EXCEPT ![s] = NewIndex]
    /\ rolling' = [rolling EXCEPT ![s] = 0]
    /\ uncertain' = [uncertain EXCEPT ![s] = FALSE]
    /\ cause' = [cause EXCEPT ![s] = "None"]
    /\ pending' = [pending EXCEPT ![s] = NoEnvelope]
    /\ ScanEnd(s)
    /\ Orphan(s)
    /\ UNCHANGED <<claim, retired, stream, history>>

(* A frame that recovery cannot admit: open_write returns the failure. *)
RecoverRefused(s) ==
    /\ phase[s] = "Recovering"
    /\ ScanMore(s)
    /\ ~ProcessFrameAdmits(work[s], ScanAt(s))
    /\ Forget(s)

Close(s) ==
    /\ phase[s] # "Closed"
    /\ Forget(s)

-----------------------------------------------------------------------------
(* Appending. *)

InFlight == Cardinality(net) + Cardinality({s \in Session : phase[s] = "Appending"})

(* Store::append_frame_verdict up to the call of append_block. *)
BeginAppend(s, env) ==
    /\ InFlight < MaxInFlight
    /\ phase[s] = "Ready"
    /\ ~uncertain[s]
    /\ HasAuthority(s)
    /\ ValidateAppend(index[s], env) = "Ok"
    /\ Goto(s, "Appending")
    /\ pending' = [pending EXCEPT ![s] = env]
    /\ UNCHANGED <<server, epoch, lastSeq, index, rolling, uncertain, cause,
                   scan, history>>

(* Store::append_to_fiber, detach_fiber and rescue_fiber: the envelope is  *)
(* minted by a handle on the session's own index.                          *)
Mint(s, f, minted) ==
    /\ cause[s] = "None"
    /\ FiberAdmits(index[s], f)
    /\ minted.ok
    /\ BeginAppend(s, minted.env)

AppendToFiber(s, f, id) == Mint(s, f, HandleAppend(Fiber(index[s], f), id))

DetachFiber(s, f, id) == Mint(s, f, HandleDetach(Fiber(index[s], f), id))

RescueFiber(s, f, id) == Mint(s, f, HandleRescue(Fiber(index[s], f), id))

(* Store::append_envelope_verdict with an envelope of the application's. *)
AppendEnvelope(s, env) == BeginAppend(s, env)

(* Mutant of ExpectedSequence: the stream is asked for its last sequence. *)
FreshSequence(s) == LastSequence

(* The Nats-Expected-Last-Subject-Sequence of a publish; the data stream   *)
(* has one subject.                                                        *)
ExpectedSequence(s) == lastSeq[s]

(* NatsEngine::append_block: authority is checked again and the block is   *)
(* published with the sequence the session last saw.                       *)
PublishBlock(s) ==
    /\ phase[s] = "Appending"
    /\ HasAuthority(s)
    /\ lastSeq[s] # MaxSequence
    /\ Goto(s, "Awaiting")
    /\ net' = net \cup {[from     |-> s,
                         expected |-> ExpectedSequence(s),
                         env      |-> pending[s],
                         epoch    |-> epoch[s]]}
    /\ UNCHANGED <<claim, retired, stream, replies, epoch, lastSeq, index,
                   rolling, uncertain, cause, pending, scan, history>>

EndAppend(s) ==
    /\ Goto(s, "Ready")
    /\ pending' = [pending EXCEPT ![s] = NoEnvelope]

(* append_block finds the epoch superseded or the artefact retired. *)
AuthorityLost(s) ==
    /\ phase[s] = "Appending"
    /\ ~HasAuthority(s)
    /\ MarkUncertain(s)
    /\ EndAppend(s)
    /\ UNCHANGED <<server, epoch, lastSeq, index, rolling, cause, scan, history>>

(* append_block refuses before it publishes when no sequence is left. *)
SequenceExhausted(s) ==
    /\ phase[s] = "Appending"
    /\ HasAuthority(s)
    /\ lastSeq[s] = MaxSequence
    /\ EndAppend(s)
    /\ UNCHANGED <<server, epoch, lastSeq, index, rolling, uncertain, cause,
                   scan, history>>

(* The meta stream cannot be read or the publish cannot be initiated:      *)
(* nothing was sent.                                                       *)
AppendFails(s) ==
    /\ phase[s] = "Appending"
    /\ EndAppend(s)
    /\ UNCHANGED <<server, epoch, lastSeq, index, rolling, uncertain, cause,
                   scan, history>>

-----------------------------------------------------------------------------
(* The JetStream server compares the expected last sequence on arrival. *)

Answer(m, ok) ==
    replies' = IF m.from = Nobody
               THEN replies
               ELSE replies \cup {[to     |-> m.from,
                                   landed |-> ok,
                                   seq    |-> IF ok THEN LastSequence + 1 ELSE 0]}

ServerAccepts(m) ==
    /\ m.expected = LastSequence
    /\ stream' = Append(stream, m.env)
    /\ author' = Append(author, m.epoch)
    /\ net' = net \ {m}
    /\ Answer(m, TRUE)
    /\ UNCHANGED <<claim, retired, session, scan, landed>>

ServerRejects(m) ==
    /\ m.expected # LastSequence
    /\ net' = net \ {m}
    /\ Answer(m, FALSE)
    /\ UNCHANGED <<claim, retired, stream, session, scan, history>>

-----------------------------------------------------------------------------
(* The end of append_block and what the Store does with its verdict. *)

(* Mutant of Unanswered: the acknowledgement is not consumed. *)
KeepReply(s) == replies' = replies

Unanswered(s) == replies' = {r \in replies : r.to # s}

AckLanded(s) ==
    /\ phase[s] = "Awaiting"
    /\ \E r \in replies :
          /\ r.to = s
          /\ r.landed
          /\ lastSeq' = [lastSeq EXCEPT ![s] = r.seq]
    /\ Unanswered(s)
    /\ index' = [index EXCEPT ![s] = CommitEnvelope(@, pending[s])]
    /\ rolling' = [rolling EXCEPT ![s] = @ + 1]
    /\ landed' = landed \cup {[env |-> pending[s], count |-> rolling[s] + 1]}
    /\ EndAppend(s)
    /\ UNCHANGED <<claim, retired, stream, net, epoch, uncertain, cause, scan,
                   author>>

(* WrongLastSequence: ConcurrencyConflict, and the session is uncertain. *)
AckConflict(s) ==
    /\ phase[s] = "Awaiting"
    /\ \E r \in replies : r.to = s /\ ~r.landed
    /\ Unanswered(s)
    /\ MarkUncertain(s)
    /\ EndAppend(s)
    /\ UNCHANGED <<claim, retired, stream, net, epoch, lastSeq, index, rolling,
                   cause, scan, history>>

(* Mutant of AckTimeout: the timer does not run while the publish is in    *)
(* flight.                                                                 *)
WaitForServer(s) ==
    /\ phase[s] = "Awaiting"
    /\ \A m \in net : m.from # s
    /\ Orphan(s)
    /\ MarkUncertain(s)
    /\ EndAppend(s)
    /\ UNCHANGED <<claim, retired, stream, epoch, lastSeq, index, rolling, cause,
                   scan, history>>

(* The publish timeout, or any other failure of the acknowledgement. *)
AckTimeout(s) ==
    /\ phase[s] = "Awaiting"
    /\ Orphan(s)
    /\ MarkUncertain(s)
    /\ EndAppend(s)
    /\ UNCHANGED <<claim, retired, stream, epoch, lastSeq, index, rolling, cause,
                   scan, history>>

(* Store::sync whose flush fails. *)
SyncFails(s) ==
    /\ phase[s] = "Ready"
    /\ ~uncertain[s]
    /\ HasAuthority(s)
    /\ MarkUncertain(s)
    /\ UNCHANGED <<server, phase, epoch, lastSeq, index, rolling, cause, pending,
                   scan, history>>

-----------------------------------------------------------------------------
(* Store::for_each_envelope on a writer session: it also moves the         *)
(* sequence the session will expect.                                       *)

IterateBegin(s) ==
    /\ "Iterating" \in BulkRead
    /\ phase[s] = "Ready"
    /\ cause[s] = "None"
    /\ ~HasBrokenFibers(index[s])
    /\ Goto(s, "Iterating")
    /\ ScanBegin(s)
    /\ UNCHANGED <<server, epoch, lastSeq, index, rolling, uncertain, cause,
                   pending, history>>

IterateFrame(s) ==
    /\ phase[s] = "Iterating"
    /\ ScanMore(s)
    /\ ValidateAppend(work[s], ScanAt(s)) = "Ok"
    /\ ScanTake(s, CommitEnvelope(work[s], ScanAt(s)))
    /\ UNCHANGED <<server, session, history>>

IterateBroken(s) ==
    /\ phase[s] = "Iterating"
    /\ ScanMore(s)
    /\ ValidateAppend(work[s], ScanAt(s)) # "Ok"
    /\ cause' = [cause EXCEPT ![s] = ValidateAppend(work[s], ScanAt(s))]
    /\ Goto(s, "Ready")
    /\ ScanEnd(s)
    /\ UNCHANGED <<server, epoch, lastSeq, index, rolling, uncertain, pending,
                   history>>

(* The callback or the transport fails: the session is as it was before. *)
IterateFails(s) ==
    /\ phase[s] = "Iterating"
    /\ Goto(s, "Ready")
    /\ ScanEnd(s)
    /\ UNCHANGED <<server, epoch, lastSeq, index, rolling, uncertain, cause,
                   pending, history>>

IterateDone(s) ==
    /\ phase[s] = "Iterating"
    /\ ~ScanMore(s)
    /\ Goto(s, "Ready")
    /\ ScanAdopt(s)
    /\ cause' = [cause EXCEPT ![s] = "None"]
    /\ ScanEnd(s)
    /\ UNCHANGED <<server, epoch, uncertain, pending, history>>

-----------------------------------------------------------------------------
(* Store::read_all_frames and read_all_envelopes: these leave the expected *)
(* sequence alone.                                                         *)

ReadAllFrames(s) ==
    /\ "Frames" \in BulkRead
    /\ phase[s] = "Ready"
    /\ rolling' = [rolling EXCEPT ![s] = Len(stream)]
    /\ UNCHANGED <<server, phase, epoch, lastSeq, index, uncertain, cause,
                   pending, scan, history>>

ReadBegin(s, reading) ==
    /\ phase[s] = "Ready"
    /\ reading = "Reading" => cause[s] = "None"
    /\ Goto(s, reading)
    /\ rolling' = [rolling EXCEPT ![s] = Len(stream)]
    /\ ScanBegin(s)
    /\ UNCHANGED <<server, epoch, lastSeq, index, uncertain, cause, pending,
                   history>>

ReadFrame(s) ==
    /\ phase[s] \in {"Reading", "ReadingForMigration"}
    /\ ScanMore(s)
    /\ ProcessFrameAdmits(work[s], ScanAt(s))
    /\ ScanTake(s, ProcessFrame(work[s], ScanAt(s)))
    /\ UNCHANGED <<server, session, history>>

ReadRefused(s) ==
    /\ phase[s] \in {"Reading", "ReadingForMigration"}
    /\ ScanMore(s)
    /\ ~ProcessFrameAdmits(work[s], ScanAt(s))
    /\ Goto(s, "Ready")
    /\ ScanEnd(s)
    /\ UNCHANGED <<server, epoch, lastSeq, index, rolling, uncertain, cause,
                   pending, history>>

ReadDone(s) ==
    /\ phase[s] \in {"Reading", "ReadingForMigration"}
    /\ ~ScanMore(s)
    /\ Goto(s, "Ready")
    /\ index' = [index EXCEPT ![s] = work[s]]
    /\ cause' = [cause EXCEPT ![s] =
                    IF phase[s] = "Reading" /\ HasBrokenFibers(work[s])
                    THEN "PrecursorChainBroken" ELSE @]
    /\ ScanEnd(s)
    /\ UNCHANGED <<server, epoch, lastSeq, rolling, uncertain, pending, history>>

-----------------------------------------------------------------------------
(* The surroundings: an operator records a new claim or an outbound        *)
(* pointer; another client publishes to the data subject.                  *)

TakeOver ==
    /\ claim < MaxEpoch
    /\ claim' = claim + 1
    /\ UNCHANGED <<retired, stream, net, replies, session, scan, history>>

Retire ==
    /\ ~retired
    /\ retired' = TRUE
    /\ UNCHANGED <<claim, stream, net, replies, session, scan, history>>

ForeignPublish(env) ==
    /\ Len(stream) < MaxForeign
    /\ stream' = Append(stream, env)
    /\ author' = Append(author, 0)
    /\ UNCHANGED <<claim, retired, net, replies, session, scan, landed>>

-----------------------------------------------------------------------------

(* The steps a session's own thread takes inside a call. *)
Proceed(s) ==
    \/ RecoverBegin(s) \/ RecoverFrame(s) \/ RecoverDone(s) \/ RecoverRefused(s)
    \/ PublishBlock(s) \/ AuthorityLost(s) \/ SequenceExhausted(s)
    \/ AckLanded(s) \/ AckConflict(s) \/ AckTimeout(s)
    \/ IterateFrame(s) \/ IterateBroken(s) \/ IterateDone(s)
    \/ ReadFrame(s) \/ ReadRefused(s) \/ ReadDone(s)

(* The calls an application may make. *)
Call(s) ==
    \/ OpenWrite(s) \/ Close(s) \/ SyncFails(s)
    \/ \E f \in FiberId, id \in EventId :
          AppendToFiber(s, f, id) \/ DetachFiber(s, f, id) \/ RescueFiber(s, f, id)
    \/ \E env \in RawEnvelope : AppendEnvelope(s, env)
    \/ IterateBegin(s) \/ ReadAllFrames(s)
    \/ \E r \in BulkRead \cap {"Reading", "ReadingForMigration"} : ReadBegin(s, r)

(* Transport and callback failures inside a call. *)
Fail(s) == AppendFails(s) \/ IterateFails(s)

Next ==
    \/ \E s \in Session : Proceed(s) \/ Call(s) \/ Fail(s)
    \/ \E m \in net : ServerAccepts(m) \/ ServerRejects(m)
    \/ TakeOver
    \/ Retire

Spec == Init /\ [][Next]_vars

(* A session's thread runs, and the publish timer fires. *)
FairSpec == Spec /\ \A s \in Session : WF_vars(Proceed(s))

(* The data subject is also written by a client that is not pardosa. *)
ForeignNext == Next \/ \E env \in ForeignEnvelope : ForeignPublish(env)

ForeignSpec == Init /\ [][ForeignNext]_vars

-----------------------------------------------------------------------------
(* Properties *)

(* Every variable has its type. *)
TypeOK ==
    /\ claim \in Nat
    /\ retired \in BOOLEAN
    /\ stream \in Seq(EnvelopeHeader)
    /\ net \subseteq Request
    /\ replies \subseteq Reply
    /\ phase \in [Session -> Phase]
    /\ epoch \in [Session -> Nat]
    /\ lastSeq \in [Session -> Nat]
    /\ index \in [Session -> Index]
    /\ rolling \in [Session -> Nat]
    /\ uncertain \in [Session -> BOOLEAN]
    /\ cause \in [Session -> FailureCondition \cup {"None"}]
    /\ pending \in [Session -> EnvelopeHeader]
    /\ work \in [Session -> Index]
    /\ snap \in [Session -> Nat]
    /\ pos \in [Session -> Nat]
    /\ author \in Seq(Nat)
    /\ landed \subseteq Verdict

(* However many sessions write, and whenever their publishes arrive, the   *)
(* data stream is one well-formed line: no identifier twice, one genesis   *)
(* per fiber, every event naming its fiber's latest event by identifier    *)
(* and commitment (append_block's expected sequence, validate_append).     *)
StreamWellFormed == WellFormed(stream)

(* The index of an open session is the index of a prefix of the stream     *)
(* that reaches at least the sequence the session will expect, through     *)
(* every mix of appends, iterations and bulk reads.                        *)
IndexFaithful ==
    \A s \in Session : phase[s] \in Open =>
        \E n \in 0 .. Len(stream) :
            lastSeq[s] <= n + 1 /\ index[s] = IndexOf(stream, n)

(* No scan of what the sessions wrote meets a broken link or a limit: an   *)
(* artefact its writers could write can be opened and iterated again.      *)
ScanNeverRefused ==
    \A s \in Session : phase[s] \in Scanning /\ ScanMore(s) =>
        ValidateAppend(work[s], ScanAt(s)) = "Ok"

(* A Landed verdict is never taken back, and the frame count it reports is *)
(* the position of the event, although bulk reads move that count on their *)
(* own (append_frame_verdict, read_all_frames).                            *)
LandedIsDurable ==
    \A v \in landed : v.count <= Len(stream) /\ stream[v.count] = v.env

(* A write of a superseded epoch may still land, but never after a write   *)
(* of a later epoch: the epochs of the writers never decrease along the    *)
(* stream (check_authority before each publish, expected sequence).        *)
EpochOrder ==
    \A i, j \in 1 .. Len(author) : i < j => author[i] <= author[j]

(* Every call returns: a scan ends although other sessions keep extending  *)
(* the stream, and a publish is answered or times out.                     *)
EveryCallReturns ==
    \A s \in Session : phase[s] \notin Idle ~> phase[s] \in Idle

(* With foreign frames in the stream: what a session writes still extends  *)
(* the line and its fiber has no broken event (process_frame marks the     *)
(* fiber, validate_append refuses it).                                     *)
OwnWritesExtend ==
    \A k \in 1 .. Len(stream) : author[k] > 0 =>
        /\ Extends(stream, k - 1, stream[k])
        /\ Intact(stream, k - 1, stream[k].fiber_id)

(* C5.5 and C5.7, that a stale epoch is rejected where the write lands: an *)
(* event that lands was written under the epoch recorded at that moment.   *)
StaleEpochNeverLands ==
    [][Len(author') > Len(author) => author'[Len(author')] = claim]_vars

(* The data stream implements the abstract dragline: it is only ever       *)
(* extended, one event at a time, at its end, by an event that continues   *)
(* its fiber, whatever the sessions and the network do (append_block,      *)
(* validate_append).                                                       *)
Line == INSTANCE Dragline WITH line <- stream
LineSpec == Line!Spec
=============================================================================
