# Pardosa in TLA+

Pardosa keeps *draglines*: append-only event lines made of *fibers*, chains of
events in which each event names its precursor by identifier and by
commitment. This directory holds TLA+ models of the code under `crates/`,
TLC configurations that check them on small instances, and TLAPS proofs.

Run, in this directory:

    tlc -workers 2 -config nats_sessions.cfg MCNatsStore
    tlapm NatsStoreProofs.tla

`PROJECT.json` maps every definition to its source lines, and lists the runs,
the mutants (what a property would catch), the hazards and the theorems.

## 1. The system

| Component | Source | State | Operations |
|---|---|---|---|
| Envelope, precursor links | `encoding.rs`, `store.rs` | header fields, commitment | genesis, chain, classify, admit_precursor_link |
| Fiber lifecycle, `FiberHandle` | `store.rs`, `store/fiber_handle.rs` | state, tip, count of one fiber | append, detach, rescue, with_state, from_envelopes |
| `SessionIndex` | `store/session_index.rs` | slot per fiber, identifiers seen | validate_append, commit, process_frame, mark broken |
| Store pipeline | `store/pipeline.rs`, `store/engine.rs` | index, rolling commitment, uncertain flag, retained cause | open_writer, open_reader, appends, sync, bulk reads |
| NATS adapter | `pardosa-nats/src/adapter.rs` | meta and data stream, `last_data_seq`, carried epoch | create, complete_creation, open_write, append_block, recover_frames, operator records |
| File adapter | `file.rs` | `.meta`, `.pgno`, the lock, carried epoch | the same over files, with rollback and tail repair |
| Scoped reader | `store.rs` | queue, tracking of fibers, failure flags | with_stream, with_frames, read_event |
| Admission, ownership protocol | `store.rs` | the ownership record they decide on | admit_create, admit_open, evaluate_claim_cas, evaluate_takeover, CreationPlan |
| Container | `file.rs` | the bytes of `.pgno` and `.meta` | encode, decode, scan, cut of a torn tail, append to `.meta` |
| Wire encoding | `encoding.rs` | none | bounded values, envelopes, partitioning rules, ownership records |
| Schema, floats, derive macro | `schema.rs`, `schema/floats.rs`, `pardosa-derive` | none | descriptors, admission, the generated codecs |
| Migration | `migration.rs` | none: the manager refuses every operation | pointers that retire a source |

How they interact. An application holds a writer session, which is a `Store`
over an engine. `Store` asks the index for a `FiberHandle`, lets it mint an
envelope, validates the envelope on the index and hands the bytes to the
engine. The engine checks the epoch it carries against the ownership record
(the meta stream or `.meta`), lands the block, and answers `Landed` or
`Undetermined`; only on `Landed` does the store commit to its index. After
`Undetermined` the session is *uncertain* and writes no more. Opening replays
the frames through the index.

What is hard:

- sessions, creators, readers and the operator run concurrently and share only
  the streams or files; the epoch is checked before the write, not with it;
- in NATS a publish may land after its session timed out, closed or was
  superseded; what fences it is the last sequence it expects;
- bulk reads replace the index, the frame count and, in one case only, the
  expected sequence, while other sessions write;
- with files, a process may die and power may be lost between any two steps,
  rollbacks may fail, and readers hold no lock;
- three places keep an account of a fiber (handle, index, reader), each with
  checks and limits of its own;
- a claim is judged on a record read earlier, and stored after others acted;
- lengths, offsets and depths are computed in several places apart (length
  calculation, encoder, decoder, validation, compile-time constants) and have
  to agree, also on bytes that were cut or damaged.

What makes each part correct: the stored events are one well-formed line, only
ever extended; a landed event stays; writers' epochs never go back along the
line; what writers could write can be opened again; creation has one winner
and leaves nothing half made; every call returns; every epoch has one owner
and proofs displace nobody who still holds a claim; a decoder returns what was
encoded or refuses, and damage is told from a torn end.

## 2. Modules

| Module | Models |
|---|---|
| `Envelope` | header fields, genesis, the commitment as an uninterpreted digest (`Commitment`, a constant operator) |
| `EventLine` | reference: what it is for an event to extend a line (`Extends`) and for a line to be well formed |
| `Dragline` | abstract specification: a line extended by one event at a time |
| `DurableLine` | abstract specification: a line that changes at its end only and never loses an event reported as landed |
| `FiberHandle` | lifecycle table and handle |
| `SessionIndex` | the index and its verdicts, in the order of the code's checks |
| `LineIndex` | `IndexOf(log, n)`: the index of a prefix, defined without replay; `Knows`: what an index says of a prefix with breaks |
| `FiberLifecycle` | handles and index side by side |
| `NatsStore` | writer sessions over JetStream |
| `NatsStoreInv` | the inductive invariant `SessionsKnowPrefixes` |
| `NatsCreation` | create, complete_creation and open_write racing in JetStream |
| `FileStore` | both files from creation on, writers, readers, operator, crashes |
| `ArtefactReader` | the scoped reader and the precursor walk |
| `Admission` | presence of the two halves of an artefact and what each entry point admits |
| `Ownership` | the ownership protocol over one record: creators, claimants, takeovers, releases |
| `Bytes` | byte strings, little-endian integers, results of decoders |
| `Wire` | the codecs of `encoding.rs` and the bytes a commitment covers |
| `Descriptor` | schema descriptors: validation, length, encoder, decoder, admission, identity |
| `TypeCodec` | what `PardosaType` implementations do, hand-written and derived, and canonical floats |
| `Frame` | the container's header, frames and checksum byte by byte |
| `Container` | what the frames of `.meta` say |
| `WireCodec` | a message between encoder and decoder, damaged on the way, and containers that grow, are damaged, scanned and repaired |
| `Codec` | `WireCodec` with the codecs of schemas and the records of `.meta` |
| `LineIndexProofs`, `NatsStoreProofs`, `NatsCreationProofs`, `FileStoreProofs`, `FiberLifecycleProofs`, `ArtefactReaderProofs`, `OwnershipProofs`, `WireCodecProofs` | proofs |
| `MC*` | instances for TLC: the digest, input sets, symmetry |

`SessionIndex` extends `FiberHandle`, which extends `Envelope`; `LineIndex`
joins `SessionIndex` and `EventLine`; `NatsStore` and `FileStore` extend
`LineIndex`. Both stores use the same index and handle operators, as both
engines run under the same `Store`. `Ownership` uses `Admission`. `Bytes`, `Wire`,
`Frame` and `WireCodec` extend each other in this order and are proved about; the
codecs of schemas are parameters of `WireCodec` (`EncodeOther`, `DecodeOther`,
`ReadRecords`). `Descriptor`, `TypeCodec` and `Container`, which `Codec` puts in
their place, walk types recursively and are for TLC only.

### State and actions against the code

`NatsStore`. `stream` is the data stream after its header, so the server's last
sequence is `Len(stream) + 1`. `net` and `replies` are the publishes and
acknowledgements in flight. A session is `phase`, the engine's `carried_epoch`
and `last_data_seq`, and the store's index, frame count, uncertain flag and
retained cause. One append is three steps: `BeginAppend`
(`append_frame_verdict` up to `append_block`, with its authority check and
`validate_append`), `PublishBlock` (the second authority check and the
publish), and one of `AckLanded`, `AckConflict`, `AckTimeout`; other processes
act in between. A scan takes its upper bound when it begins (`ScanBegin`) and
then reads frame by frame, for recovery, `for_each_envelope` and
`read_all_envelopes`. `Close` stands for dropping the session and for the
death of its process in any phase; its publish stays in flight.
`simulate_indeterminate` is test support and gives what `AckTimeout` gives. A
publish acknowledged by the wrong stream is among the failures of
`AckTimeout`.

`FileStore`. A file is a sequence of whole records and a flag for a torn end;
`durable` counts the records of `.pgno` that are surely on disk, `metaDisk` is
`.meta` as it surely is on disk. Creation and completion take one action per
system call that others can see; syncing the header of `.pgno` and locking the
file are two (`SyncHeader`, `LockHeader`). The operator's `append_meta_record` is
a write (`TakeOver`, `Retire`, cut short `TearRecord`) and a later sync
(`SyncRecord`), and in between others read the record. `PowerLoss`
keeps what was synced and any part of the rest, so that it may take back or cut
an operator's record, and ends every process;
`DieWriting` and `Close` are deaths of one process. `WriteFails` includes the
rollback and each way it can fail. A reader takes no lock: its scans
(`OpenRead`, `ReadFrames`) may meet a torn tail, left behind or just being
written (`TornScan`), and then refuse for good (`ReadTorn`). `ReadAll` is a bulk
read of a writer session.

`NatsCreation`. The four publishes of a creation are steps `at = 1 .. 4`, each
with the sequence it expects. `create_stream` succeeds when the stream already
stands with the same configuration, which is why streams exclude nobody.

`ArtefactReader`. `phase` is the ingestion or the reading; `input` and
`outcomes` are history.

`Ownership`. Each decision of `store.rs` is an operator (`EvaluateClaimCas`,
`EvaluateTakeover`, `ResumesAs`, ...). Reading the record,
judging a takeover and storing the claim are separate actions; storing compares
the record as it then is, as the compare-and-set the functions are written for
does. No adapter calls the claim, takeover and creation-plan functions in this
version (both go through `append_meta_record` and their own creation, which
`FileStore` and `NatsCreation` model), so this composition is the contract the
functions state for an adapter, not one of the adapters. It has no writes of
events: `fence_write` compares two epochs and lands nothing, only tests call it,
and the adapters compare first and write later, as `NatsStore` and `FileStore`
have it.

`WireCodec`. `Encode` encodes a message or creates a file; `AppendPayload` and
`AppendRecord` write a frame to `.pgno` and to `.meta`. `Cut`, `Alter` and `Follow`
are what happens to the bytes, and `sound` says how many of them, from the first
on, are still what was written. `AppendBehind` is the operator's append to a
`.meta` that ends torn, without reading it. `Decode` decodes a message.
`ReadHeader`, `ReadFrame` (one iteration of the loop) and `EndScan` are
`read_container_frames`; `ReadMeta` is the rest of `read_meta_records`, and
`Reconcile` what a writer's open makes of the file, to which it then appends.
Encoders and decoders are translated field by field with the offsets and the
order of checks of the code; the derive macros by what the generated
implementation does with a declared type.

`FiberLifecycle`. The handle is kept by the application and its envelopes go to
the index; a refused envelope drops the handle, as `append_to_fiber` does.

## 3. Runs

All state spaces are explored completely. Each property has a mutant in
`PROJECT.json`: a plausible bug in a mapped definition that breaks it.

| Run | Instance | Shows |
|---|---|---|
| `nats_sessions` | 2 sessions, 1 fiber, 2 events, 2 epochs, 2 publishes in flight, sequence limit 3 | `StreamWellFormed`, `EpochOrder`: whatever arrives late, the stream is one line and epochs never decrease along it; `SessionsKnowPrefixes` (the invariant of the proofs), `IndexFaithful`, `ScanNeverRefused` |
| `nats_line` | 2 sessions, 2 events, iteration, fairness | `LineSpec`: the stream implements `Dragline`; `EveryCallReturns` |
| `nats_foreign` | 1 session, 2 fibers, 3 events, 2 frames of another client, all four bulk reads, sequence limit 4, every envelope an application could build | `OwnWritesExtend`: no write continues a broken fiber or a line it does not extend; `LandedIsDurable` |
| `nats_creation` | 3 processes, 5 meta records, fairness | `RecordsOfOneCreator`, `SessionMeansComplete`, `OneEstablishes`, `SomebodyEstablishes` |
| `file_sessions` | 2 writers, 1 reader, 2 events, 2 epochs | `FramesWellFormed`, `WriterKnowsFile`, `ExclusiveCreation`, `CreatedStaysOpenable`, `EpochOrder`, `ReaderViewStays`, under crashes and power loss; `DurableSpec`: the file implements `DurableLine` |
| `fiber_lifecycle` | 3 fibers with room for 2, 5 events, 3 per fiber | `LifecycleLegal`, `HandlesAgree`, `ReplayRebuildsIndex`, `IndexTrustsHandles`, at the limits |
| `reader` | every input of up to 3 envelopes, over limits too | `ObservedIsALine`, `FailureIsABreak`, `ChecksAgree`, `ErrorIsLast`, `WalkAdmits` |
| `codec` | every shape of value and record once, the limits from both sides, every file of up to 3 frames out of 3 payloads (one of four zero bytes) or 4 records, every cut and every alteration of one byte | envelopes and records: `WireRoundTrip`, `WireCanonical`, `CommitmentExposes`; files: `ScanFindsWhole`, `AlterationsRefused`; schemas: `RoundTrip`, `Canonical`, `AdmissionStable`, `DepthsAgree`, `AcceptedRootsAdmitted` |
| `nats_stale_epoch` | 2 sessions, 2 epochs | violation, finding 1 |
| `file_interrupted_creation` | 1 writer | violation, finding 2 |
| `file_record_lost` | 2 writers | violation, finding 3 |
| `codec_length_damage` | the containers of `codec` | violation, finding 4 |

Bounds. `MaxEpoch`, `MaxInFlight`, `MaxForeign`, `MaxMeta` and `MaxFrames` are named in
guards and bound the surroundings only. `MaxEventsPerFiber`,
`MaxActiveFibers`, `MaxSequence`, `MaxStreamItems`, `MaxStreamBytes` and
`MaxPosition` are the code's own limits with small values, so that the cases at
a limit happen. Two sessions suffice for what one can do to another: a session
is affected only through the streams, the lock and the ownership record, and
the proofs hold for any number. Two events give a genesis and a successor, so
that a stale tip differs from a fresh one; where the lifecycle matters there
are three to a fiber (`fiber_lifecycle`, `nats_foreign`). `nats_sessions` has
no bulk read but the scan of recovery; iteration, the one that moves index,
count and expected sequence together, races a second session in `nats_line`,
all four run in `nats_foreign`, and the proofs cover every mix for any number
of sessions. Deadlock is not checked: an application may stop, and
bounded identifiers run out.

In `codec` a byte has 32 values (`Base`): all tags fit, a one-byte length or
discriminant overflows soon, and each alteration of a byte can be tried. Widths
and offsets are the code's. `MaxDepth = 3` stands for a descriptor depth of 16,
`MaxRecord = 75` and `WireLimit = 88` for the limits of descriptor records and
envelopes; there are messages just inside and just past each. There are roots
that the derive macro accepts and validation does not: with bounds of 0, and
with a record past the limit. The checksum is a stand-in with two properties of
CRC32C: altering one byte changes it, and it is 0 for no bytes. As in the code
it covers the payload and not the length, so a shortened length decodes when the
four bytes behind the shorter payload happen to be its checksum: a payload of
four zeros whose length is altered from 4 to 0 is read as an empty payload. The
run has that file; no property claims otherwise, and the specification too
defines the checksum over the payload. A digest is the bytes it covers. A float keeps its sign,
an exponent of which all ones and zero are told apart, and its mantissa. Three
frames give a file with a frame before, at and behind the damage.

Symmetry is used over sessions, processes, writers, readers, events and fibers in runs
without liveness; no definition tells their members apart.

Fairness. `nats_line` assumes weak fairness of each session's own steps inside
a call: the thread runs, and the publish timer (`tokio::time::timeout` in
`append_block`) fires. It assumes nothing of the server, of other sessions or
of the application. `nats_creation` assumes that a process in a call runs on,
that somebody begins and that the server answers: `create` has no timer of its
own. `SomebodyEstablishes` promises nothing once a call was given up or the
operator wrote a record.

## 4. Proofs

`tlapm` checks the proof modules with Z3, Zenon and LS4. Every inductive
invariant was checked by TLC before it was proved: `SessionsKnowPrefixes` in the
run `nats_sessions` and with the constants of `nats_foreign` (573,994 states),
the others with the constants of the component's run (`FileStore` 935,428
states, `ArtefactReader` 131,771, `FiberLifecycle` 63,436).

`LineIndexProofs` shows for lines of any length and any limits that on
`IndexOf(log, n)`

- `validate_append` answers Ok exactly for the envelopes that extend the prefix
  (`ValidateIffExtends`);
- `commit_envelope_unchecked` and `process_frame` lead to `IndexOf(log, n + 1)`
  (`CommitStep`, `ProcessStep`), so `build_from_frames` of a well-formed line is
  its index (`RebuiltIsIndex`).

The same for a line with breaks: `Knows(index, log, n)` says that exactly the
fibers with a break are broken, and that the others are as the line has them;
of a broken fiber it says no more, as `validate_append` asks no more.
`validate_append` then admits exactly what
extends the prefix in an unbroken fiber (`ValidateKnows`), and whatever
`process_frame` admits leads from knowing `n` events to knowing `n + 1`
(`ProcessKnows`, `CommitKnows`).

`NatsStoreProofs` proves, for any sets of sessions, fibers, identifiers,
envelopes of the application's own making and foreign frames, and any bounds:

| Theorem | States |
|---|---|
| `InvariantHolds` | `ForeignSpec => []SessionsKnowPrefixes` |
| `TypeCorrect` | `ForeignSpec => []TypeOK` |
| `OwnWritesStaySound` | `ForeignSpec => []OwnWritesExtend` |
| `LandedStaysDurable` | `ForeignSpec => []LandedIsDurable` |
| `StreamStaysWellFormed` | `Spec => []StreamWellFormed` |
| `EpochsStayOrdered` | `Spec => []EpochOrder` |
| `IndexStaysFaithful` | `Spec => []IndexFaithful` |
| `ScansAreNeverRefused` | `Spec => []ScanNeverRefused` |
| `ImplementsDragline` | `Spec => LineSpec` |

The argument. That own writes extend the line is not inductive: a publish in
flight was validated against an index, and the server compares nothing but a
number. `SessionsKnowPrefixes` says what ties the two. An open session's index
knows some prefix of at least the length its `last_data_seq` names. It may
be longer, since `read_all_envelopes` moves the index and not the sequence. So
if the server accepts a publish, its expected sequence is the whole stream, the
prefix is the whole stream, and `ValidateKnows` gives that the envelope
extends it in a fiber without a break. A foreign frame only puts the publishes
in flight out of date (`ForeignInv`). Further conjuncts say that no publish the
server would accept has an epoch below one already written, that a reply finds
its session as it was when the publish was sent, and that the frame count is
never behind the expected sequence, so that a `Landed` verdict names the true
position. There is one lemma for each kind of step; `SessionStable` covers the
sessions that take no part in it. Without other clients every event is a
session's (`OwnInvariant`), so the line is well formed and an index that knows a
prefix is the index of the prefix (`OwnLine`).

`NatsCreationProofs` proves, for any number of processes and meta records:

| Theorem | States |
|---|---|
| `OneCreator` | `Spec => []RecordsOfOneCreator` |
| `SessionsAreComplete` | `Spec => []SessionMeansComplete` |
| `AtMostOneEstablishes` | `Spec => []OneEstablishes` |

None is inductive, because publishes of creators that gave up are still in
flight. `IInv` says of each publish in flight that its creator had stored every
record before it when it was sent (`Reached`); since nothing is ever removed
this stays true, and the expected sequence leaves the publish one place where
it can be stored. A record of a creator is then preceded by its own (`MetaInv`),
and the process to which a creation returned is the one whose header stands in
the data stream (`DataInv`).

`FileStoreProofs` proves, for any number of writers, readers, epochs and events:

| Theorem | States |
|---|---|
| `FileInvariant` | `Spec => []IInv` |
| `FramesStayWellFormed` | `Spec => []FramesWellFormed` |
| `WritersKnowTheFile` | `Spec => []WriterKnowsFile` |
| `LandedEventsStay` | `Spec => []LandedIsDurable` |
| `EpochsInOrder` | `Spec => []EpochOrder` |
| `CreationIsExclusive` | `Spec => []ExclusiveCreation` |
| `CreatedFilesOpen` | `Spec => []CreatedStaysOpenable` |
| `ReadersKeepTheirView` | `Spec => []ReaderViewStays` |
| `ImplementsDurableLine` | `Spec => DurableSpec` |

The first seven properties are proved together, for each needs the others: the line
stays well formed because the writer's index is that of the file, which holds
because only one process writes, which rests on the lock and, before there is
anything to lock, on `create_new`. `IInv` adds what the properties leave out:
that a process that uses the file holds the lock and met a complete record
(`LockInv`), that an index is right in every phase up to the step that makes
the session uncertain (`KnowsInv`), what a creator has behind it
(`CreationInv`), and that a `.meta` cut by power loss while `.pgno` stayed is
never written again (`MetaInv`), without which a second creator could start
epochs anew. `FirmInv` says that the claims on disk cover every epoch a writer
carries or has written with. Without it a loss of power could take back a claim
under which events were written, and the next owner would write with a lower
epoch behind them; that `append_meta_record` returns only after its sync is what
keeps it true. For the refinement, `NextLine` says of every action that it leaves
the frames alone, adds one that extends them, reports all of them as landed, or
takes some off the end; that none of these was landed is the invariant's
(`LandedIsDurable`), since a rollback, a torn tail and a loss of power only ever
reach what was not synced.

`FiberLifecycleProofs` proves, for any number of fibers and events:

| Theorem | States |
|---|---|
| `HandleInvariant` | `Spec => []IInv` |
| `LegalTransitions` | `Spec => []LifecycleLegal` |
| `AccountsAgree` | `Spec => []HandlesAgree` |
| `ReplayRebuilds` | `Spec => []ReplayRebuildsIndex` |
| `HandlesAreTrusted` | `Spec => []IndexTrustsHandles` |

`IInv` ties the index to the line, and the identifiers in a fiber's history to
the index, so that an identifier the index has not seen is new to
`from_envelopes` as well.

`ArtefactReaderProofs` proves, for every input and every limit:

| Theorem | States |
|---|---|
| `ReaderInvariant` | `Spec => []IInv` |
| `ReadersSeeALine` | `Spec => []ObservedIsALine` |
| `FailuresAreBreaks` | `Spec => []FailureIsABreak` |
| `RepeatedChecksAgree` | `Spec => []ChecksAgree` |
| `ErrorsAreLast` | `Spec => []ErrorIsLast` |
| `WalksAreAdmitted` | `Spec => []WalkAdmits` |

`IInv` says that the queue is the rest of the input, that what is charged is its
size, and that the reader's tracking of fibers is what the observed events
determine (`TrackInv`). The reader checks neither the number of events nor the
zero identifier; that the first does no harm needs `StreamLimitAssumption`
(`MaxStreamItems <= MaxEventsPerFiber` and `<= MaxPosition`: in the code 65,536
against 100,000 and `u64::MAX`).

What recursive functions compute (`Rebuilt`, `Histories`, `Sizes`) is proved
without an induction rule: that each has a solution is carried through the
steps, or a least number at which the claim fails is taken and refuted.

`OwnershipProofs` proves, for any number of processes and epochs and from no
assumption at all:

| Theorem | States |
|---|---|
| `EpochsHaveOneOwner` | `Spec => []OneOwnerPerEpoch` |
| `DataFollowsClaims` | `Spec => []DataAfterClaim` |
| `ProvenTakeoversAreSafe` | `Spec => []ProofsDisplaceNobody` |

The inductive invariant `IInv` says that the record is the last of the claims,
that epochs grow along them, that what a process holds, has read or has
released is one of them, and, for takeovers, that a *proven* verdict on the
claim that is still recorded means that its owner no longer holds it
(`FreeIfProven`). The last is what the compare-and-set turns into safety: a
verdict may be about a claim that has been superseded meanwhile, a release of a
later epoch counts as proof for an earlier claim, and both are harmless only
because the claim stored must follow the one judged. `QuietStep` covers steps
that store no claim, `ClaimStep` those that do. The three properties were checked by
TLC before they were proved (`ownership.cfg`, three processes and three epochs,
168,045 states); since only tests call these functions in this version, the
instance is kept to be run by hand and is not among the runs.

`WireCodecProofs` proves, for any base of the bytes, any envelopes, records and
payloads, files of any number of frames, and whatever the codecs of schemas are:

| Theorem | States |
|---|---|
| `WireRoundTrips` | `Spec => []WireRoundTrip` |
| `WireStaysCanonical` | `Spec => []WireCanonical` |
| `CommitmentsExpose` | `Spec => []CommitmentExposes` |
| `ScansFindWhole` | `Spec => []ScanFindsWhole` |

An encoder concatenates fields and a decoder reads them at offsets. The two meet
in `Occurs(f, buf, off)`: the string `f` lies in `buf` behind its first `off`
bytes. For each kind of record there are three lemmas: the record lies where its
fields do (`...Fields`), where it lies it is decoded to itself (`...RoundTrip`),
and what is decoded lies, encoded, where it was read (`...Canonical`). They rest
on the same facts for a field and on `LE` and `FromLE` being inverse to each
other. `RecordRoundTrip`, `RecordCanonical` and `RecordCut` join the nine kinds;
`CommitmentInjective` recovers an envelope from the bytes a commitment covers.
`MessageInv` says how the bytes that are there differ from those written.

For files, `FileInv` says that the frames lie one behind the other (`Layout`) and
that the sound bytes are theirs (`Holds`). A scan is either *on track*, between
two frames with all frames before it found, or, after damage other than a cut,
*past* it, with every whole frame among those found. `SoundFrame` is the heart:
a frame that ends within the sound bytes is read as it was written, and one that
a cut goes through is recognised as truncated, whichever of its bytes is missing.
`ReconcileStep` shows that what a repair leaves is again a file of whole frames,
so that the argument goes round for any number of crashes. Nothing is assumed of
the checksum: that a whole frame is found needs only that it is a function. That
ends grow along the file, an induction over frames, is shown with the least
frame at which it fails (`Least`).

Assumptions, all named in the modules and evaluated by TLC in the runs: the
zero identifier and digest are set apart and identifiers exist
(`Envelope`), limits are positive naturals, `Nobody` is no session, and
`StreamLimitAssumption` above; for the codecs, that every tag is a byte (`BaseAssumption`),
that messages are values of the types the encoders take, and that the limit of
an envelope's length is a `u32`, as it is in the code (`MessagesAssumption`).
Nothing is assumed of `Commitment` but its type:
the proofs do not need it to be collision-free.

Only model-checked:

- liveness (`EveryCallReturns`, `SomebodyEstablishes`), which is out of the
  prover's reach;
- `RoundTrip`, `Canonical`, `AdmissionStable`, `DepthsAgree` and
  `AcceptedRootsAdmitted`, about types and descriptors, whose definitions are RECURSIVE over types;
- `AlterationsRefused`, which needs of the checksum that altering one byte
  changes it, a fact about a fold over all bytes.

Every other property of a passing run is a theorem. The four properties with a
violation are about the code's disagreement with its documents and are false.

## 5. Findings

1. `nats_stale_epoch`. `check_authority` reads the meta stream before the
   publish and the server compares the data subject's sequence only, so a write
   in flight lands after a later epoch was recorded; the specification says a
   stale epoch is rejected where the write lands. What holds, and is proved, is
   `EpochOrder`: it never lands behind a write of the later epoch.
2. `file_interrupted_creation`. A creator that dies before `.meta` holds header,
   claim and descriptor leaves files that `create` refuses and
   `complete_creation` does not admit; the specification says the unseeded
   record is claimable.
3. `file_record_lost`. `complete_creation` reads a `.meta` its creator has not
   synced and makes `.pgno` durable; power loss then leaves event data without
   an ownership record.
4. `codec_length_damage`. A length that exceeds the rest of a container is taken
   for a torn tail wherever it stands (`ContainerFrame::decode`,
   `read_container_frames`), so the frames behind it are left out and a writer's
   open cuts them; the specification asks for a typed error
   (`docs/spec/pardosa-1.0.md:123` and `191`). What holds is
   `AlterationsRefused`: one altered byte anywhere but in a length fails the scan.

Also met while modelling, without a run of their own: a writer session over a
stream with a broken fiber goes on writing to the other fibers
(`process_frame`, `validate_append`), where `docs/spec/pardosa-1.0.md:697`
speaks of a refusal on every path, read and write alike; and an envelope of the
application's own making may detach a detached fiber or be a detached genesis,
since the index never looks at the flag (`docs/spec/pardosa-1.0.md:1584`). In
NATS a creator that dies between creating the data stream and publishing its
header leaves both streams standing without a header; nobody takes it for
complete (`SessionMeansComplete`), and nobody completes it. A rescue-policy
record with a tag outside the specified ones is decoded (`encoding.rs:1587`),
where `docs/spec/pardosa-1.0.md:326` says other values are rejected.

The derive macro accepts roots whose descriptor is refused at run time, where
`schema_identity` panics with "PardosaSchema must produce a valid schema
descriptor" (`schema.rs:1177`): `TYPE_DEPTH` of an enum, documented as the depth
in the descriptor (`schema.rs:1196`), does not count the struct node of a
variant `V {}` or `V()` (`pardosa-derive/src/lib.rs:589`); nothing looks at a
bound of 0 of an `EventString` or `EventVec` (`schema.rs:1003`, `1015`), nor at a
record past 64 KiB (`schema.rs:851`). The run `codec` has a root for each.
`AcceptedRootsAdmitted` says that roots are refused for nothing else, and
`DepthsAgree` that the two depths differ by that one level at most.

## 6. Assumptions and what is left out

Of the surroundings: JetStream stores a publish at most once and compares the
expected sequence atomically; its streams lose nothing; losing power keeps a
prefix of the unsynced records of a file; syncing a new file keeps its name; a
new epoch is carried only once `append_meta_record` has returned, so that its
claim is synced. The reader observes
an event with the zero identifier, which the index refuses; `ObservedIsALine`
says so.

`FileStore` takes the container scan's verdict (whole or torn) as given;
`ScansFindWhole` proves that verdict on bytes.

Not modelled: payloads other than through the commitment; the wording of
failures; exclusion policies and failures that tests inject; names of streams,
subjects and paths, and the inspection of a stream's subjects on open; the
syntax the derive macros accept; the builder of a qualified open result and the
pairing of names, which decide nothing of the protocol; `fence_write`, which only
tests call; the migration manager,
which refuses every operation; reader sessions over NATS, which read the chunks
a writer's scan reads and change nothing. The types of the variables are part of
each inductive invariant.

## 7. Plan

Done, in this order: index and reference line, NATS writer sessions and their
proofs, handles, files, creation, reader, admission; then the codecs and the
container, the ownership protocol and its proofs, bulk reads and reader sessions
over files; then the proofs for creation, files, handles and the reader, and for
streams with foreign frames; then the durable line that the files implement, and
the codecs of envelopes, records and containers with their proofs.

Left:

1. Reader sessions over NATS as a module over `NatsStore`, and locators whose
   stream names coincide.
2. The codecs of schemas as recursive functions of a bounded depth, which could
   be proved about one depth at a time.
