----------------------------- MODULE FileStore -----------------------------
(***************************************************************************)
(* Writer and reader sessions of one artefact kept in two files, the       *)
(* ownership record .meta and the event data .pgno                         *)
(* (crates/pardosa/src/file.rs under the Store pipeline of                 *)
(* crates/pardosa/src/store/pipeline.rs), from the creation of the files   *)
(* on, with processes that die and a machine that loses power.             *)
(*                                                                         *)
(* A writer holds the operating system's lock on .pgno.  Readers, the      *)
(* creator of the files and the operator who appends to .meta hold none.   *)
(*                                                                         *)
(* A file is what was written to it, in whole records: a write that was    *)
(* cut short leaves it torn.  Losing power keeps what was synced and any   *)
(* part of the rest.  Syncing a new file also keeps its name.              *)
(***************************************************************************)
EXTENDS LineIndex, Admission, Sequences

CONSTANTS
    Writer,     \* processes that create, complete or open the artefact to write
    Reader,     \* processes that open it to read
    Nobody,     \* the holder of a lock that is free
    MaxEpoch    \* bound: epochs recorded

ASSUME FileAssumption ==
    /\ Nobody \notin Writer
    /\ MaxEpoch \in Nat \ {0}

(***************************************************************************)
(* .meta: creation writes a header, a claim and a schema descriptor;       *)
(* written counts them.  claim is the epoch of the latest claim.           *)
(* .pgno: a header and the frames of the events.                           *)
(***************************************************************************)
VARIABLES
    meta,        \* [exists, written, torn, claim, outbound]
    metaDisk,    \* .meta as it surely is on disk
    pgno,        \* [exists, header, frames, torn]
    durable,     \* records of .pgno, header included, surely on disk
    pgnoSynced,  \* .pgno is as it is on disk
    lock         \* the holder of the lock on .pgno

VARIABLES
    phase,      \* which call a writer is in
    carried,    \* carried_epoch
    index,      \* fiber_index
    count,      \* rolling_commitment.frame_count()
    uncertain,  \* the engine or the store is in the uncertain state
    pending,    \* the envelope of the append in progress
    rphase,     \* which call a reader is in
    view        \* the frames a reader indexed

(* History: who wrote each frame, the frames up to the one last reported   *)
(* as landed, and whether a creation or a completion has succeeded.        *)
VARIABLES author, landed, created

files == <<meta, metaDisk, pgno, durable, pgnoSynced>>
session == <<phase, carried, index, count, uncertain, pending>>
reader == <<rphase, view>>
history == <<author, landed, created>>
vars == <<files, lock, session, reader, history>>

Creating == {"CreatingMeta", "WritingMeta", "CreatingPgno"}
Filling == {"Completing", "MakingPgno", "WritingHeader", "SyncingHeader",
            "LockingHeader"}
Opening == {"Locking", "Admitting", "Recovering"}
Writing == {"Ready", "Appending", "Syncing"}
Phase == {"Closed"} \cup Creating \cup Filling \cup Opening \cup Writing

NoMeta ==
    [exists |-> FALSE, written |-> 0, torn |-> FALSE, claim |-> 0, outbound |-> FALSE]

NoPgno == [exists |-> FALSE, header |-> FALSE, frames |-> << >>, torn |-> FALSE]

Init ==
    /\ meta = NoMeta
    /\ metaDisk = NoMeta
    /\ pgno = NoPgno
    /\ durable = 0
    /\ pgnoSynced = TRUE
    /\ lock = Nobody
    /\ phase = [w \in Writer |-> "Closed"]
    /\ carried = [w \in Writer |-> 0]
    /\ index = [w \in Writer |-> NewIndex]
    /\ count = [w \in Writer |-> 0]
    /\ uncertain = [w \in Writer |-> FALSE]
    /\ pending = [w \in Writer |-> NoEnvelope]
    /\ rphase = [r \in Reader |-> "Closed"]
    /\ view = [r \in Reader |-> << >>]
    /\ author = << >>
    /\ landed = << >>
    /\ created = FALSE

-----------------------------------------------------------------------------
(* What reading the files finds. *)

FilesPresent == Presence(meta.exists, pgno.exists)

(* The header and the frames a container holds. *)
Records(file) == IF file.header THEN Len(file.frames) + 1 ELSE 0

(* read_meta_records succeeds: a header, and whole records after it. *)
MetaReadable == meta.exists /\ meta.written >= 1 /\ ~meta.torn

HasClaim == meta.written >= 2

HasDescriptor == meta.written >= 3

(* read_container_frames finds whole frames up to the end of the file. *)
CleanScan == pgno.exists /\ pgno.header /\ ~pgno.torn

(* A scan meets a torn frame, left by a failure or being written just now. *)
TornScan ==
    pgno.torn \/ \E w \in Writer : phase[w] = "Appending"

(* The checks of complete_creation on .meta, for the claim it is given. *)
CompletionAdmits(epoch) ==
    MetaReadable /\ HasDescriptor /\ HasClaim /\ meta.claim = epoch

(* The checks open_write makes on .meta once it holds the lock. *)
OpenAdmits(epoch) == CompletionAdmits(epoch) /\ ~meta.outbound

(* FileEngine::check_authority *)
HasAuthority(w) ==
    /\ lock = w
    /\ MetaReadable
    /\ HasClaim
    /\ ~meta.outbound
    /\ meta.claim = carried[w]

-----------------------------------------------------------------------------

Goto(w, p) == phase' = [phase EXCEPT ![w] = p]

Unlock(w) == lock' = IF lock = w THEN Nobody ELSE lock

(* The call fails, or the session is dropped or its process dies: the lock *)
(* goes with the file handle.                                              *)
Forget(w) ==
    /\ Goto(w, "Closed")
    /\ carried' = [carried EXCEPT ![w] = 0]
    /\ index' = [index EXCEPT ![w] = NewIndex]
    /\ count' = [count EXCEPT ![w] = 0]
    /\ uncertain' = [uncertain EXCEPT ![w] = FALSE]
    /\ pending' = [pending EXCEPT ![w] = NoEnvelope]
    /\ Unlock(w)

Close(w) ==
    /\ phase[w] # "Closed"
    /\ Forget(w)
    /\ UNCHANGED <<files, reader, history>>

-----------------------------------------------------------------------------
(* Creation. *)

(* create: admit_create finds neither file. *)
CreateBegin(w) ==
    /\ phase[w] = "Closed"
    /\ AdmitCreate(FilesPresent)
    /\ Goto(w, "CreatingMeta")
    /\ carried' = [carried EXCEPT ![w] = 1]
    /\ UNCHANGED <<files, lock, index, count, uncertain, pending, reader, history>>

(* Mutant of CreateMeta: .meta is opened even if it stands. *)
ReplaceMeta(w) ==
    /\ phase[w] = "CreatingMeta"
    /\ meta' = [NoMeta EXCEPT !.exists = TRUE]
    /\ Goto(w, "WritingMeta")
    /\ UNCHANGED <<metaDisk, pgno, durable, pgnoSynced, lock, carried, index, count,
                   uncertain, pending, reader, history>>

(* .meta is created exclusively: of two creators one goes on. *)
CreateMeta(w) ==
    /\ phase[w] = "CreatingMeta"
    /\ IF meta.exists
       THEN Forget(w) /\ UNCHANGED files
       ELSE /\ meta' = [NoMeta EXCEPT !.exists = TRUE]
            /\ Goto(w, "WritingMeta")
            /\ UNCHANGED <<metaDisk, pgno, durable, pgnoSynced, lock, carried,
                           index, count, uncertain, pending>>
    /\ UNCHANGED <<reader, history>>

(* The header, the claim and the descriptor, in this order. *)
WriteMeta(w) ==
    /\ phase[w] = "WritingMeta"
    /\ meta.written < 3
    /\ meta' = [meta EXCEPT !.written = @ + 1,
                            !.claim = IF meta.written = 1 THEN carried[w] ELSE @]
    /\ UNCHANGED <<metaDisk, pgno, durable, pgnoSynced, lock, session, reader,
                   history>>

SyncMeta(w) ==
    /\ phase[w] = "WritingMeta"
    /\ meta.written = 3
    /\ metaDisk' = meta
    /\ Goto(w, "CreatingPgno")
    /\ UNCHANGED <<meta, pgno, durable, pgnoSynced, lock, carried, index, count,
                   uncertain, pending, reader, history>>

(* A write to .meta is cut short, by an error or the death of the process. *)
TearMeta(w) ==
    /\ phase[w] = "WritingMeta"
    /\ meta.written \in {1, 2}
    /\ meta' = [meta EXCEPT !.torn = TRUE]
    /\ Forget(w)
    /\ UNCHANGED <<metaDisk, pgno, durable, pgnoSynced, reader, history>>

(* .pgno is created exclusively, by create or by complete_creation. *)
MakePgno(w) ==
    IF pgno.exists
    THEN Forget(w) /\ UNCHANGED files
    ELSE /\ pgno' = [NoPgno EXCEPT !.exists = TRUE]
         /\ pgnoSynced' = FALSE
         /\ Goto(w, "WritingHeader")
         /\ UNCHANGED <<meta, metaDisk, durable, lock, carried, index, count,
                        uncertain, pending>>

CreatePgno(w) ==
    /\ phase[w] \in {"CreatingPgno", "MakingPgno"}
    /\ MakePgno(w)
    /\ UNCHANGED <<reader, history>>

WriteHeader(w) ==
    /\ phase[w] = "WritingHeader"
    /\ pgno' = [pgno EXCEPT !.header = TRUE]
    /\ Goto(w, "SyncingHeader")
    /\ UNCHANGED <<meta, metaDisk, durable, pgnoSynced, lock, carried, index,
                   count, uncertain, pending, reader, history>>

(* Mutant of SyncHeader: the header is not synced. *)
SkipSync(w) ==
    /\ phase[w] = "SyncingHeader"
    /\ Goto(w, "LockingHeader")
    /\ UNCHANGED <<files, lock, carried, index, count, uncertain, pending, reader,
                   history>>

(* The header is synced, with whatever others who could see the file, lock *)
(* it and write have put behind it.                                        *)
SyncHeader(w) ==
    /\ phase[w] = "SyncingHeader"
    /\ pgnoSynced' = TRUE
    /\ durable' = Records(pgno)
    /\ Goto(w, "LockingHeader")
    /\ UNCHANGED <<meta, metaDisk, pgno, lock, carried, index, count, uncertain,
                   pending, reader, history>>

(* Then the lock is taken, if nobody else has it, and Store::open_writer   *)
(* begins recovery, which refuses a torn tail.                             *)
LockHeader(w) ==
    /\ phase[w] = "LockingHeader"
    /\ IF lock = Nobody /\ ~pgno.torn
       THEN /\ lock' = w
            /\ Goto(w, "Recovering")
            /\ created' = TRUE
            /\ UNCHANGED <<carried, index, count, uncertain, pending>>
       ELSE Forget(w) /\ UNCHANGED created
    /\ UNCHANGED <<files, reader, author, landed>>

-----------------------------------------------------------------------------
(* open_write *)

(* The latest claim that is surely on disk; a creator may carry its own,   *)
(* the first, at once.                                                     *)
FirmClaim == IF metaDisk.claim = 0 THEN 1 ELSE metaDisk.claim

(* check_open_write_presence, before the lock is taken.  The epoch is one  *)
(* whose claim append_meta_record has stored and synced.                   *)
OpenWrite(w, epoch) ==
    /\ phase[w] = "Closed"
    /\ epoch <= FirmClaim
    /\ \/ /\ AdmitOpenWrite(FilesPresent)
          /\ Goto(w, "Locking")
       \/ /\ AdmitCompletion(FilesPresent)
          /\ MetaReadable /\ HasClaim /\ ~meta.outbound /\ meta.claim = epoch
          /\ Goto(w, "Completing")
    /\ carried' = [carried EXCEPT ![w] = epoch]
    /\ UNCHANGED <<files, lock, index, count, uncertain, pending, reader, history>>

(* complete_creation, which looks at both files again. *)
CompleteCreation(w) ==
    /\ phase[w] = "Completing"
    /\ IF AdmitCompletion(FilesPresent) /\ CompletionAdmits(carried[w])
       THEN /\ Goto(w, "MakingPgno")
            /\ UNCHANGED <<lock, carried, index, count, uncertain, pending>>
       ELSE Forget(w)
    /\ UNCHANGED <<files, reader, history>>

(* Mutant of TakeLock: the file is opened without its lock. *)
SkipLock(w) ==
    /\ phase[w] = "Locking"
    /\ Goto(w, "Admitting")
    /\ lock' = w
    /\ UNCHANGED <<files, carried, index, count, uncertain, pending, reader,
                   history>>

TakeLock(w) ==
    /\ phase[w] = "Locking"
    /\ IF lock = Nobody
       THEN /\ lock' = w
            /\ Goto(w, "Admitting")
            /\ UNCHANGED <<carried, index, count, uncertain, pending>>
       ELSE Forget(w)
    /\ UNCHANGED <<files, reader, history>>

(* Mutant of TruncateTail: the last whole frame goes with the torn one. *)
TruncateFrame ==
    /\ pgno' = [pgno EXCEPT !.torn = FALSE,
                            !.frames = IF pgno.torn /\ @ # << >>
                                       THEN SubSeq(@, 1, Len(@) - 1) ELSE @]
    /\ author' = SubSeq(author, 1, Len(pgno'.frames))

(* reconcile_tail_state: a torn frame is cut off; it held no event. *)
TruncateTail ==
    /\ pgno' = [pgno EXCEPT !.torn = FALSE]
    /\ author' = author

(* Under the lock: .meta is read again, .pgno is scanned and a torn tail   *)
(* is cut off and the cut synced.                                          *)
Admit(w) ==
    /\ phase[w] = "Admitting"
    /\ IF OpenAdmits(carried[w]) /\ pgno.header
       THEN /\ TruncateTail
            /\ pgnoSynced' = IF pgno.torn THEN TRUE ELSE pgnoSynced
            /\ durable' = IF pgno.torn THEN Records(pgno') ELSE durable
            /\ Goto(w, "Recovering")
            /\ UNCHANGED <<lock, carried, index, count, uncertain, pending>>
       ELSE Forget(w) /\ UNCHANGED <<pgno, pgnoSynced, durable, author>>
    /\ UNCHANGED <<meta, metaDisk, reader, landed, created>>

(* The cut cannot be synced: open_write returns the failure. *)
AdmitUnsynced(w) ==
    /\ phase[w] = "Admitting"
    /\ OpenAdmits(carried[w]) /\ pgno.header /\ pgno.torn
    /\ pgno' = [pgno EXCEPT !.torn = FALSE]
    /\ pgnoSynced' = FALSE
    /\ Forget(w)
    /\ UNCHANGED <<meta, metaDisk, durable, reader, history>>

(* Store::open_writer: recover_frames, one frame at a time. *)
RecoverFrame(w) ==
    /\ phase[w] = "Recovering"
    /\ count[w] < Len(pgno.frames)
    /\ LET env == pgno.frames[count[w] + 1]
       IN  IF ProcessFrameAdmits(index[w], env)
           THEN /\ index' = [index EXCEPT ![w] = ProcessFrame(@, env)]
                /\ count' = [count EXCEPT ![w] = @ + 1]
                /\ UNCHANGED <<lock, phase, carried, uncertain, pending>>
           ELSE Forget(w)
    /\ UNCHANGED <<files, reader, history>>

RecoverDone(w) ==
    /\ phase[w] = "Recovering"
    /\ count[w] = Len(pgno.frames)
    /\ Goto(w, "Ready")
    /\ UNCHANGED <<files, lock, carried, index, count, uncertain, pending,
                   reader, history>>

-----------------------------------------------------------------------------
(* Appending. *)

(* Store::append_frame_verdict and FileEngine::append_block up to the      *)
(* write; a refusal leaves everything as it was.                           *)
BeginAppend(w, f, minted) ==
    /\ phase[w] = "Ready"
    /\ ~uncertain[w]
    /\ HasAuthority(w)
    /\ FiberAdmits(index[w], f)
    /\ minted.ok
    /\ ValidateAppend(index[w], minted.env) = "Ok"
    /\ Goto(w, "Appending")
    /\ pending' = [pending EXCEPT ![w] = minted.env]
    /\ UNCHANGED <<files, lock, carried, index, count, uncertain, reader, history>>

(* Store::append_to_fiber, detach_fiber and rescue_fiber: each mints its    *)
(* envelope with a handle on the fiber.                                    *)
AppendEvent(w, f, id) ==
    \E minted \in {HandleAppend(Fiber(index[w], f), id),
                   HandleDetach(Fiber(index[w], f), id),
                   HandleRescue(Fiber(index[w], f), id)} :
        BeginAppend(w, f, minted)

WriteBlock(w) ==
    /\ phase[w] = "Appending"
    /\ pgno' = [pgno EXCEPT !.frames = Append(@, pending[w])]
    /\ author' = Append(author, carried[w])
    /\ pgnoSynced' = FALSE
    /\ Goto(w, "Syncing")
    /\ UNCHANGED <<meta, metaDisk, durable, lock, carried, index, count,
                   uncertain, pending, reader, landed, created>>

Undetermined(w) ==
    /\ Goto(w, "Ready")
    /\ pending' = [pending EXCEPT ![w] = NoEnvelope]
    /\ uncertain' = [uncertain EXCEPT ![w] = TRUE]

(* Mutant of WriteFails: the session goes on after a failed write. *)
WriteFailsUnnoticed(w) ==
    /\ phase[w] = "Appending"
    /\ pgno' = [pgno EXCEPT !.torn = TRUE]
    /\ pgnoSynced' = FALSE
    /\ Goto(w, "Ready")
    /\ pending' = [pending EXCEPT ![w] = NoEnvelope]
    /\ UNCHANGED <<meta, metaDisk, durable, lock, carried, index, count,
                   uncertain, reader, history>>

(* write_all fails and the rollback truncates, with or without a sync, or  *)
(* cannot truncate.                                                        *)
WriteFails(w) ==
    /\ phase[w] = "Appending"
    /\ \/ pgno' = pgno /\ pgnoSynced' = TRUE /\ durable' = Records(pgno)
       \/ pgno' = pgno /\ pgnoSynced' = FALSE /\ durable' = durable
       \/ /\ pgno' = [pgno EXCEPT !.torn = TRUE]
          /\ pgnoSynced' = FALSE /\ durable' = durable
    /\ Undetermined(w)
    /\ UNCHANGED <<meta, metaDisk, lock, carried, index, count, reader, history>>

(* The process dies in write_all. *)
DieWriting(w) ==
    /\ phase[w] = "Appending"
    /\ pgno' = [pgno EXCEPT !.torn = TRUE]
    /\ pgnoSynced' = FALSE
    /\ Forget(w)
    /\ UNCHANGED <<meta, metaDisk, durable, reader, history>>

(* Mutant of SyncBlock: the write is reported as landed without a sync. *)
LandUnsynced(w) ==
    /\ phase[w] = "Syncing"
    /\ index' = [index EXCEPT ![w] = CommitEnvelope(@, pending[w])]
    /\ count' = [count EXCEPT ![w] = @ + 1]
    /\ landed' = pgno.frames
    /\ Goto(w, "Ready")
    /\ pending' = [pending EXCEPT ![w] = NoEnvelope]
    /\ UNCHANGED <<files, lock, carried, uncertain, reader, author, created>>

(* sync_data succeeds: the write landed. *)
SyncBlock(w) ==
    /\ phase[w] = "Syncing"
    /\ pgnoSynced' = TRUE
    /\ durable' = Records(pgno)
    /\ index' = [index EXCEPT ![w] = CommitEnvelope(@, pending[w])]
    /\ count' = [count EXCEPT ![w] = @ + 1]
    /\ landed' = pgno.frames
    /\ Goto(w, "Ready")
    /\ pending' = [pending EXCEPT ![w] = NoEnvelope]
    /\ UNCHANGED <<meta, metaDisk, pgno, lock, carried, uncertain, reader,
                   author, created>>

(* sync_data fails: the bytes stay, whether they landed is unknown. *)
SyncBlockFails(w) ==
    /\ phase[w] = "Syncing"
    /\ Undetermined(w)
    /\ UNCHANGED <<files, lock, carried, index, count, reader, history>>

(* Store::sync, which may write back what an earlier session left unsynced. *)
Sync(w) ==
    /\ phase[w] = "Ready"
    /\ ~uncertain[w]
    /\ HasAuthority(w)
    /\ pgnoSynced' = TRUE
    /\ durable' = Records(pgno)
    /\ UNCHANGED <<meta, metaDisk, pgno, lock, session, reader, history>>

SyncFails(w) ==
    /\ phase[w] = "Ready"
    /\ ~uncertain[w]
    /\ HasAuthority(w)
    /\ uncertain' = [uncertain EXCEPT ![w] = TRUE]
    /\ UNCHANGED <<files, lock, phase, carried, index, count, pending, reader,
                   history>>

(* Store::read_all_frames, which leaves the index alone, read_all_envelopes *)
(* and for_each_envelope in a writer session: the file is read from its    *)
(* start and appending goes on behind its last frame.  A file torn by a    *)
(* failed rollback is refused, and nothing changes.                        *)
ReadAll(w) ==
    /\ phase[w] = "Ready"
    /\ CleanScan
    /\ \A n \in 1 .. Len(pgno.frames) :
          ProcessFrameAdmits(Rebuilt(pgno.frames)[n - 1], pgno.frames[n])
    /\ \E ix \in {index[w], Rebuilt(pgno.frames)[Len(pgno.frames)]} :
          index' = [index EXCEPT ![w] = ix]
    /\ count' = [count EXCEPT ![w] = Len(pgno.frames)]
    /\ UNCHANGED <<files, lock, phase, carried, uncertain, pending, reader, history>>

-----------------------------------------------------------------------------
(* open_read takes no lock: a first scan, then Store::open_reader's own.  A *)
(* reader of an artefact without .pgno opens none and reads nothing.       *)

OpenRead(r) ==
    /\ rphase[r] = "Closed"
    /\ AdmitOpenRead(FilesPresent)
    /\ meta.exists => MetaReadable
    /\ \/ CleanScan /\ rphase' = [rphase EXCEPT ![r] = "Scanned"]
       \/ ~pgno.exists /\ rphase' = [rphase EXCEPT ![r] = "Empty"]
    /\ UNCHANGED <<files, lock, session, view, history>>

(* Store::open_reader, and read_all_envelopes and for_each_envelope later:  *)
(* the whole file is read again.                                           *)
ReadFrames(r) ==
    /\ rphase[r] \in {"Scanned", "Reading"}
    /\ CleanScan
    /\ rphase' = [rphase EXCEPT ![r] = "Reading"]
    /\ view' = [view EXCEPT ![r] = pgno.frames]
    /\ UNCHANGED <<files, lock, session, history>>

(* A torn tail is retained as the cause to refuse every read from then on. *)
ReadTorn(r) ==
    /\ rphase[r] \in {"Scanned", "Reading"}
    /\ TornScan
    /\ rphase' = [rphase EXCEPT ![r] = "Broken"]
    /\ UNCHANGED <<files, lock, session, view, history>>

(* read_all_envelopes_for_migration asks for no retained cause. *)
ReadForMigration(r) ==
    /\ rphase[r] = "Broken"
    /\ CleanScan
    /\ view' = [view EXCEPT ![r] = pgno.frames]
    /\ UNCHANGED <<files, lock, session, rphase, history>>

CloseReader(r) ==
    /\ rphase[r] # "Closed"
    /\ rphase' = [rphase EXCEPT ![r] = "Closed"]
    /\ view' = [view EXCEPT ![r] = << >>]
    /\ UNCHANGED <<files, lock, session, history>>

-----------------------------------------------------------------------------
(* append_meta_record, called by the operator: it takes no lock and        *)
(* compares no epoch.  It writes a record, then syncs the file; in between *)
(* the record can be read.  The operator does not disturb a creation under *)
(* way.                                                                    *)

Quiet == \A w \in Writer : phase[w] \notin Creating

TakeOver ==
    /\ Quiet
    /\ MetaReadable /\ HasDescriptor /\ meta.claim < MaxEpoch
    /\ meta' = [meta EXCEPT !.claim = @ + 1]
    /\ UNCHANGED <<metaDisk, pgno, durable, pgnoSynced, lock, session, reader,
                   history>>

Retire ==
    /\ Quiet
    /\ MetaReadable /\ HasDescriptor /\ ~meta.outbound
    /\ meta' = [meta EXCEPT !.outbound = TRUE]
    /\ UNCHANGED <<metaDisk, pgno, durable, pgnoSynced, lock, session, reader,
                   history>>

(* The write of a record is cut short. *)
TearRecord ==
    /\ Quiet
    /\ MetaReadable /\ HasDescriptor
    /\ meta' = [meta EXCEPT !.torn = TRUE]
    /\ UNCHANGED <<metaDisk, pgno, durable, pgnoSynced, lock, session, reader,
                   history>>

(* An operator's record has been written and not yet synced. *)
RecordUnsynced == meta.claim > FirmClaim \/ meta.outbound # metaDisk.outbound

(* sync_data, if it is reached and succeeds, puts all of .meta on disk. *)
SyncRecord ==
    /\ Quiet
    /\ HasDescriptor /\ ~meta.torn /\ RecordUnsynced
    /\ metaDisk' = meta
    /\ UNCHANGED <<meta, pgno, durable, pgnoSynced, lock, session, reader, history>>

(***************************************************************************)
(* Power is lost: every process ends, and each file keeps what was synced  *)
(* and some part of what was not.                                          *)
(***************************************************************************)

(* .meta with n records of its creation, claim c and outbound pointer o.   *)
(* Behind what is kept part of the next record may be.                     *)
MetaUpTo(n, c, o, t) ==
    [exists   |-> TRUE,
     written  |-> n,
     torn     |-> n >= 1 /\ t /\ (n < meta.written \/ meta.torn
                                  \/ c # meta.claim \/ o # meta.outbound),
     claim    |-> CASE n = 3 -> c [] n = 2 -> 1 [] n < 2 -> 0,
     outbound |-> n = 3 /\ o]

MetaAfterPowerLoss ==
    IF metaDisk = meta THEN {meta}
    ELSE {MetaUpTo(n, c, o, t) : n \in metaDisk.written .. meta.written,
                                 c \in {FirmClaim} \cup (FirmClaim .. meta.claim),
                                 o \in {metaDisk.outbound, meta.outbound},
                                 t \in BOOLEAN}
         \cup (IF metaDisk.exists THEN {} ELSE {NoMeta})

PgnoAfterPowerLoss ==
    IF pgnoSynced THEN {pgno}
    ELSE {[exists |-> TRUE,
           header |-> TRUE,
           frames |-> SubSeq(pgno.frames, 1, n - 1),
           torn   |-> t] : n \in (durable .. Records(pgno)) \ {0}, t \in BOOLEAN}
         \cup (IF durable = 0
               THEN {NoPgno, [NoPgno EXCEPT !.exists = TRUE]} ELSE {})

PowerLoss ==
    /\ meta' \in MetaAfterPowerLoss
    /\ metaDisk' = meta'
    /\ pgno' \in PgnoAfterPowerLoss
    /\ pgnoSynced' = TRUE
    /\ durable' = Records(pgno')
    /\ author' = SubSeq(author, 1, Len(pgno'.frames))
    /\ lock' = Nobody
    /\ phase' = [w \in Writer |-> "Closed"]
    /\ carried' = [w \in Writer |-> 0]
    /\ index' = [w \in Writer |-> NewIndex]
    /\ count' = [w \in Writer |-> 0]
    /\ uncertain' = [w \in Writer |-> FALSE]
    /\ pending' = [w \in Writer |-> NoEnvelope]
    /\ rphase' = [r \in Reader |-> "Closed"]
    /\ view' = [r \in Reader |-> << >>]
    /\ UNCHANGED <<landed, created>>

-----------------------------------------------------------------------------

Create(w) ==
    \/ CreateBegin(w) \/ CreateMeta(w) \/ WriteMeta(w) \/ TearMeta(w) \/ SyncMeta(w)
    \/ CreatePgno(w) \/ WriteHeader(w) \/ SyncHeader(w) \/ LockHeader(w)

Open(w) ==
    \/ \E epoch \in 1 .. MaxEpoch : OpenWrite(w, epoch)
    \/ CompleteCreation(w) \/ TakeLock(w) \/ Admit(w) \/ AdmitUnsynced(w)
    \/ RecoverFrame(w) \/ RecoverDone(w) \/ Close(w)

Write(w) ==
    \/ \E f \in FiberId, id \in EventId : AppendEvent(w, f, id)
    \/ WriteBlock(w) \/ WriteFails(w) \/ DieWriting(w)
    \/ SyncBlock(w) \/ SyncBlockFails(w) \/ Sync(w) \/ SyncFails(w)
    \/ ReadAll(w)

Read(r) ==
    \/ OpenRead(r) \/ ReadFrames(r) \/ ReadTorn(r) \/ ReadForMigration(r)
    \/ CloseReader(r)

Next ==
    \/ \E w \in Writer : Create(w) \/ Open(w) \/ Write(w)
    \/ \E r \in Reader : Read(r)
    \/ TakeOver \/ Retire \/ TearRecord \/ SyncRecord
    \/ PowerLoss

Spec == Init /\ [][Next]_vars

-----------------------------------------------------------------------------
(* Properties *)

MetaFile ==
    [exists : BOOLEAN, written : 0 .. 3, torn : BOOLEAN, claim : Nat, outbound : BOOLEAN]

(* Every variable has its type. *)
TypeOK ==
    /\ meta \in MetaFile /\ metaDisk \in MetaFile
    /\ pgno \in [exists : BOOLEAN, header : BOOLEAN,
                frames : Seq(EnvelopeHeader), torn : BOOLEAN]
    /\ pgnoSynced \in BOOLEAN /\ created \in BOOLEAN
    /\ durable \in Nat
    /\ lock \in Writer \cup {Nobody}
    /\ phase \in [Writer -> Phase]
    /\ carried \in [Writer -> Nat]
    /\ index \in [Writer -> Index]
    /\ count \in [Writer -> Nat]
    /\ uncertain \in [Writer -> BOOLEAN]
    /\ pending \in [Writer -> EnvelopeHeader]
    /\ rphase \in [Reader -> {"Closed", "Empty", "Scanned", "Reading", "Broken"}]
    /\ view \in [Reader -> Seq(EnvelopeHeader)]
    /\ author \in Seq(Nat)
    /\ landed \in Seq(EnvelopeHeader)

(* Whatever dies or is lost between the write and the sync of a frame, the *)
(* frames of .pgno are one well-formed line: an event whose landing was    *)
(* undetermined is never written twice nor skipped in a link               *)
(* (append_block, open_write's recovery).                                  *)
FramesWellFormed == WellFormed(pgno.frames)

(* A session that may still append holds the lock and has indexed every    *)
(* frame of the file, and it never appends behind torn bytes (the rollback *)
(* of append_block and the uncertain state it sets).                       *)
WriterKnowsFile ==
    \A w \in Writer : phase[w] \in Writing /\ ~uncertain[w] =>
        /\ lock = w
        /\ ~pgno.torn
        /\ count[w] = Len(pgno.frames) - (IF phase[w] = "Syncing" THEN 1 ELSE 0)
        /\ index[w] = IndexOf(pgno.frames, count[w])

(* An event reported as landed, and every event before it, stays at its    *)
(* position on disk through crashes, power loss, rollbacks and the cutting *)
(* of torn tails.                                                          *)
LandedIsDurable ==
    /\ landed # << >> => Len(landed) < durable
    /\ Len(landed) <= Len(pgno.frames)
    /\ landed = SubSeq(pgno.frames, 1, Len(landed))

(* The file implements a line that only changes at its end and loses no    *)
(* event that was reported as landed: whatever fails, a step of the program *)
(* adds one event that continues its fiber, reports events as landed, or   *)
(* takes unreported events off the end (append_block, its rollback,        *)
(* reconcile_tail_state and the loss of power).                            *)
Durable == INSTANCE DurableLine WITH line <- pgno.frames, kept <- Len(landed)
DurableSpec == Durable!Spec

(* The epochs of the writers never decrease along the file: a writer that  *)
(* a claim recorded in .meta superseded may finish, but none of its writes *)
(* follows one of a later epoch (the lock, open_write's epoch check).      *)
EpochOrder ==
    \A i, j \in 1 .. Len(author) : i < j => author[i] <= author[j]

(* C5.10, the ownership record is created first: at no moment, and after   *)
(* no loss of power, does .pgno exist without a complete .meta.            *)
OwnershipRecordFirst == pgno.exists => meta.exists /\ meta.written = 3

(* C5.64, of concurrent creators one establishes the record: no two        *)
(* processes fill in .meta, none two .pgno, and no session appends to a    *)
(* .pgno whose header another process is still to write, although the      *)
(* creator holds no lock (create_new in create and complete_creation).     *)
ExclusiveCreation ==
    /\ \A v, w \in Writer :
          \A group \in {{"WritingMeta", "CreatingPgno"},
                       {"WritingHeader", "SyncingHeader", "LockingHeader"}} :
              phase[v] \in group /\ phase[w] \in group => v = w
    /\ \A w \in Writer : phase[w] = "WritingHeader" => pgno.frames = << >>

(* Once a creation or a completion has succeeded, .pgno can be scanned     *)
(* from its header on after any crash (create, complete_creation).         *)
CreatedStaysOpenable == created => pgno.exists /\ pgno.header

(* A reader holds no lock and may read again at any time, yet what it read *)
(* stays a prefix of the file as long as it runs: neither a rollback nor   *)
(* the cutting of a torn tail takes away a frame a reader has seen         *)
(* (open_read, reconcile_tail_state).                                      *)
ReaderViewStays ==
    \A r \in Reader : rphase[r] \in {"Reading", "Broken"} =>
        /\ Len(view[r]) <= Len(pgno.frames)
        /\ view[r] = SubSeq(pgno.frames, 1, Len(view[r]))

(* C5.10 and C5.64, that creation interrupted before the event data exists *)
(* is open for completion: with no creator at work, an ownership record    *)
(* alone is one complete_creation admits.                                  *)
InterruptedCreationCompletes ==
    meta.exists /\ ~pgno.exists /\ Quiet => CompletionAdmits(meta.claim)
=============================================================================
