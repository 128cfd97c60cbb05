---------------------------- MODULE SessionIndex ----------------------------
(***************************************************************************)
(* The session index a Store keeps in memory: the tip and event count of   *)
(* every fiber and the event identifiers seen                              *)
(* (crates/pardosa/src/store/session_index.rs).                            *)
(*                                                                         *)
(* A fiber without an entry in the code's map has NoSlot here.  The        *)
(* revision counter and the diagnostics are left out; has_raw_frames is    *)
(* left out because no path of the library sets it.                        *)
(***************************************************************************)
EXTENDS FiberHandle

NoEnvelope ==
    [event_id       |-> ZeroId,
     fiber_id       |-> CHOOSE f \in FiberId : TRUE,
     detached       |-> FALSE,
     precursor      |-> ZeroId,
     precursor_hash |-> ZeroHash]

NoSlot == [kind |-> "None", tip |-> NoEnvelope, event_count |-> 0]

FiberSlot ==
    [kind        : {"None", "Active", "Broken"},
     tip         : EnvelopeHeader,
     event_count : Nat]

Index ==
    [fibers : [FiberId -> FiberSlot], seen : SUBSET (EventId \cup {ZeroId})]

NewIndex == [fibers |-> [f \in FiberId |-> NoSlot], seen |-> {}]

Tracked(index) == {f \in FiberId : index.fibers[f].kind # "None"}

HasBrokenFibers(index) == \E f \in FiberId : index.fibers[f].kind = "Broken"

AtFiberCapacity(index) == Cardinality(Tracked(index)) >= MaxActiveFibers

AtSeenCapacity(index) ==
    Cardinality(index.seen) >= MaxActiveFibers * MaxEventsPerFiber

-----------------------------------------------------------------------------
(* SessionIndex::validate_append, as the verdict of the first check that   *)
(* refuses: "Ok", or the FailureCondition it names.                        *)

FailureCondition == {"Empty", "PrecursorChainBroken", "TooLong", "InvariantBreaking"}

ValidateActive(slot, env) ==
    IF \/ env.precursor = ZeroId
       \/ env.precursor # slot.tip.event_id
       \/ env.precursor_hash # Commitment(slot.tip)
    THEN "PrecursorChainBroken"
    ELSE IF slot.event_count >= MaxEventsPerFiber THEN "TooLong" ELSE "Ok"

(* Mutant of ValidateFirst: the links of a first event are not checked. *)
AnyFirst(index, env) == IF AtFiberCapacity(index) THEN "TooLong" ELSE "Ok"

ValidateFirst(index, env) ==
    IF AtFiberCapacity(index) THEN "TooLong"
    ELSE IF IsGenesis(env) THEN "Ok" ELSE "PrecursorChainBroken"

ValidateAppend(index, env) ==
    LET slot == index.fibers[env.fiber_id]
    IN  IF env.event_id = ZeroId THEN "Empty"
        ELSE IF env.event_id \in index.seen THEN "PrecursorChainBroken"
        ELSE IF AtSeenCapacity(index) THEN "TooLong"
        ELSE IF slot.kind = "Broken" THEN "InvariantBreaking"
        ELSE IF slot.kind = "Active" THEN ValidateActive(slot, env)
        ELSE ValidateFirst(index, env)

(* Mutant of CommitEnvelope: the identifier is not remembered. *)
CommitUnseen(index, env) ==
    [index EXCEPT !.fibers[env.fiber_id] =
        [kind        |-> "Active",
         tip         |-> env,
         event_count |-> IF @.kind = "Active" THEN @.event_count + 1 ELSE 1]]

(* SessionIndex::commit_envelope_unchecked *)
CommitEnvelope(index, env) ==
    LET f == env.fiber_id
        old == index.fibers[f]
    IN  [fibers |-> [index.fibers EXCEPT ![f] =
                        [kind        |-> "Active",
                         tip         |-> env,
                         event_count |-> IF old.kind = "Active"
                                         THEN old.event_count + 1 ELSE 1]],
         seen   |-> index.seen \cup {env.event_id}]

(* SessionIndex::mark_fiber_broken; the tip of a broken fiber is dropped. *)
MarkFiberBroken(index, f) ==
    [index EXCEPT !.fibers[f] =
        [kind |-> "Broken", tip |-> NoEnvelope, event_count |-> @.event_count]]

(* SessionIndex::record_broken_event_id *)
RecordBrokenAdmits(index, env) ==
    /\ index.fibers[env.fiber_id].event_count + 1 <= MaxEventsPerFiber
    /\ env.event_id \in index.seen \/ ~AtSeenCapacity(index)

RecordBroken(index, env) ==
    [fibers |-> [index.fibers EXCEPT ![env.fiber_id].event_count = @ + 1],
     seen   |-> index.seen \cup {env.event_id}]

(***************************************************************************)
(* SessionIndex::process_frame: one frame of recovery.  A break is         *)
(* recorded in the fiber it strikes and recovery goes on; a limit stops    *)
(* it.  ProcessFrameAdmits says when it returns Ok, ProcessFrame the index *)
(* it then leaves.                                                         *)
(***************************************************************************)
Breaks(index, env) ==
    /\ index.fibers[env.fiber_id].kind # "Broken"
    /\ ValidateAppend(index, env) = "PrecursorChainBroken"

ProcessFrameAdmits(index, env) ==
    \/ /\ index.fibers[env.fiber_id].kind = "Broken"
       /\ RecordBrokenAdmits(index, env)
    \/ ValidateAppend(index, env) = "Ok"
    \/ /\ Breaks(index, env)
       /\ index.fibers[env.fiber_id].kind # "None" \/ ~AtFiberCapacity(index)
       /\ RecordBrokenAdmits(index, env)

(* Mutant of ProcessFrame: an event that breaks its fiber becomes its tip. *)
CommitBroken(index, env) == CommitEnvelope(index, env)

ProcessFrame(index, env) ==
    IF index.fibers[env.fiber_id].kind = "Broken"
    THEN RecordBroken(index, env)
    ELSE IF Breaks(index, env)
    THEN RecordBroken(MarkFiberBroken(index, env.fiber_id), env)
    ELSE CommitEnvelope(index, env)

(* SessionIndex::build_from_frames: the index after each number of frames. *)
Rebuilt(frames) ==
    LET ix[n \in 0 .. Len(frames)] ==
            IF n = 0 THEN NewIndex ELSE ProcessFrame(ix[n - 1], frames[n])
    IN  ix

-----------------------------------------------------------------------------
(* SessionIndex::fiber: the handle of a fiber that is not broken. *)
FiberAdmits(index, f) == index.fibers[f].kind # "Broken"

Fiber(index, f) ==
    LET slot == index.fibers[f]
    IN  IF slot.kind = "None"
        THEN NewHandle(f)
        ELSE [fiber_id       |-> f,
              state          |-> IF slot.tip.detached THEN "Detached" ELSE "Defined",
              precursor      |-> slot.tip.event_id,
              precursor_hash |-> Commitment(slot.tip),
              event_count    |-> slot.event_count]
=============================================================================
