--------------------------- MODULE ArtefactReader ---------------------------
(***************************************************************************)
(* The scoped reader session over a queue of envelopes (ArtefactReader of  *)
(* crates/pardosa/src/store.rs), with a tracking of fibers of its own      *)
(* beside the one of SessionIndex.  The envelopes are taken eagerly, from  *)
(* an iterator or from container frames, within two limits, and are then   *)
(* observed one by one.                                                    *)
(*                                                                         *)
(* Brands, locators and cursors are compile-time matters and left out.     *)
(***************************************************************************)
EXTENDS EventLine

CONSTANTS
    Input,           \* envelopes the iterator or the frames may hold
    Size(_),         \* bytes an envelope is charged: 85 and its payload
    MaxStreamItems,  \* MAX_STREAM_ITEMS
    MaxStreamBytes,  \* MAX_STREAM_BYTES
    MaxPosition      \* u64::MAX, the last value of the position counter

ASSUME ReaderAssumption ==
    /\ Input \subseteq EnvelopeHeader
    /\ \A env \in Input : Size(env) \in Nat
    /\ MaxStreamItems \in Nat /\ MaxStreamBytes \in Nat /\ MaxPosition \in Nat

(* The reader has no limit per fiber: MAX_STREAM_ITEMS (65,536) is below   *)
(* MAX_EVENTS_PER_FIBER (100,000), as it is below u64::MAX.                *)
ASSUME StreamLimitAssumption ==
    MaxStreamItems <= MaxEventsPerFiber /\ MaxStreamItems <= MaxPosition

VARIABLES
    phase,      \* "Stream" or "Frames" while ingesting, "Reading", or "Refused"
    queue,      \* stream
    retained,   \* retained_bytes, and total_bytes while frames are decoded
    capacity,   \* capacity_refused or byte_capacity_refused
    failed,     \* terminally_failed
    position,   \* observed_position
    fibers,     \* fibers: the tracking of each fiber with a genesis
    observed    \* observed_events: the fiber of each event identifier

(* History: what was ingested and from where, and what read_event returned *)
(* other than the end of the stream.                                       *)
VARIABLES input, source, outcomes

reading == <<failed, position, fibers, observed, outcomes>>
vars == <<phase, queue, retained, capacity, reading, input, source>>

(* The bytes the first n envelopes are charged, for each n. *)
Sizes(envs) ==
    LET sum[n \in 0 .. Len(envs)] == IF n = 0 THEN 0 ELSE sum[n - 1] + Size(envs[n])
    IN  sum

TotalSize(envs) == Sizes(envs)[Len(envs)]

Init ==
    /\ phase \in {"Stream", "Frames"}
    /\ queue = << >>
    /\ retained = 0
    /\ capacity = FALSE
    /\ failed = FALSE
    /\ position = 0
    /\ fibers = << >>
    /\ observed = << >>
    /\ input = << >>
    /\ source = phase
    /\ outcomes = << >>

-----------------------------------------------------------------------------
(* Ingestion. *)

(* An envelope is taken after n others that are charged bytes. *)
Fits(n, bytes, env) ==
    n < MaxStreamItems /\ bytes + Size(env) <= MaxStreamBytes

Take(env) ==
    /\ queue' = Append(queue, env)
    /\ input' = Append(input, env)

(* with_stream takes the next envelope of the iterator. *)
StreamItem(env) ==
    /\ phase = "Stream"
    /\ Fits(Len(queue), retained, env)
    /\ Take(env)
    /\ retained' = retained + Size(env)
    /\ UNCHANGED <<phase, capacity, reading, source>>

(* mark_terminally_failed: what was queued is dropped. *)
Fail ==
    /\ failed' = TRUE
    /\ queue' = << >>
    /\ retained' = 0

(* The iterator exceeds a limit: the reader is opened in terminal failure. *)
StreamExceeds(env) ==
    /\ phase = "Stream"
    /\ ~Fits(Len(queue), retained, env)
    /\ capacity' = TRUE
    /\ Fail
    /\ phase' = "Reading"
    /\ UNCHANGED <<position, fibers, observed, outcomes, input, source>>

StreamEnd ==
    /\ phase = "Stream"
    /\ phase' = "Reading"
    /\ UNCHANGED <<queue, retained, capacity, reading, input, source>>

(* with_frames decodes the next frame; that its undecoded payload fits is  *)
(* implied, the envelope being charged no less.                            *)
FrameItem(env) ==
    /\ phase = "Frames"
    /\ Fits(Len(queue), retained, env)
    /\ Take(env)
    /\ retained' = retained + Size(env)
    /\ UNCHANGED <<phase, capacity, reading, source>>

(* A frame exceeds a limit, fails its checksum or does not decode: no      *)
(* reader is opened.                                                       *)
FrameRefused ==
    /\ phase = "Frames"
    /\ phase' = "Refused"
    /\ UNCHANGED <<queue, retained, capacity, reading, input, source>>

(* Mutant of FramesEnd: the bytes of the decoding are charged once more. *)
FramesRecharged ==
    /\ phase = "Frames"
    /\ phase' = "Reading"
    /\ IF retained + TotalSize(queue) <= MaxStreamBytes
       THEN UNCHANGED <<queue, retained, capacity, failed>>
       ELSE capacity' = TRUE /\ Fail
    /\ UNCHANGED <<position, fibers, observed, outcomes, input, source>>

(* All frames are decoded; with_stream takes the envelopes, counting anew. *)
FramesEnd ==
    /\ phase = "Frames"
    /\ phase' = "Reading"
    /\ IF Len(queue) <= MaxStreamItems /\ TotalSize(queue) <= MaxStreamBytes
       THEN /\ retained' = TotalSize(queue)
            /\ UNCHANGED <<queue, capacity, failed>>
       ELSE capacity' = TRUE /\ Fail
    /\ UNCHANGED <<position, fibers, observed, outcomes, input, source>>

-----------------------------------------------------------------------------
(* read_event *)

Returned(outcome) == outcomes' = Append(outcomes, outcome)

(* The first call after a limit was exceeded says so; later ones are None. *)
ReadRefusal ==
    /\ phase = "Reading"
    /\ capacity
    /\ capacity' = FALSE
    /\ Fail
    /\ Returned("Capacity")
    /\ UNCHANGED <<phase, position, fibers, observed, input, source>>

(* The checks of read_event, in their order. *)
GenesisVerdict(env) ==
    IF env.precursor_hash # ZeroHash THEN "PrecursorChainBroken"
    ELSE IF Cardinality(DOMAIN fibers) >= MaxActiveFibers THEN "TooLong"
    ELSE IF env.fiber_id \in DOMAIN fibers THEN "PrecursorChainBroken"
    ELSE "Ok"

ChainedVerdict(env) ==
    IF env.precursor \notin DOMAIN observed THEN "PrecursorOutOfRange"
    ELSE IF observed[env.precursor] # env.fiber_id THEN "PrecursorWrongFiber"
    ELSE IF env.fiber_id \notin DOMAIN fibers THEN "PrecursorOutOfRange"
    ELSE IF \/ fibers[env.fiber_id].last_event_id # env.precursor
            \/ fibers[env.fiber_id].last_commitment_hash # env.precursor_hash
    THEN "PrecursorChainBroken"
    ELSE "Ok"

EventVerdict(env) ==
    IF env.event_id \in DOMAIN observed THEN "PrecursorChainBroken"
    ELSE IF env.precursor = ZeroId THEN GenesisVerdict(env)
    ELSE ChainedVerdict(env)

(* observe_genesis and observe_event check again before they record. *)
ObserveAdmits(env) ==
    /\ env.event_id \notin DOMAIN observed
    /\ position < MaxPosition
    /\ \/ /\ IsGenesis(env)
          /\ Cardinality(DOMAIN fibers) < MaxActiveFibers
          /\ env.fiber_id \notin DOMAIN fibers
       \/ /\ env.precursor # ZeroId
          /\ env.fiber_id \in DOMAIN fibers
          /\ fibers[env.fiber_id].last_event_id = env.precursor
          /\ fibers[env.fiber_id].last_commitment_hash = env.precursor_hash

Update(f, x, value) == [y \in DOMAIN f \cup {x} |-> IF y = x THEN value ELSE f[y]]

(* Mutant of Observe: the tip of the fiber is not moved. *)
ObserveOnly(env) ==
    /\ position' = position + 1
    /\ fibers' = IF env.fiber_id \in DOMAIN fibers THEN fibers
                 ELSE Update(fibers, env.fiber_id,
                             [last_event_id        |-> env.event_id,
                              last_commitment_hash |-> Commitment(env)])
    /\ observed' = Update(observed, env.event_id, env.fiber_id)

(* Mutant of Observe: the tip is recorded without its digest. *)
ObserveUnsealed(env) ==
    /\ position' = position + 1
    /\ fibers' = Update(fibers, env.fiber_id,
                        [last_event_id        |-> env.event_id,
                         last_commitment_hash |-> ZeroHash])
    /\ observed' = Update(observed, env.event_id, env.fiber_id)

Observe(env) ==
    /\ position' = position + 1
    /\ fibers' = Update(fibers, env.fiber_id,
                        [last_event_id        |-> env.event_id,
                         last_commitment_hash |-> Commitment(env)])
    /\ observed' = Update(observed, env.event_id, env.fiber_id)

ReadObserves ==
    /\ phase = "Reading" /\ ~capacity /\ ~failed
    /\ queue # << >>
    /\ EventVerdict(Head(queue)) = "Ok" /\ ObserveAdmits(Head(queue))
    /\ queue' = Tail(queue)
    /\ retained' = retained - Size(Head(queue))
    /\ Observe(Head(queue))
    /\ Returned("Observed")
    /\ UNCHANGED <<phase, capacity, failed, input, source>>

(* Mutant of ReadFails: the session reads on behind a broken event. *)
ReadPastFailure ==
    /\ phase = "Reading" /\ ~capacity /\ ~failed
    /\ queue # << >>
    /\ EventVerdict(Head(queue)) # "Ok"
    /\ queue' = Tail(queue)
    /\ retained' = retained - Size(Head(queue))
    /\ Returned(EventVerdict(Head(queue)))
    /\ UNCHANGED <<phase, capacity, failed, position, fibers, observed, input, source>>

(* A refused event ends the session; so does one that the checks admit and *)
(* the recording does not.                                                 *)
ReadFails ==
    /\ phase = "Reading" /\ ~capacity /\ ~failed
    /\ queue # << >>
    /\ ~(EventVerdict(Head(queue)) = "Ok" /\ ObserveAdmits(Head(queue)))
    /\ Fail
    /\ Returned(IF EventVerdict(Head(queue)) = "Ok" THEN "Overflow"
                ELSE EventVerdict(Head(queue)))
    /\ UNCHANGED <<phase, capacity, position, fibers, observed, input, source>>

-----------------------------------------------------------------------------

Next ==
    \/ \E env \in Input : StreamItem(env) \/ StreamExceeds(env) \/ FrameItem(env)
    \/ StreamEnd \/ FrameRefused \/ FramesEnd
    \/ ReadRefusal \/ ReadObserves \/ ReadFails

Spec == Init /\ [][Next]_vars

-----------------------------------------------------------------------------
(* PrecursorLink::classify and admit_precursor_link: the walk along a      *)
(* fiber, resolving a precursor among the first n events of log.           *)

Resolve(log, n, id) == {i \in 1 .. n : log[i].event_id = id}

LinkAdmitted(fiber_id, log, n, env) ==
    /\ env.precursor = ZeroId => env.precursor_hash = ZeroHash
    /\ env.fiber_id = fiber_id
    /\ env.precursor # ZeroId =>
          \E i \in Resolve(log, n, env.precursor) :
              /\ log[i].fiber_id = fiber_id
              /\ env.precursor_hash = Commitment(log[i])

-----------------------------------------------------------------------------
(* Properties *)

HasReturned(outcome) == \E i \in 1 .. Len(outcomes) : outcomes[i] = outcome

(* What a reader has observed is the front of what it was given, and a     *)
(* well-formed line by the definition the session index satisfies, as long *)
(* as no event has the zero identifier, which only the index refuses       *)
(* (read_event against validate_append).                                   *)
ObservedIsALine ==
    /\ position <= Len(input)
    /\ ZeroId \notin IdsIn(input, position) => WellFormed(SubSeq(input, 1, position))

(* A reader fails for no other reason: the event at which it stopped does  *)
(* not extend what it observed, so a line that writers could write is read *)
(* to its end.                                                             *)
FailureIsABreak ==
    failed /\ ~capacity /\ ~HasReturned("Capacity") =>
        /\ position < Len(input)
        /\ ~Extends(input, position, input[position + 1])

(* What is checked twice is judged the same way twice: the limits that     *)
(* with_frames checks while it decodes never make with_stream refuse the   *)
(* reader afterwards, observe_genesis and observe_event never refuse what  *)
(* read_event let pass, and the position counter does not run out.         *)
ChecksAgree ==
    /\ source = "Frames" => ~capacity /\ ~HasReturned("Capacity")
    /\ ~HasReturned("Overflow")

(* An error is the last thing read_event returns, whatever was queued      *)
(* behind it, and nothing stays charged: retained_bytes is the size of     *)
(* what is queued.                                                         *)
ErrorIsLast ==
    /\ \A i \in 1 .. Len(outcomes) : outcomes[i] # "Observed" => i = Len(outcomes)
    /\ retained = TotalSize(queue) /\ retained <= MaxStreamBytes

(* A walk along a fiber with admit_precursor_link admits every event that  *)
(* a reader observed.                                                      *)
WalkAdmits ==
    \A n \in 1 .. position :
        LinkAdmitted(input[n].fiber_id, input, n - 1, input[n])
=============================================================================
