------------------------------ MODULE Envelope ------------------------------
(***************************************************************************)
(* The event envelope: what every frame of a dragline carries              *)
(* (crates/pardosa/src/encoding.rs).                                       *)
(*                                                                         *)
(* The header fields are kept.  The payload appears only through           *)
(* Commitment, the BLAKE3 digest of header and payload, which stands as a  *)
(* constant operator: nothing is assumed of it except that it never        *)
(* returns the all-zero digest.                                            *)
(***************************************************************************)
EXTENDS Naturals, Sequences, FiniteSets

CONSTANTS
    FiberId,            \* fiber identifiers
    EventId,            \* non-zero event identifiers
    ZeroId,             \* the all-zero identifier: "no precursor"
    Hash,               \* non-zero precursor hashes
    ZeroHash,           \* the all-zero hash
    Commitment(_),      \* compute_envelope_commitment
    MaxEventsPerFiber,  \* MAX_EVENTS_PER_FIBER
    MaxActiveFibers     \* MAX_ACTIVE_FIBERS

EnvelopeHeader ==
    [event_id       : EventId \cup {ZeroId},
     fiber_id       : FiberId,
     detached       : BOOLEAN,
     precursor      : EventId \cup {ZeroId},
     precursor_hash : Hash \cup {ZeroHash}]

ASSUME FiberAssumption == FiberId # {}

ASSUME ZeroAssumption ==
    /\ ZeroId \notin EventId
    /\ ZeroHash \notin Hash

ASSUME CommitmentAssumption ==
    \A env \in EnvelopeHeader : Commitment(env) \in Hash

ASSUME LimitAssumption ==
    /\ MaxEventsPerFiber \in Nat \ {0}
    /\ MaxActiveFibers \in Nat \ {0}

(* EventEnvelope::genesis: the first envelope of a fiber. *)
Genesis(event_id, fiber_id) ==
    [event_id       |-> event_id,
     fiber_id       |-> fiber_id,
     detached       |-> FALSE,
     precursor      |-> ZeroId,
     precursor_hash |-> ZeroHash]

IsGenesis(env) ==
    /\ env.precursor = ZeroId
    /\ env.precursor_hash = ZeroHash
=============================================================================
