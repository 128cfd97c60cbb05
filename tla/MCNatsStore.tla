---------------------------- MODULE MCNatsStore ----------------------------
(* Instances of NatsStore for model checking. *)
EXTENDS NatsStoreInv, TLC

(* A digest that tells apart two contents of one event: the detached flag  *)
(* stands for the rest of the envelope.                                    *)
MCHash == (EventId \cup {ZeroId}) \X BOOLEAN

MCCommitment(env) == <<env.event_id, env.detached>>

(* Every envelope whose links are all zero or all non-zero. *)
AllRaw ==
    {env \in EnvelopeHeader :
        (env.precursor = ZeroId) = (env.precursor_hash = ZeroHash)}

NoEnvelopes == {}

(* Foreign frames: any fiber and identifier, linked nowhere. *)
Unlinked == {Genesis(id, f) : id \in EventId \cup {ZeroId}, f \in FiberId}

Symmetry ==
    Permutations(Session) \cup Permutations(EventId) \cup Permutations(FiberId)
=============================================================================
