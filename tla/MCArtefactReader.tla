-------------------------- MODULE MCArtefactReader --------------------------
(* Instances of ArtefactReader for model checking. *)
EXTENDS ArtefactReader, TLC

(* A digest that tells events apart. *)
MCHash == EventId \cup {ZeroId}

MCCommitment(env) == env.event_id

(* An event with links is charged more than a genesis. *)
MCSize(env) == IF env.precursor = ZeroId THEN 1 ELSE 2

(* Every identifier and fiber, with links that are all zero, half zero, or *)
(* the identifier and digest of any event.                                 *)
MCInput ==
    {env \in EnvelopeHeader :
        /\ ~env.detached
        /\ \/ env.precursor = ZeroId /\ env.precursor_hash \in {ZeroHash, ZeroId}
           \/ env.precursor # ZeroId /\ env.precursor_hash \in {ZeroHash, env.precursor}}

Symmetry == Permutations(EventId) \cup Permutations(FiberId)
=============================================================================
