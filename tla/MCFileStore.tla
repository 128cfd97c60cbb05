---------------------------- MODULE MCFileStore ----------------------------
(* Instances of FileStore for model checking. *)
EXTENDS FileStore, TLC

(* A digest that tells apart two contents of one event. *)
MCHash == (EventId \cup {ZeroId}) \X BOOLEAN

MCCommitment(env) == <<env.event_id, env.detached>>

Symmetry ==
    Permutations(Writer) \cup Permutations(Reader) \cup Permutations(EventId)
      \cup Permutations(FiberId)
=============================================================================
