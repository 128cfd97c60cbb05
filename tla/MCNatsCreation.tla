--------------------------- MODULE MCNatsCreation ---------------------------
(* Instances of NatsCreation for model checking. *)
EXTENDS NatsCreation, TLC

Symmetry == Permutations(Process)
=============================================================================
