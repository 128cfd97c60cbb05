-------------------------- MODULE MCFiberLifecycle --------------------------
(* Instances of FiberLifecycle for model checking. *)
EXTENDS FiberLifecycle

(* A digest that tells apart two contents of one event. *)
MCHash == (EventId \cup {ZeroId}) \X BOOLEAN

MCCommitment(env) == <<env.event_id, env.detached>>
=============================================================================
