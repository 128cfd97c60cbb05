---------------------------- MODULE FiberHandle ----------------------------
(***************************************************************************)
(* The lifecycle of one fiber: the FiberState transition table             *)
(* (crates/pardosa/src/store.rs) and the FiberHandle that mints envelopes  *)
(* (crates/pardosa/src/store/fiber_handle.rs).                             *)
(*                                                                         *)
(* A handle operation yields [ok, handle, env]; when it refuses, ok is     *)
(* FALSE, the handle is the one it was given and env is not to be used.    *)
(***************************************************************************)
EXTENDS Envelope

FiberState == {"Undefined", "Defined", "Detached", "Purged", "Locked"}

FiberMigrationPolicy == {"Keep", "Purge", "LockAndPrune"}

AttemptedTransition ==
    [kind : {"Create", "Update", "Detach", "Rescue"}]
      \cup [kind : {"Migrate"}, policy : FiberMigrationPolicy]

(* FiberState::apply_action: the states a transition may end in, empty     *)
(* when it is illegal.                                                     *)
ApplyAction(state, action) ==
    {to \in FiberState :
        \/ /\ action.kind = "Create"
           /\ state \in {"Undefined", "Purged"} /\ to = "Defined"
        \/ /\ action.kind = "Update"
           /\ state = "Defined" /\ to = "Defined"
        \/ /\ action.kind = "Detach"
           /\ state = "Defined" /\ to = "Detached"
        \/ /\ action.kind = "Rescue"
           /\ state \in {"Detached", "Locked"} /\ to = "Defined"
        \/ /\ action.kind = "Migrate" /\ action.policy = "Keep"
           /\ state = "Detached" /\ to = "Detached"
        \/ /\ action.kind = "Migrate" /\ action.policy = "LockAndPrune"
           /\ state = "Detached" /\ to = "Locked"
        \/ /\ action.kind = "Migrate" /\ action.policy = "Purge"
           /\ state \in {"Detached", "Locked"} /\ to = "Purged"}

-----------------------------------------------------------------------------

Handle ==
    [fiber_id       : FiberId,
     state          : FiberState,
     precursor      : EventId \cup {ZeroId},
     precursor_hash : Hash \cup {ZeroHash},
     event_count    : Nat]

(* FiberHandle::new *)
NewHandle(fiber_id) ==
    [fiber_id       |-> fiber_id,
     state          |-> "Undefined",
     precursor      |-> ZeroId,
     precursor_hash |-> ZeroHash,
     event_count    |-> 0]

(* The state and tip combinations FiberHandle::with_state admits. *)
WithStateAdmits(h) ==
    IF h.state \in {"Undefined", "Purged"}
    THEN /\ h.precursor = ZeroId
         /\ h.precursor_hash = ZeroHash
         /\ h.event_count = 0
    ELSE /\ h.precursor # ZeroId
         /\ h.precursor_hash # ZeroHash
         /\ h.event_count \in 1 .. MaxEventsPerFiber

Refuse(h) == [ok |-> FALSE, handle |-> h, env |-> Genesis(ZeroId, h.fiber_id)]

(* Mutant of Minted: the hash of the previous tip stays. *)
StaleHash(h, env, state) ==
    [ok     |-> TRUE,
     handle |-> [h EXCEPT !.precursor   = env.event_id,
                          !.state       = state,
                          !.event_count = @ + 1],
     env    |-> env]

(* The handle after it minted env: the envelope becomes its precursor. *)
Minted(h, env, state) ==
    [ok     |-> TRUE,
     handle |-> [h EXCEPT !.precursor      = env.event_id,
                          !.precursor_hash = Commitment(env),
                          !.state          = state,
                          !.event_count    = @ + 1],
     env    |-> env]

(* The envelope that follows the handle's precursor. *)
ChainedTo(h, event_id, detached) ==
    [event_id       |-> event_id,
     fiber_id       |-> h.fiber_id,
     detached       |-> detached,
     precursor      |-> h.precursor,
     precursor_hash |-> h.precursor_hash]

(* The three checks append, detach and rescue all begin with. *)
AdmitsId(h, event_id) ==
    /\ event_id # ZeroId
    /\ event_id # h.precursor
    /\ h.event_count < MaxEventsPerFiber

HandleAppend(h, event_id) ==
    IF AdmitsId(h, event_id) /\ h.state \in {"Undefined", "Purged"}
    THEN Minted(h, Genesis(event_id, h.fiber_id), "Defined")
    ELSE IF AdmitsId(h, event_id) /\ h.state = "Defined"
    THEN Minted(h, ChainedTo(h, event_id, FALSE), "Defined")
    ELSE Refuse(h)

(* Mutant of HandleDetach: a detached fiber is detached again. *)
DetachAgain(h, event_id) ==
    IF AdmitsId(h, event_id) /\ h.state \in {"Defined", "Detached"}
    THEN Minted(h, ChainedTo(h, event_id, TRUE), "Detached")
    ELSE Refuse(h)

HandleDetach(h, event_id) ==
    IF AdmitsId(h, event_id) /\ h.state = "Defined"
    THEN Minted(h, ChainedTo(h, event_id, TRUE), "Detached")
    ELSE Refuse(h)

(* Mutant of HandleRescue: a detached fiber starts anew, as a locked one. *)
RescueAnew(h, event_id) ==
    IF AdmitsId(h, event_id) /\ h.state \in {"Detached", "Locked"}
    THEN Minted(h, Genesis(event_id, h.fiber_id), "Defined")
    ELSE Refuse(h)

HandleRescue(h, event_id) ==
    IF AdmitsId(h, event_id) /\ h.state = "Detached"
    THEN Minted(h, ChainedTo(h, event_id, FALSE), "Defined")
    ELSE IF AdmitsId(h, event_id) /\ h.state = "Locked"
    THEN Minted(h, Genesis(event_id, h.fiber_id), "Defined")
    ELSE Refuse(h)

(* FiberHandle::from_envelopes: the history is one fiber's unbroken chain. *)
FromEnvelopesAdmits(fiber_id, envs) ==
    /\ Len(envs) <= MaxEventsPerFiber
    /\ \A i \in 1 .. Len(envs) :
          /\ envs[i].event_id # ZeroId
          /\ envs[i].fiber_id = fiber_id
          /\ \A j \in 1 .. i - 1 : envs[j].event_id # envs[i].event_id
          /\ IF i = 1
             THEN IsGenesis(envs[i])
             ELSE /\ envs[i].precursor = envs[i-1].event_id
                  /\ envs[i].precursor_hash = Commitment(envs[i-1])

FromEnvelopes(fiber_id, envs) ==
    IF envs = << >>
    THEN NewHandle(fiber_id)
    ELSE LET tip == envs[Len(envs)]
         IN  [fiber_id       |-> fiber_id,
              state          |-> IF tip.detached THEN "Detached" ELSE "Defined",
              precursor      |-> tip.event_id,
              precursor_hash |-> Commitment(tip),
              event_count    |-> Len(envs)]
=============================================================================
