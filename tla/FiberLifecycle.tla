--------------------------- MODULE FiberLifecycle ---------------------------
(***************************************************************************)
(* Handles and the session index side by side: an application keeps a      *)
(* FiberHandle per fiber, mints envelopes with it and hands them to a      *)
(* SessionIndex (crates/pardosa/src/store/fiber_handle.rs and              *)
(* session_index.rs, used together as Store::append_to_fiber does).  Both  *)
(* keep the tip and the count of a fiber, each with checks of its own.     *)
(***************************************************************************)
EXTENDS LineIndex

VARIABLES
    handles,   \* the FiberHandle of each fiber
    index,     \* the SessionIndex
    log        \* the envelopes committed

vars == <<handles, index, log>>

Init ==
    /\ handles = [f \in FiberId |-> NewHandle(f)]
    /\ index = NewIndex
    /\ log = << >>

(* The envelope is validated and committed; if it is refused the handle is *)
(* dropped, as Store::append_to_fiber drops the one it made.               *)
Commit(f, minted) ==
    /\ minted.ok
    /\ ValidateAppend(index, minted.env) = "Ok"
    /\ handles' = [handles EXCEPT ![f] = minted.handle]
    /\ index' = CommitEnvelope(index, minted.env)
    /\ log' = Append(log, minted.env)

Minting(f, id) ==
    {HandleAppend(handles[f], id), HandleDetach(handles[f], id),
     HandleRescue(handles[f], id)}

Next == \E f \in FiberId, id \in EventId : \E minted \in Minting(f, id) : Commit(f, minted)

Spec == Init /\ [][Next]_vars

-----------------------------------------------------------------------------
(* Properties *)

(* The lifecycle state the first n events give fiber f. *)
StateAt(envs, n, f) ==
    IF Positions(envs, n, f) = {} THEN "Undefined"
    ELSE IF envs[Latest(Positions(envs, n, f))].detached THEN "Detached"
    ELSE "Defined"

(* What is committed moves every fiber by legal transitions of FiberState  *)
(* other than migration (apply_action): no fiber is created detached or    *)
(* detached twice in a row, as C6.39 says that exactly one event of a      *)
(* detaching fiber records the detachment, although the index that admits  *)
(* the events never looks at the detached flag.                            *)
LifecycleLegal ==
    \A k \in 1 .. Len(log) :
        LET f == log[k].fiber_id
        IN  \E a \in AttemptedTransition :
               /\ a.kind # "Migrate"
               /\ StateAt(log, k, f) \in ApplyAction(StateAt(log, k - 1, f), a)

(* The envelopes of fiber f among the first n, for each n. *)
Histories(envs, f) ==
    LET h[n \in 0 .. Len(envs)] ==
            IF n = 0 THEN << >>
            ELSE IF envs[n].fiber_id = f THEN Append(h[n - 1], envs[n])
            ELSE h[n - 1]
    IN  h

History(f) == Histories(log, f)[Len(log)]

(* Three accounts of a fiber agree: the handle that minted its events, the *)
(* handle the index would give out, and the one from_envelopes rebuilds    *)
(* from the events, which it admits; and with_state admits them all.       *)
HandlesAgree ==
    \A f \in FiberId :
        /\ handles[f] = Fiber(index, f)
        /\ FromEnvelopesAdmits(f, History(f))
        /\ handles[f] = FromEnvelopes(f, History(f))
        /\ WithStateAdmits(handles[f])

(* Recovery rebuilds the index: replaying the committed envelopes through  *)
(* process_frame is never refused and gives the same index.                *)
ReplayRebuildsIndex ==
    /\ \A n \in 1 .. Len(log) : ProcessFrameAdmits(Rebuilt(log)[n - 1], log[n])
    /\ Rebuilt(log)[Len(log)] = index
    /\ index = IndexOf(log, Len(log))

(* The index refuses an envelope that a handle mints only for what the     *)
(* handle cannot know: an identifier used elsewhere, or a dragline that is *)
(* full.  Links and fiber limits are then no reason to refuse.             *)
IndexTrustsHandles ==
    \A f \in FiberId, id \in EventId : \A minted \in Minting(f, id) :
        /\ minted.ok
        /\ id \notin index.seen
        /\ ~AtSeenCapacity(index)
        /\ index.fibers[f].kind = "None" => ~AtFiberCapacity(index)
        => ValidateAppend(index, minted.env) = "Ok"
=============================================================================
