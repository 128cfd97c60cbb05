----------------------------- MODULE EventLine -----------------------------
(***************************************************************************)
(* Well-formed event lines, stated on the sequence of events alone and     *)
(* without any index: identifiers are unique and every event continues the *)
(* chain of its fiber.  This is the reference the session index and the    *)
(* storage adapters are compared with.                                     *)
(***************************************************************************)
EXTENDS Envelope

(* The positions among the first n at which fiber f has an event. *)
Positions(log, n, f) == {i \in 1 .. n : log[i].fiber_id = f}

Latest(S) == CHOOSE i \in S : \A j \in S : j <= i

FibersIn(log, n) == {f \in FiberId : Positions(log, n, f) # {}}

IdsIn(log, n) == {log[i].event_id : i \in 1 .. n}

(***************************************************************************)
(* env may follow the first n events of log: its identifier is new, and it *)
(* is either its fiber's genesis or names the fiber's latest event, by     *)
(* identifier and by commitment; the fiber and the dragline have room.     *)
(***************************************************************************)
Extends(log, n, env) ==
    LET P == Positions(log, n, env.fiber_id)
    IN  /\ env.event_id # ZeroId
        /\ env.event_id \notin IdsIn(log, n)
        /\ Cardinality(IdsIn(log, n)) < MaxActiveFibers * MaxEventsPerFiber
        /\ \/ /\ P = {}
              /\ IsGenesis(env)
              /\ Cardinality(FibersIn(log, n)) < MaxActiveFibers
           \/ /\ P # {}
              /\ env.precursor # ZeroId
              /\ env.precursor = log[Latest(P)].event_id
              /\ env.precursor_hash = Commitment(log[Latest(P)])
              /\ Cardinality(P) < MaxEventsPerFiber

(* Every event of log extends the events before it. *)
WellFormed(log) == \A n \in 1 .. Len(log) : Extends(log, n - 1, log[n])
=============================================================================
