----------------------------- MODULE LineIndex -----------------------------
(***************************************************************************)
(* The session index a prefix of an event line determines, defined on the  *)
(* line itself.  SessionIndex computes it one frame at a time.             *)
(***************************************************************************)
EXTENDS SessionIndex, EventLine

SlotOf(log, n, f) ==
    LET P == Positions(log, n, f)
    IN  IF P = {}
        THEN NoSlot
        ELSE [kind        |-> "Active",
              tip         |-> log[Latest(P)],
              event_count |-> Cardinality(P)]

IndexOf(log, n) ==
    [fibers |-> [f \in FiberId |-> SlotOf(log, n, f)], seen |-> IdsIn(log, n)]

(* Every event of fiber f among the first n extended what was before it. *)
Intact(log, n, f) == \A i \in Positions(log, n, f) : Extends(log, i - 1, log[i])

(* What an index says of a prefix that may have breaks: exactly the fibers *)
(* with a break are broken, and the others are as the prefix has them.     *)
Knows(index, log, n) ==
    /\ index.seen = IdsIn(log, n)
    /\ \A f \in FiberId :
          IF Intact(log, n, f)
          THEN index.fibers[f] = SlotOf(log, n, f)
          ELSE index.fibers[f].kind = "Broken"
=============================================================================
