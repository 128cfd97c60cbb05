------------------------------ MODULE Dragline ------------------------------
(***************************************************************************)
(* What a dragline promises (clause C2.1 of docs/spec/pardosa-1.0.md): one *)
(* event line, extended at its end by one event at a time, each event      *)
(* continuing the chain of its fiber.  Nothing is ever removed, replaced   *)
(* or reordered.  The storage adapters are shown to implement it.          *)
(***************************************************************************)
EXTENDS EventLine

VARIABLE line

Init == line = << >>

Commit(env) ==
    /\ Extends(line, Len(line), env)
    /\ line' = Append(line, env)

Next == \E env \in EnvelopeHeader : Commit(env)

Spec == Init /\ [][Next]_line
=============================================================================
