---------------------------- MODULE DurableLine ----------------------------
(***************************************************************************)
(* What an artefact kept in a file promises (clauses C2.1, C5.10 and C5.16 *)
(* of docs/spec/pardosa-1.0.md): one event line that only ever changes at  *)
(* its end.  Events are added one at a time, each continuing the chain of  *)
(* its fiber; a failure may take events away again from the end, but never *)
(* one of the first `kept` events, which were reported as landed.          *)
(***************************************************************************)
EXTENDS EventLine

VARIABLES line, kept

vars == <<line, kept>>

Init == line = << >> /\ kept = 0

Extend(env) ==
    /\ line' = Append(line, env)
    /\ Extends(line, Len(line), env)
    /\ UNCHANGED kept

(* An event and all before it are reported as landed. *)
Keep ==
    /\ kept' \in kept .. Len(line)
    /\ UNCHANGED line

(* A failure: events that were not reported may go. *)
Lose ==
    /\ \E n \in kept .. Len(line) : line' = SubSeq(line, 1, n)
    /\ UNCHANGED kept

Next == Keep \/ Lose \/ \E env \in EnvelopeHeader : Extend(env)

Spec == Init /\ [][Next]_vars
=============================================================================
