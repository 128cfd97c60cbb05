-------------------------- MODULE LineIndexProofs --------------------------
(***************************************************************************)
(* What SessionIndex computes, for event lines of any length and for every *)
(* value of the limits: on the index of a prefix, validate_append admits   *)
(* exactly the envelopes that extend the prefix, and commit and            *)
(* process_frame lead from the index of one prefix to that of the next.    *)
(***************************************************************************)
EXTENDS LineIndex, FiniteSetTheorems, FunctionTheorems, SequenceTheorems,
        WellFoundedInduction, TLAPS

(* A prefix of a line has finitely many identifiers, fibers and positions. *)
LEMMA PrefixFinite ==
  ASSUME NEW log \in Seq(EnvelopeHeader), NEW n \in 0 .. Len(log)
  PROVE  /\ IsFiniteSet(IdsIn(log, n)) /\ Cardinality(IdsIn(log, n)) \in Nat
         /\ IsFiniteSet(FibersIn(log, n)) /\ Cardinality(FibersIn(log, n)) \in Nat
         /\ \A f : /\ IsFiniteSet(Positions(log, n, f))
                   /\ Cardinality(Positions(log, n, f)) \in Nat
<1>1. IsFiniteSet(1 .. n)
  BY FS_Interval
<1>2. \A i \in 1 .. n : log[i] \in EnvelopeHeader
  BY ElementOfSeq
<1>3. [i \in 1 .. n |-> log[i].event_id] \in Surjection(1 .. n, IdsIn(log, n))
  BY DEF Surjection, IdsIn
<1>4. IsFiniteSet(IdsIn(log, n))
  BY <1>1, <1>3, FS_Surjection
<1>5. FibersIn(log, n) = {log[i].fiber_id : i \in 1 .. n}
  BY <1>2 DEF FibersIn, Positions, EnvelopeHeader
<1>6. [i \in 1 .. n |-> log[i].fiber_id] \in Surjection(1 .. n, FibersIn(log, n))
  BY <1>5 DEF Surjection
<1>7. IsFiniteSet(FibersIn(log, n))
  BY <1>1, <1>6, FS_Surjection
<1>8. \A f : IsFiniteSet(Positions(log, n, f))
  BY <1>1, FS_Subset DEF Positions
<1> QED
  BY <1>4, <1>7, <1>8, FS_CardinalityType

(* A non-empty set of positions has a latest one. *)
LEMMA LatestInPrefix ==
  ASSUME NEW n \in Nat, NEW P \in SUBSET (1 .. n), P # {}
  PROVE  Latest(P) \in P /\ \A j \in P : j <= Latest(P)
<1> DEFINE T == {i \in Nat : n - i \in P}
<1>1. T \subseteq Nat /\ T # {}
  <2>1. PICK p \in P : TRUE
    OBVIOUS
  <2>2. n - p \in T
    BY <2>1
  <2> QED
    BY <2>2
<1>2. \E x \in T : \A y \in T : ~ (<<y, x>> \in OpToRel(<, Nat))
  <2> HIDE DEF T
  <2> QED
    BY <1>1, NatLessThanWellFounded, WFMin
<1>3. PICK x \in T : \A y \in T : ~ (<<y, x>> \in OpToRel(<, Nat))
  BY <1>2
<1>4. ASSUME NEW y \in T PROVE x <= y
  <2>1. x \in Nat /\ y \in Nat
    BY <1>1
  <2>2. <<y, x>> \in OpToRel(<, Nat) <=> y < x
    BY <2>1 DEF OpToRel
  <2>3. ~ (y < x)
    BY <2>2, <1>3, Zenon
  <2> QED
    BY <2>1, <2>3
<1>5. n - x \in P /\ \A j \in P : j <= n - x
  <2>1. ASSUME NEW j \in P PROVE j <= n - x
    <3>1. j \in 1 .. n /\ n - (n - j) = j /\ n - j \in Nat
      OBVIOUS
    <3>2. n - j \in T
      BY <3>1
    <3>3. x \in Nat /\ x <= n - j
      BY <3>2, <1>4
    <3> QED
      BY <3>1, <3>3
  <2> QED
    BY <2>1
<1> QED
  BY <1>5 DEF Latest

(* The latest of a set with a greatest element is that element. *)
LEMMA LatestIsGreatest ==
  ASSUME NEW P \in SUBSET Nat, NEW i \in P, \A j \in P : j <= i
  PROVE  Latest(P) = i
<1>1. \E k \in P : \A j \in P : j <= k
  OBVIOUS
<1>2. Latest(P) \in P /\ \A j \in P : j <= Latest(P)
  BY <1>1 DEF Latest
<1>3. Latest(P) <= i /\ i <= Latest(P) /\ Latest(P) \in Nat /\ i \in Nat
  BY <1>2
<1> QED
  BY <1>3

(* Two lines that agree on n events agree on everything defined from them. *)
LEMMA PrefixStable ==
  ASSUME NEW log, NEW more, NEW n \in Nat,
         \A i \in 1 .. n : more[i] = log[i]
  PROVE  /\ IndexOf(more, n) = IndexOf(log, n)
         /\ \A env : Extends(more, n, env) = Extends(log, n, env)
<1>1. \A f : Positions(more, n, f) = Positions(log, n, f)
  BY DEF Positions
<1>2. IdsIn(more, n) = IdsIn(log, n)
  BY DEF IdsIn
<1>3. FibersIn(more, n) = FibersIn(log, n)
  BY <1>1 DEF FibersIn
<1>4. ASSUME NEW f, Positions(log, n, f) # {}
      PROVE  more[Latest(Positions(log, n, f))] = log[Latest(Positions(log, n, f))]
  <2>1. Positions(log, n, f) \subseteq 1 .. n
    BY DEF Positions
  <2>2. Latest(Positions(log, n, f)) \in 1 .. n
    BY <2>1, <1>4, LatestInPrefix
  <2> QED
    BY <2>2
<1>5. \A f : SlotOf(more, n, f) = SlotOf(log, n, f)
  BY <1>1, <1>4 DEF SlotOf
<1>6. IndexOf(more, n) = IndexOf(log, n)
  BY <1>2, <1>5 DEF IndexOf
<1>7. ASSUME NEW env PROVE Extends(more, n, env) = Extends(log, n, env)
  BY <1>1, <1>2, <1>3, <1>4 DEF Extends
<1> QED
  BY <1>6, <1>7

(* The empty prefix has the index of a new session. *)
LEMMA EmptyIndex ==
  ASSUME NEW log
  PROVE  IndexOf(log, 0) = NewIndex
<1>1. \A f : Positions(log, 0, f) = {}
  BY DEF Positions
<1>2. IdsIn(log, 0) = {}
  BY DEF IdsIn
<1> QED
  BY <1>1, <1>2 DEF IndexOf, SlotOf, NewIndex

(* The fields of a fiber's slot in the index of a prefix. *)
LEMMA SlotFields ==
  ASSUME NEW log, NEW n, NEW f \in FiberId
  PROVE  /\ Positions(log, n, f) = {} => IndexOf(log, n).fibers[f] = NoSlot
         /\ Positions(log, n, f) # {} =>
              /\ IndexOf(log, n).fibers[f].kind = "Active"
              /\ IndexOf(log, n).fibers[f].tip = log[Latest(Positions(log, n, f))]
              /\ IndexOf(log, n).fibers[f].event_count
                   = Cardinality(Positions(log, n, f))
         /\ IndexOf(log, n).fibers[f].kind
              = IF Positions(log, n, f) = {} THEN "None" ELSE "Active"
<1>1. IndexOf(log, n).fibers[f] = SlotOf(log, n, f)
  BY DEF IndexOf
<1>2. CASE Positions(log, n, f) = {}
  BY <1>1, <1>2 DEF SlotOf, NoSlot
<1>3. CASE Positions(log, n, f) # {}
  <2>1. SlotOf(log, n, f) = [kind        |-> "Active",
                             tip         |-> log[Latest(Positions(log, n, f))],
                             event_count |-> Cardinality(Positions(log, n, f))]
    BY <1>3 DEF SlotOf
  <2> QED
    BY <1>1, <1>3, <2>1
<1> QED
  BY <1>2, <1>3

(* On the index of a prefix, validate_append admits exactly the envelopes  *)
(* that extend the prefix, and no fiber is broken.                         *)
LEMMA ValidateIffExtends ==
  ASSUME NEW log \in Seq(EnvelopeHeader), NEW n \in 0 .. Len(log),
         NEW env \in EnvelopeHeader
  PROVE  /\ ValidateAppend(IndexOf(log, n), env) = "Ok" <=> Extends(log, n, env)
         /\ \A f \in FiberId : IndexOf(log, n).fibers[f].kind # "Broken"
<1> DEFINE ix == IndexOf(log, n)
           g == env.fiber_id
           P == Positions(log, n, g)
<1>1. g \in FiberId
  BY DEF EnvelopeHeader
<1>2. ix.seen = IdsIn(log, n)
  BY DEF IndexOf
<1>4. \A f \in FiberId :
         ix.fibers[f].kind = IF Positions(log, n, f) = {} THEN "None" ELSE "Active"
  BY SlotFields
<1>5. Tracked(ix) = FibersIn(log, n)
  BY <1>4 DEF Tracked, FibersIn
<1>6. /\ Cardinality(FibersIn(log, n)) \in Nat
      /\ Cardinality(IdsIn(log, n)) \in Nat
      /\ Cardinality(P) \in Nat
  BY PrefixFinite
<1>7. MaxActiveFibers \in Nat /\ MaxEventsPerFiber \in Nat
      /\ MaxActiveFibers * MaxEventsPerFiber \in Nat
  BY LimitAssumption
<1>8. AtFiberCapacity(ix) <=> ~ (Cardinality(FibersIn(log, n)) < MaxActiveFibers)
  BY <1>5, <1>6, <1>7 DEF AtFiberCapacity
<1>9. AtSeenCapacity(ix)
      <=> ~ (Cardinality(IdsIn(log, n)) < MaxActiveFibers * MaxEventsPerFiber)
  BY <1>2, <1>6, <1>7 DEF AtSeenCapacity
<1>10. CASE P = {}
  <2>1. ix.fibers[g].kind = "None"
    BY <1>10, <1>4, <1>1
  <2> QED
    BY <2>1, <1>10, <1>2, <1>4, <1>8, <1>9
    DEF ValidateAppend, ValidateFirst, Extends
<1>11. CASE P # {}
  <2>1. /\ ix.fibers[g].kind = "Active"
        /\ ix.fibers[g].tip = log[Latest(P)]
        /\ ix.fibers[g].event_count = Cardinality(P)
    BY <1>11, <1>1, SlotFields
  <2>2. ValidateActive(ix.fibers[g], env) = "Ok"
        <=> /\ env.precursor # ZeroId
            /\ env.precursor = log[Latest(P)].event_id
            /\ env.precursor_hash = Commitment(log[Latest(P)])
            /\ Cardinality(P) < MaxEventsPerFiber
    BY <2>1, <1>6, <1>7 DEF ValidateActive
  <2> QED
    BY <2>1, <2>2, <1>11, <1>2, <1>4, <1>9 DEF ValidateAppend, Extends
<1> QED
  BY <1>10, <1>11

(* Committing the next event leads to the index of the longer prefix. *)
LEMMA CommitStep ==
  ASSUME NEW log \in Seq(EnvelopeHeader), NEW n \in 0 .. Len(log) - 1
  PROVE  CommitEnvelope(IndexOf(log, n), log[n + 1]) = IndexOf(log, n + 1)
<1> DEFINE e == log[n + 1]
           g == e.fiber_id
           ix == IndexOf(log, n)
<1>1. n \in Nat /\ n + 1 \in 1 .. Len(log) /\ n \in 0 .. Len(log)
  OBVIOUS
<1>2. e \in EnvelopeHeader /\ g \in FiberId
  <2>1. e \in EnvelopeHeader
    BY <1>1, ElementOfSeq
  <2> QED
    BY <2>1 DEF EnvelopeHeader
<1>3. IdsIn(log, n + 1) = IdsIn(log, n) \cup {e.event_id}
  <2>1. 1 .. n + 1 = (1 .. n) \cup {n + 1}
    BY <1>1
  <2> QED
    BY <2>1 DEF IdsIn
<1>4. \A f : f # g => Positions(log, n + 1, f) = Positions(log, n, f)
  BY <1>1 DEF Positions
<1>5. Positions(log, n + 1, g) = Positions(log, n, g) \cup {n + 1}
  BY <1>1 DEF Positions
<1>6. n + 1 \notin Positions(log, n, g) /\ Positions(log, n, g) \subseteq 1 .. n
  BY <1>1 DEF Positions
<1>7. Latest(Positions(log, n + 1, g)) = n + 1
  <2>1. Positions(log, n + 1, g) \in SUBSET Nat
    BY <1>1 DEF Positions
  <2>2. n + 1 \in Positions(log, n + 1, g)
    BY <1>5
  <2>3. \A j \in Positions(log, n + 1, g) : j <= n + 1
    BY <1>1 DEF Positions
  <2> HIDE DEF g
  <2> QED
    BY <2>1, <2>2, <2>3, LatestIsGreatest
<1>8. /\ Cardinality(Positions(log, n, g)) \in Nat
      /\ Cardinality(Positions(log, n + 1, g)) = Cardinality(Positions(log, n, g)) + 1
  <2>1. /\ IsFiniteSet(Positions(log, n, g))
        /\ Cardinality(Positions(log, n, g)) \in Nat
    BY <1>1, PrefixFinite
  <2> HIDE DEF g
  <2> QED
    BY <2>1, <1>5, <1>6, FS_AddElement
<1>9. SlotOf(log, n + 1, g) =
        [kind |-> "Active", tip |-> e, event_count |-> Cardinality(Positions(log, n, g)) + 1]
  BY <1>5, <1>7, <1>8 DEF SlotOf
<1>10. \A f : f # g => SlotOf(log, n + 1, f) = SlotOf(log, n, f)
  <2>1. ASSUME NEW f, f # g PROVE SlotOf(log, n + 1, f) = SlotOf(log, n, f)
    <3>1. Positions(log, n + 1, f) = Positions(log, n, f)
      BY <2>1, <1>4
    <3> QED
      BY <3>1 DEF SlotOf
  <2> QED
    BY <2>1
<1>11. ix.fibers[g] = SlotOf(log, n, g)
  BY <1>2 DEF IndexOf
<1>12. (IF ix.fibers[g].kind = "Active" THEN ix.fibers[g].event_count + 1 ELSE 1)
         = Cardinality(Positions(log, n, g)) + 1
  <2>1. CASE Positions(log, n, g) = {}
    <3>1. Cardinality(Positions(log, n, g)) = 0
      BY <2>1, FS_EmptySet
    <3>2. ix.fibers[g].kind = "None"
      BY <2>1, <1>11 DEF SlotOf, NoSlot
    <3> QED
      BY <3>1, <3>2
  <2>2. CASE Positions(log, n, g) # {}
    BY <2>2, <1>11 DEF SlotOf
  <2> QED
    BY <2>1, <2>2
<1>13. CommitEnvelope(ix, e) =
         [fibers |-> [ix.fibers EXCEPT ![g] = SlotOf(log, n + 1, g)],
          seen   |-> IdsIn(log, n + 1)]
  <2>1. ix.seen = IdsIn(log, n)
    BY DEF IndexOf
  <2> QED
    BY <2>1, <1>3, <1>9, <1>12 DEF CommitEnvelope
<1>14. [ix.fibers EXCEPT ![g] = SlotOf(log, n + 1, g)]
         = [f \in FiberId |-> SlotOf(log, n + 1, f)]
  <2>1. ix.fibers = [f \in FiberId |-> SlotOf(log, n, f)]
    BY DEF IndexOf
  <2> QED
    BY <2>1, <1>2, <1>10
<1> QED
  BY <1>13, <1>14 DEF IndexOf

(* Recovery of an event that extends the prefix: process_frame takes it,   *)
(* marks nothing broken, and leads to the index of the longer prefix.      *)
LEMMA ProcessStep ==
  ASSUME NEW log \in Seq(EnvelopeHeader), NEW n \in 0 .. Len(log) - 1,
         Extends(log, n, log[n + 1])
  PROVE  /\ ValidateAppend(IndexOf(log, n), log[n + 1]) = "Ok"
         /\ ProcessFrameAdmits(IndexOf(log, n), log[n + 1])
         /\ ProcessFrame(IndexOf(log, n), log[n + 1]) = IndexOf(log, n + 1)
         /\ CommitEnvelope(IndexOf(log, n), log[n + 1]) = IndexOf(log, n + 1)
<1>1. n + 1 \in 1 .. Len(log) /\ n \in 0 .. Len(log)
  OBVIOUS
<1>2. log[n + 1] \in EnvelopeHeader
  BY <1>1, ElementOfSeq
<1>3. log[n + 1].fiber_id \in FiberId
  BY <1>2 DEF EnvelopeHeader
<1>4. /\ ValidateAppend(IndexOf(log, n), log[n + 1]) = "Ok"
      /\ IndexOf(log, n).fibers[log[n + 1].fiber_id].kind # "Broken"
  BY <1>1, <1>2, <1>3, ValidateIffExtends
<1>5. CommitEnvelope(IndexOf(log, n), log[n + 1]) = IndexOf(log, n + 1)
  BY CommitStep
<1> QED
  BY <1>4, <1>5 DEF ProcessFrameAdmits, ProcessFrame, Breaks

(* An event that extends a well-formed line leaves it well formed. *)
LEMMA AppendWellFormed ==
  ASSUME NEW log \in Seq(EnvelopeHeader), NEW env \in EnvelopeHeader,
         WellFormed(log), Extends(log, Len(log), env)
  PROVE  WellFormed(Append(log, env))
<1> DEFINE more == Append(log, env)
<1>1. /\ Len(more) = Len(log) + 1
      /\ Len(log) \in Nat
      /\ \A i \in 1 .. Len(log) : more[i] = log[i]
      /\ more[Len(log) + 1] = env
  OBVIOUS
<1>2. ASSUME NEW n \in 1 .. Len(more) PROVE Extends(more, n - 1, more[n])
  <2>1. /\ n - 1 \in Nat
        /\ \A i \in 1 .. n - 1 : more[i] = log[i]
    BY <1>1, <1>2
  <2>2. \A e : Extends(more, n - 1, e) = Extends(log, n - 1, e)
    <3> HIDE DEF more
    <3> QED
      BY <2>1, PrefixStable
  <2>3. Extends(log, n - 1, more[n])
    <3>1. CASE n = Len(log) + 1
      BY <3>1, <1>1
    <3>2. CASE n \in 1 .. Len(log)
      BY <3>2, <1>1 DEF WellFormed
    <3> QED
      BY <3>1, <3>2, <1>1
  <2> QED
    BY <2>2, <2>3
<1> QED
  BY <1>2 DEF WellFormed

-----------------------------------------------------------------------------
(* The operations on an index keep its type. *)

(* The values that stand for no envelope and an unused slot have their     *)
(* types.                                                                  *)
LEMMA NoEnvelopeType == NoEnvelope \in EnvelopeHeader /\ NoSlot \in FiberSlot
<1>1. (CHOOSE f \in FiberId : TRUE) \in FiberId
  BY FiberAssumption
<1>2. NoEnvelope \in EnvelopeHeader
  BY <1>1 DEF NoEnvelope, EnvelopeHeader
<1> QED
  BY <1>2 DEF NoSlot, FiberSlot

(* SessionIndex::new gives an index. *)
LEMMA NewIndexType == NewIndex \in Index
  BY NoEnvelopeType DEF NewIndex, Index

(* commit_envelope_unchecked keeps an index an index. *)
LEMMA CommitType ==
  ASSUME NEW ix \in Index, NEW env \in EnvelopeHeader
  PROVE  CommitEnvelope(ix, env) \in Index
<1>1. /\ ix.fibers \in [FiberId -> FiberSlot]
      /\ ix.seen \in SUBSET (EventId \cup {ZeroId})
      /\ env.fiber_id \in FiberId
      /\ env.event_id \in EventId \cup {ZeroId}
  BY DEF Index, EnvelopeHeader
<1>2. ix.fibers[env.fiber_id] \in FiberSlot
  BY <1>1
<1>3. ix.fibers[env.fiber_id].event_count \in Nat
  BY <1>2 DEF FiberSlot
<1>4. [kind        |-> "Active",
       tip         |-> env,
       event_count |-> IF ix.fibers[env.fiber_id].kind = "Active"
                       THEN ix.fibers[env.fiber_id].event_count + 1 ELSE 1]
        \in FiberSlot
  BY <1>3 DEF FiberSlot
<1> QED
  BY <1>1, <1>4 DEF CommitEnvelope, Index

(* process_frame keeps an index an index, also when it marks a fiber       *)
(* broken.                                                                 *)
LEMMA ProcessType ==
  ASSUME NEW ix \in Index, NEW env \in EnvelopeHeader
  PROVE  ProcessFrame(ix, env) \in Index
<1>1. /\ env.fiber_id \in FiberId
      /\ env.event_id \in EventId \cup {ZeroId}
  BY DEF EnvelopeHeader
<1>2. ASSUME NEW jx \in Index PROVE RecordBroken(jx, env) \in Index
  <2>1. /\ jx.fibers \in [FiberId -> FiberSlot]
        /\ jx.seen \in SUBSET (EventId \cup {ZeroId})
    BY DEF Index
  <2>2. [jx.fibers[env.fiber_id] EXCEPT !.event_count = @ + 1] \in FiberSlot
    BY <2>1, <1>1 DEF FiberSlot
  <2> QED
    BY <2>1, <2>2, <1>1 DEF RecordBroken, Index
<1>3. MarkFiberBroken(ix, env.fiber_id) \in Index
  <2>1. /\ ix.fibers \in [FiberId -> FiberSlot]
        /\ ix.fibers[env.fiber_id] \in FiberSlot
    BY <1>1 DEF Index
  <2>2. ix.fibers[env.fiber_id].event_count \in Nat
    BY <2>1 DEF FiberSlot
  <2>3. [kind |-> "Broken", tip |-> NoEnvelope,
         event_count |-> ix.fibers[env.fiber_id].event_count] \in FiberSlot
    BY <2>2, NoEnvelopeType DEF FiberSlot
  <2> QED
    BY <2>1, <2>3, <1>1 DEF MarkFiberBroken, Index
<1> QED
  BY <1>2, <1>3, CommitType DEF ProcessFrame

(* What a fiber's handle mints from a typed index is an envelope. *)
LEMMA MintType ==
  ASSUME NEW ix \in Index, NEW f \in FiberId, NEW id \in EventId
  PROVE  /\ HandleAppend(Fiber(ix, f), id).env \in EnvelopeHeader
         /\ HandleDetach(Fiber(ix, f), id).env \in EnvelopeHeader
         /\ HandleRescue(Fiber(ix, f), id).env \in EnvelopeHeader
<1> DEFINE h == Fiber(ix, f)
<1>1. ix.fibers[f] \in FiberSlot
  BY DEF Index
<1>2. /\ ix.fibers[f].tip \in EnvelopeHeader
      /\ ix.fibers[f].event_count \in Nat
  BY <1>1 DEF FiberSlot
<1>3. /\ Commitment(ix.fibers[f].tip) \in Hash
      /\ ix.fibers[f].tip.event_id \in EventId \cup {ZeroId}
  <2>1. Commitment(ix.fibers[f].tip) \in Hash
    BY <1>2, CommitmentAssumption
  <2> QED
    BY <1>2, <2>1 DEF EnvelopeHeader
<1>4. h \in Handle
  BY <1>2, <1>3 DEF Fiber, NewHandle, Handle, FiberState
<1>5. /\ h.fiber_id \in FiberId
      /\ h.precursor \in EventId \cup {ZeroId}
      /\ h.precursor_hash \in Hash \cup {ZeroHash}
  BY <1>4 DEF Handle
<1> HIDE DEF h
<1>6. \A d \in BOOLEAN : ChainedTo(h, id, d) \in EnvelopeHeader
  BY <1>5 DEF ChainedTo, EnvelopeHeader
<1>7. /\ Genesis(id, h.fiber_id) \in EnvelopeHeader
      /\ Genesis(ZeroId, h.fiber_id) \in EnvelopeHeader
  BY <1>5 DEF Genesis, EnvelopeHeader
<1>8. \A env, st : Minted(h, env, st).env = env
  BY DEF Minted
<1>9. Refuse(h).env = Genesis(ZeroId, h.fiber_id)
  BY DEF Refuse
<1>10. HandleAppend(h, id).env \in EnvelopeHeader
  BY <1>6, <1>7, <1>8, <1>9 DEF HandleAppend
<1>11. HandleDetach(h, id).env \in EnvelopeHeader
  BY <1>6, <1>7, <1>8, <1>9 DEF HandleDetach
<1>12. HandleRescue(h, id).env \in EnvelopeHeader
  BY <1>6, <1>7, <1>8, <1>9 DEF HandleRescue
<1> QED
  BY <1>10, <1>11, <1>12 DEF h

(* The index of a prefix is an index. *)
LEMMA IndexOfType ==
  ASSUME NEW log \in Seq(EnvelopeHeader), NEW n \in 0 .. Len(log)
  PROVE  IndexOf(log, n) \in Index
<1>1. \A i \in 1 .. n : log[i] \in EnvelopeHeader
  BY ElementOfSeq
<1>2. IdsIn(log, n) \in SUBSET (EventId \cup {ZeroId})
  BY <1>1 DEF IdsIn, EnvelopeHeader
<1>3. ASSUME NEW f \in FiberId PROVE SlotOf(log, n, f) \in FiberSlot
  <2>1. CASE Positions(log, n, f) = {}
    BY <2>1, NoEnvelopeType DEF SlotOf
  <2>2. CASE Positions(log, n, f) # {}
    <3>1. Positions(log, n, f) \in SUBSET (1 .. n) /\ n \in Nat
      BY DEF Positions
    <3>2. Latest(Positions(log, n, f)) \in 1 .. n
      BY <2>2, <3>1, LatestInPrefix
    <3>3. Cardinality(Positions(log, n, f)) \in Nat
      BY PrefixFinite
    <3>4. log[Latest(Positions(log, n, f))] \in EnvelopeHeader
      BY <1>1, <3>2
    <3> QED
      BY <2>2, <3>3, <3>4 DEF SlotOf, FiberSlot
  <2> QED
    BY <2>1, <2>2
<1> QED
  BY <1>2, <1>3 DEF IndexOf, Index

(* build_from_frames computes, frame by frame, the index of each prefix of *)
(* a well-formed line.                                                     *)
LEMMA RebuiltIsIndex ==
  ASSUME NEW log \in Seq(EnvelopeHeader), WellFormed(log)
  PROVE  \A n \in 0 .. Len(log) : Rebuilt(log)[n] = IndexOf(log, n)
<1> DEFINE D == 0 .. Len(log)
           F(g) == [n \in D |-> IF n = 0 THEN NewIndex ELSE ProcessFrame(g[n - 1], log[n])]
           g0 == [n \in D |-> IndexOf(log, n)]
           g == Rebuilt(log)
<1>1. ASSUME NEW n \in D, n # 0
      PROVE  n - 1 \in D /\ ProcessFrame(IndexOf(log, n - 1), log[n]) = IndexOf(log, n)
  <2>1. n - 1 \in 0 .. Len(log) - 1 /\ n \in 1 .. Len(log) /\ (n - 1) + 1 = n
    BY <1>1
  <2>2. Extends(log, n - 1, log[n])
    BY <2>1 DEF WellFormed
  <2>3. ProcessFrame(IndexOf(log, n - 1), log[(n - 1) + 1]) = IndexOf(log, (n - 1) + 1)
    BY <2>1, <2>2, ProcessStep
  <2> QED
    BY <2>1, <2>3
<1>2. g0 = F(g0)
  <2>1. ASSUME NEW n \in D PROVE g0[n] = F(g0)[n]
    <3>1. CASE n = 0
      BY <3>1, EmptyIndex
    <3>2. CASE n # 0
      BY <3>2, <1>1
    <3> QED
      BY <3>1, <3>2
  <2> QED
    BY <2>1
<1>3. g = F(g)
  <2>1. g = CHOOSE h : h = F(h)
    BY DEF Rebuilt
  <2>2. \E h : h = F(h)
    BY <1>2
  <2> QED
    BY <2>1, <2>2
<1> DEFINE T == {n \in D : g[n] # IndexOf(log, n)}
<1>4. SUFFICES ASSUME T # {} PROVE FALSE
  OBVIOUS
<1>5. T \subseteq Nat
  OBVIOUS
<1>6. PICK x \in T : \A y \in T : ~ (<<y, x>> \in OpToRel(<, Nat))
  <2> HIDE DEF T
  <2> QED
    BY <1>4, <1>5, NatLessThanWellFounded, WFMin
<1>7. x \in D /\ g[x] # IndexOf(log, x)
  OBVIOUS
<1>8. x # 0
  BY <1>3, <1>7, EmptyIndex
<1>9. x - 1 \notin T
  <2>1. SUFFICES ASSUME x - 1 \in T PROVE FALSE
    OBVIOUS
  <2>2. x - 1 \in Nat /\ x \in Nat /\ x - 1 < x
    BY <1>7, <1>8
  <2>3. <<x - 1, x>> \in OpToRel(<, Nat)
    BY <2>2 DEF OpToRel
  <2> QED
    BY <1>6, <2>1, <2>3
<1>10. x - 1 \in D /\ g[x - 1] = IndexOf(log, x - 1)
  BY <1>1, <1>7, <1>8, <1>9
<1>11. g[x] = ProcessFrame(g[x - 1], log[x])
  <2> HIDE DEF g
  <2> QED
    BY <1>3, <1>7, <1>8
<1> QED
  BY <1>1, <1>7, <1>8, <1>10, <1>11

-----------------------------------------------------------------------------
(* An index over a line that may have breaks. *)

(* One more event, seen from each fiber. *)
LEMMA IntactStep ==
  ASSUME NEW log \in Seq(EnvelopeHeader), NEW n \in 0 .. Len(log) - 1, NEW f
  PROVE  /\ log[n + 1].fiber_id = f =>
              (Intact(log, n + 1, f) <=> Intact(log, n, f) /\ Extends(log, n, log[n + 1]))
         /\ log[n + 1].fiber_id # f =>
              /\ Intact(log, n + 1, f) <=> Intact(log, n, f)
              /\ SlotOf(log, n + 1, f) = SlotOf(log, n, f)
<1>1. n \in Nat /\ (n + 1) - 1 = n
  OBVIOUS
<1>2. CASE log[n + 1].fiber_id = f
  <2>1. Positions(log, n + 1, f) = Positions(log, n, f) \cup {n + 1}
    BY <1>1, <1>2 DEF Positions
  <2> QED
    BY <1>1, <1>2, <2>1 DEF Intact
<1>3. CASE log[n + 1].fiber_id # f
  <2>1. Positions(log, n + 1, f) = Positions(log, n, f)
    BY <1>1, <1>3 DEF Positions
  <2> QED
    BY <1>3, <2>1 DEF Intact, SlotOf
<1> QED
  BY <1>2, <1>3

(* What is known of a prefix stays known when the line grows. *)
LEMMA KnowsStable ==
  ASSUME NEW log, NEW more, NEW n \in Nat,
         \A i \in 1 .. n : more[i] = log[i]
  PROVE  /\ \A f : Intact(more, n, f) <=> Intact(log, n, f)
         /\ \A ix : Knows(ix, more, n) <=> Knows(ix, log, n)
<1>1. \A f : Positions(more, n, f) = Positions(log, n, f)
  BY DEF Positions
<1>2. ASSUME NEW i \in 1 .. n
      PROVE  Extends(more, i - 1, more[i]) = Extends(log, i - 1, log[i])
  <2>1. /\ i - 1 \in Nat
        /\ \A j \in 1 .. i - 1 : more[j] = log[j]
        /\ more[i] = log[i]
    OBVIOUS
  <2> QED
    BY <2>1, PrefixStable
<1>3. ASSUME NEW f PROVE Intact(more, n, f) <=> Intact(log, n, f)
  <2>1. Positions(log, n, f) \subseteq 1 .. n
    BY DEF Positions
  <2> QED
    BY <2>1, <1>1, <1>2 DEF Intact
<1>4. IdsIn(more, n) = IdsIn(log, n)
  BY DEF IdsIn
<1>5. ASSUME NEW f \in FiberId PROVE SlotOf(more, n, f) = SlotOf(log, n, f)
  <2>1. IndexOf(more, n) = IndexOf(log, n)
    BY PrefixStable
  <2>2. /\ IndexOf(more, n).fibers[f] = SlotOf(more, n, f)
        /\ IndexOf(log, n).fibers[f] = SlotOf(log, n, f)
    BY DEF IndexOf
  <2> QED
    BY <2>1, <2>2
<1> QED
  BY <1>3, <1>4, <1>5 DEF Knows

(* A new session knows the empty prefix. *)
LEMMA KnowsEmpty ==
  ASSUME NEW log
  PROVE  Knows(NewIndex, log, 0)
<1>1. \A f : Positions(log, 0, f) = {}
  BY DEF Positions
<1>2. IdsIn(log, 0) = {}
  BY DEF IdsIn
<1> QED
  BY <1>1, <1>2 DEF Knows, Intact, SlotOf, NewIndex

(* validate_append admits exactly what extends the prefix in a fiber       *)
(* without a break.                                                        *)
LEMMA ValidateKnows ==
  ASSUME NEW log \in Seq(EnvelopeHeader), NEW n \in 0 .. Len(log),
         NEW env \in EnvelopeHeader, NEW ix, Knows(ix, log, n)
  PROVE  /\ ValidateAppend(ix, env) = "Ok"
              <=> Intact(log, n, env.fiber_id) /\ Extends(log, n, env)
         /\ ix.fibers[env.fiber_id].kind = "Broken" <=> ~Intact(log, n, env.fiber_id)
<1> DEFINE jx == IndexOf(log, n)
           g == env.fiber_id
<1>1. g \in FiberId
  BY DEF EnvelopeHeader
<1>2. ix.seen = jx.seen
  BY DEF Knows, IndexOf
<1>3. \A f \in FiberId : jx.fibers[f] = SlotOf(log, n, f)
  BY DEF IndexOf
<1>4. \A f \in FiberId : SlotOf(log, n, f).kind # "Broken"
  BY <1>3, SlotFields
<1>5. ix.fibers[g].kind = "Broken" <=> ~Intact(log, n, g)
  BY <1>1, <1>4 DEF Knows
<1>6. CASE Intact(log, n, g)
  <2>1. ix.fibers[g] = jx.fibers[g]
    BY <1>1, <1>3, <1>6 DEF Knows
  <2>2. ASSUME NEW f \in FiberId
        PROVE  ix.fibers[f].kind # "None" <=> jx.fibers[f].kind # "None"
    <3>1. CASE Intact(log, n, f)
      BY <3>1, <1>3 DEF Knows
    <3>2. CASE ~Intact(log, n, f)
      <4>1. Positions(log, n, f) # {}
        BY <3>2 DEF Intact
      <4> QED
        BY <3>2, <4>1, SlotFields DEF Knows
    <3> QED
      BY <3>1, <3>2
  <2>3. Tracked(ix) = Tracked(jx)
    BY <2>2 DEF Tracked
  <2>4. ValidateAppend(ix, env) = ValidateAppend(jx, env)
    BY <1>2, <2>1, <2>3
    DEF ValidateAppend, ValidateFirst, AtSeenCapacity, AtFiberCapacity
  <2> QED
    BY <1>5, <1>6, <2>4, ValidateIffExtends
<1>7. CASE ~Intact(log, n, g)
  BY <1>5, <1>7 DEF ValidateAppend
<1> QED
  BY <1>6, <1>7

(* Committing an admitted event leads to an index that knows it as well. *)
LEMMA CommitKnows ==
  ASSUME NEW log \in Seq(EnvelopeHeader), NEW n \in 0 .. Len(log) - 1,
         NEW ix \in Index, Knows(ix, log, n),
         ValidateAppend(ix, log[n + 1]) = "Ok"
  PROVE  Knows(CommitEnvelope(ix, log[n + 1]), log, n + 1)
<1> DEFINE e == log[n + 1]
           g == e.fiber_id
           jx == IndexOf(log, n)
           cx == CommitEnvelope(ix, e)
           dx == CommitEnvelope(jx, e)
<1>1. n \in 0 .. Len(log) /\ n + 1 \in 1 .. Len(log)
  OBVIOUS
<1>2. e \in EnvelopeHeader
  BY <1>1, ElementOfSeq
<1>3. g \in FiberId
  BY <1>2 DEF EnvelopeHeader
<1>4. Intact(log, n, g) /\ Extends(log, n, e)
  BY <1>1, <1>2, ValidateKnows
<1>5. dx = IndexOf(log, n + 1)
  BY CommitStep
<1>6. ix.fibers[g] = jx.fibers[g] /\ ix.seen = jx.seen
  BY <1>3, <1>4 DEF Knows, IndexOf
<1>7. ix.fibers \in [FiberId -> FiberSlot] /\ DOMAIN jx.fibers = FiberId
  BY DEF Index, IndexOf
<1>8. cx.seen = dx.seen /\ cx.fibers[g] = dx.fibers[g]
  BY <1>3, <1>6, <1>7 DEF CommitEnvelope
<1>9. cx.seen = IdsIn(log, n + 1) /\ cx.fibers[g] = SlotOf(log, n + 1, g)
  BY <1>3, <1>5, <1>8 DEF IndexOf
<1>10. \A f \in FiberId : f # g => cx.fibers[f] = ix.fibers[f]
  BY <1>3, <1>7 DEF CommitEnvelope
<1> HIDE DEF cx, dx, jx
<1>11. ASSUME NEW f \in FiberId
       PROVE  IF Intact(log, n + 1, f)
              THEN cx.fibers[f] = SlotOf(log, n + 1, f)
              ELSE cx.fibers[f].kind = "Broken"
  <2>1. CASE f = g
    BY <2>1, <1>4, <1>9, IntactStep
  <2>2. CASE f # g
    BY <2>2, <1>10, IntactStep DEF Knows
  <2> QED
    BY <2>1, <2>2
<1> QED
  BY <1>9, <1>11 DEF Knows, cx

(* Recovery of any event that process_frame admits: a break is recorded in *)
(* the fiber it strikes and in no other.                                   *)
LEMMA ProcessKnows ==
  ASSUME NEW log \in Seq(EnvelopeHeader), NEW n \in 0 .. Len(log) - 1,
         NEW ix \in Index, Knows(ix, log, n),
         ProcessFrameAdmits(ix, log[n + 1])
  PROVE  Knows(ProcessFrame(ix, log[n + 1]), log, n + 1)
<1> DEFINE e == log[n + 1]
           g == e.fiber_id
           px == ProcessFrame(ix, e)
<1>1. n \in 0 .. Len(log) /\ n + 1 \in 1 .. Len(log) /\ n \in Nat
  OBVIOUS
<1>2. e \in EnvelopeHeader
  BY <1>1, ElementOfSeq
<1>3. g \in FiberId
  BY <1>2 DEF EnvelopeHeader
<1>4. ix.fibers \in [FiberId -> FiberSlot]
  BY DEF Index
<1>5. ValidateAppend(ix, e) = "Ok" <=> Intact(log, n, g) /\ Extends(log, n, e)
  BY <1>1, <1>2, ValidateKnows
<1>6. ix.fibers[g].kind = "Broken" <=> ~Intact(log, n, g)
  BY <1>1, <1>2, ValidateKnows
<1>7. CASE ValidateAppend(ix, e) = "Ok"
  <2>1. px = CommitEnvelope(ix, e)
    BY <1>5, <1>6, <1>7 DEF ProcessFrame, Breaks
  <2> QED
    BY <2>1, <1>7, CommitKnows
<1>8. CASE ValidateAppend(ix, e) # "Ok"
  <2>1. ~Intact(log, n + 1, g)
    BY <1>5, <1>8, IntactStep
  <2>2. ix.fibers[g].kind = "Broken" \/ Breaks(ix, e)
    BY <1>8 DEF ProcessFrameAdmits
  <2>3. PICK mx : /\ px = RecordBroken(mx, e)
                  /\ DOMAIN mx.fibers = FiberId
                  /\ mx.seen = ix.seen
                  /\ mx.fibers[g].kind = "Broken"
                  /\ "kind" \in DOMAIN mx.fibers[g]
                  /\ \A f \in FiberId : f # g => mx.fibers[f] = ix.fibers[f]
    <3>1. CASE ix.fibers[g].kind = "Broken"
      <4>1. ix.fibers[g] \in FiberSlot
        BY <1>3, <1>4
      <4>2. "kind" \in DOMAIN ix.fibers[g]
        BY <4>1 DEF FiberSlot
      <4> QED
        BY <3>1, <4>2, <1>4 DEF ProcessFrame
    <3>2. CASE ix.fibers[g].kind # "Broken"
      <4> DEFINE mx == MarkFiberBroken(ix, g)
      <4>1. px = RecordBroken(mx, e)
        BY <3>2, <2>2 DEF ProcessFrame
      <4>2. mx.fibers = [ix.fibers EXCEPT ![g] =
                            [kind |-> "Broken", tip |-> NoEnvelope,
                             event_count |-> ix.fibers[g].event_count]]
            /\ mx.seen = ix.seen
        BY DEF MarkFiberBroken, Index
      <4> HIDE DEF mx
      <4>3. /\ DOMAIN mx.fibers = FiberId
            /\ mx.fibers[g] = [kind |-> "Broken", tip |-> NoEnvelope,
                               event_count |-> ix.fibers[g].event_count]
            /\ \A f \in FiberId : f # g => mx.fibers[f] = ix.fibers[f]
        BY <4>2, <1>3, <1>4
      <4>4. mx.fibers[g].kind = "Broken" /\ "kind" \in DOMAIN mx.fibers[g]
        BY <4>3
      <4> QED
        BY <4>1, <4>2, <4>3, <4>4
    <3> QED
      BY <3>1, <3>2
  <2> HIDE DEF px
  <2>4. /\ px.seen = IdsIn(log, n) \cup {e.event_id}
        /\ px.fibers = [mx.fibers EXCEPT ![g].event_count = @ + 1]
    BY <2>3 DEF RecordBroken, Knows
  <2>5. /\ px.fibers[g].kind = "Broken"
        /\ \A f \in FiberId : f # g => px.fibers[f] = ix.fibers[f]
    BY <2>3, <2>4, <1>3
  <2>6. IdsIn(log, n + 1) = IdsIn(log, n) \cup {e.event_id}
    <3>1. 1 .. n + 1 = (1 .. n) \cup {n + 1}
      BY <1>1
    <3> QED
      BY <3>1 DEF IdsIn
  <2>7. ASSUME NEW f \in FiberId
        PROVE  IF Intact(log, n + 1, f)
               THEN px.fibers[f] = SlotOf(log, n + 1, f)
               ELSE px.fibers[f].kind = "Broken"
    <3>1. CASE f = g
      BY <3>1, <2>1, <2>5
    <3>2. CASE f # g
      BY <3>2, <2>5, IntactStep DEF Knows
    <3> QED
      BY <3>1, <3>2
  <2> QED
    BY <2>4, <2>6, <2>7 DEF Knows, px
<1> QED
  BY <1>7, <1>8

(* Without breaks an index that knows a prefix is the index of the prefix. *)
LEMMA KnowsIsIndex ==
  ASSUME NEW log \in Seq(EnvelopeHeader), NEW n \in 0 .. Len(log),
         NEW ix \in Index, WellFormed(log), Knows(ix, log, n)
  PROVE  ix = IndexOf(log, n)
<1>1. ASSUME NEW f PROVE Intact(log, n, f)
  <2>1. Positions(log, n, f) \subseteq 1 .. Len(log)
    BY DEF Positions
  <2> QED
    BY <2>1 DEF Intact, WellFormed
<1>2. \A f \in FiberId : ix.fibers[f] = SlotOf(log, n, f)
  BY <1>1 DEF Knows
<1>3. ix.fibers = [f \in FiberId |-> SlotOf(log, n, f)]
  BY <1>2 DEF Index
<1>4. ix = [fibers |-> ix.fibers, seen |-> ix.seen]
  BY DEF Index
<1> QED
  BY <1>3, <1>4 DEF IndexOf, Knows
=============================================================================
