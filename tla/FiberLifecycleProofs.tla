------------------------ MODULE FiberLifecycleProofs ------------------------
(***************************************************************************)
(* Handles and the session index agree about every fiber, for any number   *)
(* of fibers and events and all limits, and the events committed move each *)
(* fiber by legal transitions.                                             *)
(***************************************************************************)
EXTENDS FiberLifecycle, LineIndexProofs

-----------------------------------------------------------------------------
(* The inductive invariant. *)

(* The recursive definition of Histories has a solution, so its equation   *)
(* can be used.                                                            *)
HistoryStep(envs, f, h) ==
    [n \in 0 .. Len(envs) |->
        IF n = 0 THEN << >>
        ELSE IF envs[n].fiber_id = f THEN Append(h[n - 1], envs[n])
        ELSE h[n - 1]]

HistoryDefined(envs, f) == Histories(envs, f) = HistoryStep(envs, f, Histories(envs, f))

LineInv ==
    /\ log \in Seq(EnvelopeHeader)
    /\ WellFormed(log)
    /\ index = IndexOf(log, Len(log))

(* The identifiers in the history of a fiber are known to the index, so    *)
(* that a new one is new to the fiber as well.                             *)
HistoryInv(f) ==
    /\ HistoryDefined(log, f)
    /\ History(f) \in Seq(EnvelopeHeader)
    /\ \A i \in 1 .. Len(History(f)) : History(f)[i].event_id \in index.seen

AgreeInv(f) ==
    /\ handles[f] = Fiber(index, f)
    /\ FromEnvelopesAdmits(f, History(f))
    /\ handles[f] = FromEnvelopes(f, History(f))
    /\ WithStateAdmits(handles[f])

IInv ==
    /\ LineInv
    /\ handles \in [FiberId -> Handle]
    /\ \A f \in FiberId : HistoryInv(f) /\ AgreeInv(f)
    /\ LifecycleLegal

-----------------------------------------------------------------------------
(* Histories. *)

(* The history of no events. *)
LEMMA EmptyHistory ==
  ASSUME NEW f
  PROVE  HistoryDefined(<< >>, f) /\ Histories(<< >>, f)[0] = << >>
<1> DEFINE h0 == [n \in 0 .. 0 |-> << >>]
<1>1. Len(<< >>) = 0
  OBVIOUS
<1>2. \A h : HistoryStep(<< >>, f, h) = h0
  BY <1>1 DEF HistoryStep
<1>3. Histories(<< >>, f) = CHOOSE h : h = HistoryStep(<< >>, f, h)
  BY DEF Histories, HistoryStep
<1>4. Histories(<< >>, f) = HistoryStep(<< >>, f, Histories(<< >>, f))
  BY <1>2, <1>3
<1>5. Histories(<< >>, f) = h0
  BY <1>2, <1>4
<1> QED
  BY <1>4, <1>5 DEF HistoryDefined

(* One more event continues the history of its fiber and no other. *)
LEMMA HistoryGrows ==
  ASSUME NEW envs \in Seq(EnvelopeHeader), NEW env \in EnvelopeHeader, NEW f,
         HistoryDefined(envs, f)
  PROVE  /\ HistoryDefined(Append(envs, env), f)
         /\ Histories(Append(envs, env), f)[Len(envs) + 1]
              = IF env.fiber_id = f
                THEN Append(Histories(envs, f)[Len(envs)], env)
                ELSE Histories(envs, f)[Len(envs)]
<1> DEFINE more == Append(envs, env)
           N == Len(envs)
           h == Histories(envs, f)
           g == Histories(more, f)
           last == IF env.fiber_id = f THEN Append(h[N], env) ELSE h[N]
           h1 == [n \in 0 .. N + 1 |-> IF n = N + 1 THEN last ELSE h[n]]
<1>1. /\ N \in Nat /\ Len(more) = N + 1 /\ more[N + 1] = env
      /\ \A n \in 1 .. N : more[n] = envs[n]
  OBVIOUS
<1>2. h = HistoryStep(envs, f, h)
  BY DEF HistoryDefined
<1> HIDE DEF more, h, N
<1>3. h1 = HistoryStep(more, f, h1)
  <2>1. ASSUME NEW n \in 0 .. N + 1 PROVE h1[n] = HistoryStep(more, f, h1)[n]
    <3>1. HistoryStep(more, f, h1)[n]
            = IF n = 0 THEN << >>
              ELSE IF more[n].fiber_id = f THEN Append(h1[n - 1], more[n])
              ELSE h1[n - 1]
      BY <1>1 DEF HistoryStep
    <3>2. CASE n = N + 1
      <4>1. n # 0 /\ n - 1 \in 0 .. N + 1 /\ n - 1 # N + 1 /\ n - 1 = N
        BY <1>1, <3>2
      <4>2. h1[n - 1] = h[N] /\ h1[n] = last
        BY <3>2, <4>1
      <4> QED
        BY <1>1, <3>1, <3>2, <4>1, <4>2
    <3>3. CASE n # N + 1 /\ n # 0
      <4>1. n \in 1 .. N /\ n \in 0 .. N /\ n - 1 \in 0 .. N + 1 /\ n - 1 # N + 1
        BY <1>1, <3>3
      <4>2. h1[n - 1] = h[n - 1] /\ h1[n] = h[n] /\ more[n] = envs[n]
        BY <1>1, <3>3, <4>1
      <4>3. h[n] = IF envs[n].fiber_id = f THEN Append(h[n - 1], envs[n]) ELSE h[n - 1]
        BY <1>2, <3>3, <4>1 DEF HistoryStep, N
      <4> QED
        BY <3>1, <3>3, <4>2, <4>3
    <3>4. CASE n = 0
      <4>1. h[0] = << >>
        BY <1>1, <1>2 DEF HistoryStep, N
      <4>2. n # N + 1
        BY <1>1, <3>4
      <4> QED
        BY <3>1, <3>4, <4>1, <4>2
    <3> QED
      BY <3>2, <3>3, <3>4
  <2>2. DOMAIN HistoryStep(more, f, h1) = 0 .. N + 1
    BY <1>1 DEF HistoryStep
  <2> HIDE DEF last
  <2>3. /\ h1 = [n \in 0 .. N + 1 |-> h1[n]]
        /\ HistoryStep(more, f, h1) = [n \in 0 .. N + 1 |-> HistoryStep(more, f, h1)[n]]
    BY <1>1 DEF HistoryStep
  <2> QED
    BY <2>1, <2>3, Zenon
<1>4. g = HistoryStep(more, f, g)
  <2>1. g = CHOOSE k : k = HistoryStep(more, f, k)
    BY DEF Histories, HistoryStep
  <2> HIDE DEF h1, g
  <2> QED
    BY <1>3, <2>1
<1> HIDE DEF g
<1>5. \A n \in 0 .. N : g[n] = h[n]
  <2> DEFINE T == {n \in 0 .. N : g[n] # h[n]}
  <2>1. SUFFICES ASSUME T # {} PROVE FALSE
    OBVIOUS
  <2>2. T \subseteq Nat
    BY <1>1
  <2>3. PICK x \in T : \A y \in T : ~ (<<y, x>> \in OpToRel(<, Nat))
    <3> HIDE DEF T
    <3> QED
      BY <2>1, <2>2, NatLessThanWellFounded, WFMin
  <2>4. x \in 0 .. N /\ g[x] # h[x]
    OBVIOUS
  <2>5. g[0] = << >> /\ h[0] = << >>
    BY <1>1, <1>2, <1>4 DEF HistoryStep, N
  <2>6. x # 0 /\ x \in 1 .. N /\ x - 1 \in 0 .. N /\ x \in 0 .. N + 1
    BY <1>1, <2>4, <2>5
  <2>7. g[x - 1] = h[x - 1]
    <3>1. SUFFICES ASSUME x - 1 \in T PROVE FALSE
      BY <2>6
    <3>2. x - 1 \in Nat /\ x \in Nat /\ x - 1 < x
      BY <1>1, <2>6
    <3>3. <<x - 1, x>> \in OpToRel(<, Nat)
      BY <3>2 DEF OpToRel
    <3> QED
      BY <2>3, <3>1, <3>3
  <2>8. g[x] = IF more[x].fiber_id = f THEN Append(g[x - 1], more[x]) ELSE g[x - 1]
    BY <1>1, <1>4, <2>6 DEF HistoryStep
  <2>9. h[x] = IF envs[x].fiber_id = f THEN Append(h[x - 1], envs[x]) ELSE h[x - 1]
    BY <1>2, <2>6 DEF HistoryStep, N
  <2> QED
    BY <1>1, <2>4, <2>6, <2>7, <2>8, <2>9
<1>6. g[N + 1] = last
  <2>1. N + 1 \in 0 .. N + 1 /\ N + 1 # 0 /\ (N + 1) - 1 = N
    BY <1>1
  <2>2. g[N + 1] = IF more[N + 1].fiber_id = f THEN Append(g[N], more[N + 1]) ELSE g[N]
    BY <1>1, <1>4, <2>1 DEF HistoryStep
  <2>3. g[N] = h[N]
    BY <1>1, <1>5
  <2> QED
    BY <1>1, <2>2, <2>3
<1> QED
  BY <1>4, <1>6 DEF HistoryDefined, g, h, N, more
-----------------------------------------------------------------------------
(* Handles. *)

(* The state of a fiber's handle says what the index holds of it, and the  *)
(* tip of a fiber in a well-formed line is a link to a real event.         *)
LEMMA HandleShape ==
  ASSUME LineInv, NEW f \in FiberId
  PROVE  /\ Fiber(index, f).state \in {"Undefined", "Defined", "Detached"}
         /\ Fiber(index, f).fiber_id = f
         /\ Fiber(index, f).state = "Undefined" =>
               index.fibers[f].kind = "None" /\ Fiber(index, f).event_count = 0
         /\ Fiber(index, f).state # "Undefined" =>
               /\ index.fibers[f].kind = "Active"
               /\ Fiber(index, f).event_count = index.fibers[f].event_count
               /\ Fiber(index, f).precursor = index.fibers[f].tip.event_id
               /\ Fiber(index, f).precursor_hash = Commitment(index.fibers[f].tip)
               /\ Fiber(index, f).precursor # ZeroId
               /\ index.fibers[f].tip \in EnvelopeHeader
         /\ Fiber(index, f).state = StateAt(log, Len(log), f)
<1> DEFINE P == Positions(log, Len(log), f)
<1>1. /\ log \in Seq(EnvelopeHeader) /\ Len(log) \in Nat /\ WellFormed(log)
      /\ index = IndexOf(log, Len(log))
  BY DEF LineInv
<1>2. CASE P = {}
  <2>1. index.fibers[f] = NoSlot
    BY <1>1, <1>2, SlotFields
  <2>2. index.fibers[f].kind = "None"
    BY <2>1 DEF NoSlot
  <2>3. Fiber(index, f) = NewHandle(f)
    BY <2>2 DEF Fiber
  <2>4. StateAt(log, Len(log), f) = "Undefined"
    BY <1>2 DEF StateAt
  <2> QED
    BY <2>2, <2>3, <2>4 DEF NewHandle
<1>3. CASE P # {}
  <2> DEFINE tip == log[Latest(P)]
  <2>1. /\ index.fibers[f].kind = "Active" /\ index.fibers[f].tip = tip
    BY <1>1, <1>3, SlotFields
  <2>2. Latest(P) \in 1 .. Len(log)
    <3>1. P \in SUBSET (1 .. Len(log))
      BY DEF Positions
    <3> HIDE DEF P
    <3> QED
      BY <1>1, <1>3, <3>1, LatestInPrefix
  <2>3. tip \in EnvelopeHeader /\ tip.event_id # ZeroId
    BY <1>1, <2>2, ElementOfSeq DEF WellFormed, Extends
  <2>4. Fiber(index, f) = [fiber_id       |-> f,
                           state          |-> IF tip.detached THEN "Detached" ELSE "Defined",
                           precursor      |-> tip.event_id,
                           precursor_hash |-> Commitment(tip),
                           event_count    |-> index.fibers[f].event_count]
    BY <2>1 DEF Fiber
  <2>5. StateAt(log, Len(log), f) = IF tip.detached THEN "Detached" ELSE "Defined"
    BY <1>3 DEF StateAt
  <2> HIDE DEF tip, P
  <2> QED
    BY <2>1, <2>3, <2>4, <2>5
<1> QED
  BY <1>2, <1>3

(* What a handle of such a state mints. *)
MintedBy(h, id, minted) ==
    /\ id # ZeroId /\ h.event_count < MaxEventsPerFiber
    /\ minted = Minted(h, minted.env, IF minted.env.detached THEN "Detached" ELSE "Defined")
    /\ minted.env.event_id = id /\ minted.env.fiber_id = h.fiber_id
    /\ minted.env.detached \in BOOLEAN
    /\ h.state = "Undefined" => IsGenesis(minted.env) /\ minted.env.detached = FALSE
    /\ h.state # "Undefined" =>
          /\ minted.env.precursor = h.precursor
          /\ minted.env.precursor_hash = h.precursor_hash
          /\ h.state = "Detached" => minted.env.detached = FALSE

LEMMA MintedShape ==
  ASSUME NEW h \in Handle, h.state \in {"Undefined", "Defined", "Detached"},
         NEW id \in EventId,
         NEW minted \in {HandleAppend(h, id), HandleDetach(h, id), HandleRescue(h, id)},
         minted.ok
  PROVE  MintedBy(h, id, minted)
<1>1. \A env, st : Minted(h, env, st).env = env /\ Minted(h, env, st).ok = TRUE
  BY DEF Minted
<1>2. Refuse(h).ok = FALSE
  BY DEF Refuse
<1>3. AdmitsId(h, id)
  BY <1>2 DEF HandleAppend, HandleDetach, HandleRescue
<1>4. \/ /\ h.state = "Undefined"
         /\ minted = Minted(h, Genesis(id, h.fiber_id), "Defined")
      \/ /\ h.state \in {"Defined", "Detached"}
         /\ minted = Minted(h, ChainedTo(h, id, FALSE), "Defined")
      \/ /\ h.state = "Defined"
         /\ minted = Minted(h, ChainedTo(h, id, TRUE), "Detached")
  <2>1. CASE minted = HandleAppend(h, id)
    BY <1>2, <2>1 DEF HandleAppend
  <2>2. CASE minted = HandleDetach(h, id)
    BY <1>2, <2>2 DEF HandleDetach
  <2>3. CASE minted = HandleRescue(h, id)
    BY <1>2, <2>3 DEF HandleRescue
  <2> QED
    BY <2>1, <2>2, <2>3
<1>5. /\ Genesis(id, h.fiber_id).detached = FALSE /\ IsGenesis(Genesis(id, h.fiber_id))
      /\ Genesis(id, h.fiber_id).event_id = id
      /\ Genesis(id, h.fiber_id).fiber_id = h.fiber_id
  BY DEF Genesis, IsGenesis
<1>6. \A d : /\ ChainedTo(h, id, d).detached = d /\ ChainedTo(h, id, d).event_id = id
             /\ ChainedTo(h, id, d).fiber_id = h.fiber_id
             /\ ChainedTo(h, id, d).precursor = h.precursor
             /\ ChainedTo(h, id, d).precursor_hash = h.precursor_hash
  BY DEF ChainedTo
<1>7. id # ZeroId /\ h.event_count < MaxEventsPerFiber
  BY <1>3 DEF AdmitsId
<1>8. CASE /\ h.state = "Undefined"
           /\ minted = Minted(h, Genesis(id, h.fiber_id), "Defined")
  BY <1>1, <1>5, <1>7, <1>8 DEF MintedBy
<1>9. CASE /\ h.state \in {"Defined", "Detached"}
           /\ minted = Minted(h, ChainedTo(h, id, FALSE), "Defined")
  <2> DEFINE env == ChainedTo(h, id, FALSE)
  <2>1. /\ env.detached = FALSE /\ env.event_id = id /\ env.fiber_id = h.fiber_id
        /\ env.precursor = h.precursor /\ env.precursor_hash = h.precursor_hash
    BY <1>6
  <2> HIDE DEF env
  <2>2. minted = Minted(h, env, "Defined") /\ minted.env = env
    BY <1>1, <1>9 DEF env
  <2> QED
    BY <1>7, <1>9, <2>1, <2>2 DEF MintedBy
<1>10. CASE /\ h.state = "Defined"
            /\ minted = Minted(h, ChainedTo(h, id, TRUE), "Detached")
  <2> DEFINE env == ChainedTo(h, id, TRUE)
  <2>1. /\ env.detached = TRUE /\ env.event_id = id /\ env.fiber_id = h.fiber_id
        /\ env.precursor = h.precursor /\ env.precursor_hash = h.precursor_hash
    BY <1>6
  <2> HIDE DEF env
  <2>2. minted = Minted(h, env, "Detached") /\ minted.env = env
    BY <1>1, <1>10 DEF env
  <2> QED
    BY <1>7, <1>10, <2>1, <2>2 DEF MintedBy
<1> QED
  BY <1>4, <1>8, <1>9, <1>10

(* A minted event is a legal transition of its handle's state. *)
LEMMA MintedLegal ==
  ASSUME NEW from \in {"Undefined", "Defined", "Detached"}, NEW detached \in BOOLEAN,
         from # "Defined" => detached = FALSE
  PROVE  \E a \in AttemptedTransition :
            /\ a.kind # "Migrate"
            /\ (IF detached THEN "Detached" ELSE "Defined") \in ApplyAction(from, a)
<1> DEFINE T(k) == [kind |-> k]
<1>1. \A k \in {"Create", "Update", "Detach", "Rescue"} :
         T(k) \in AttemptedTransition /\ T(k).kind = k /\ k # "Migrate"
  BY DEF AttemptedTransition
<1>2. CASE from = "Undefined"
  <2>1. "Defined" \in ApplyAction(from, T("Create"))
    BY <1>2 DEF ApplyAction, FiberState
  <2> QED
    BY <1>1, <1>2, <2>1
<1>3. CASE from = "Defined" /\ ~detached
  <2>1. "Defined" \in ApplyAction(from, T("Update"))
    BY <1>3 DEF ApplyAction, FiberState
  <2> QED
    BY <1>1, <1>3, <2>1
<1>4. CASE from = "Defined" /\ detached
  <2>1. "Detached" \in ApplyAction(from, T("Detach"))
    BY <1>4 DEF ApplyAction, FiberState
  <2> QED
    BY <1>1, <1>4, <2>1
<1>5. CASE from = "Detached"
  <2>1. "Defined" \in ApplyAction(from, T("Rescue"))
    BY <1>5 DEF ApplyAction, FiberState
  <2> QED
    BY <1>1, <1>5, <2>1
<1> QED
  BY <1>2, <1>3, <1>4, <1>5
-----------------------------------------------------------------------------
(* The index refuses nothing a handle mints but for what handles cannot    *)
(* know.                                                                   *)
LEMMA TrustStep ==
  ASSUME LineInv, handles \in [FiberId -> Handle],
         \A f \in FiberId : handles[f] = Fiber(index, f)
  PROVE  IndexTrustsHandles
<1>1. SUFFICES ASSUME NEW f \in FiberId, NEW id \in EventId, NEW minted \in Minting(f, id),
                      minted.ok, id \notin index.seen, ~AtSeenCapacity(index),
                      index.fibers[f].kind = "None" => ~AtFiberCapacity(index)
               PROVE  ValidateAppend(index, minted.env) = "Ok"
  BY DEF IndexTrustsHandles
<1> DEFINE h == handles[f]
           env == minted.env
           slot == index.fibers[f]
<1>2. /\ h \in Handle /\ h.fiber_id = f
      /\ h.state \in {"Undefined", "Defined", "Detached"}
      /\ h.state = "Undefined" => slot.kind = "None"
      /\ h.state # "Undefined" =>
            /\ slot.kind = "Active" /\ h.event_count = slot.event_count
            /\ h.precursor = slot.tip.event_id /\ h.precursor # ZeroId
            /\ h.precursor_hash = Commitment(slot.tip)
  BY HandleShape
<1>3. /\ id # ZeroId /\ h.event_count < MaxEventsPerFiber /\ h.event_count \in Nat
      /\ env.event_id = id /\ env.fiber_id = f
      /\ h.state = "Undefined" => IsGenesis(env)
      /\ h.state # "Undefined" => env.precursor = h.precursor
                                  /\ env.precursor_hash = h.precursor_hash
  <2>1. h.event_count \in Nat
    BY <1>2 DEF Handle
  <2>2. minted \in {HandleAppend(h, id), HandleDetach(h, id), HandleRescue(h, id)}
    BY <1>1 DEF Minting
  <2> HIDE DEF h
  <2>3. /\ id # ZeroId /\ h.event_count < MaxEventsPerFiber
        /\ minted.env.event_id = id /\ minted.env.fiber_id = h.fiber_id
        /\ h.state = "Undefined" => IsGenesis(minted.env)
        /\ h.state # "Undefined" => minted.env.precursor = h.precursor
                                    /\ minted.env.precursor_hash = h.precursor_hash
    <3>1. h \in Handle /\ h.state \in {"Undefined", "Defined", "Detached"} /\ minted.ok
      BY <1>1, <1>2
    <3>2. MintedBy(h, id, minted)
      BY <3>1, <2>2, MintedShape
    <3> QED
      BY <3>2 DEF MintedBy
  <2> QED
    BY <1>2, <2>1, <2>3
<1> HIDE DEF h, env
<1>4. CASE h.state = "Undefined"
  <2>1. ValidateFirst(index, env) = "Ok"
    BY <1>1, <1>2, <1>3, <1>4 DEF ValidateFirst
  <2> QED
    BY <1>1, <1>2, <1>3, <1>4, <2>1 DEF ValidateAppend, env
<1>5. CASE h.state # "Undefined"
  <2>1. ~(slot.event_count >= MaxEventsPerFiber)
    BY <1>2, <1>3, <1>5, LimitAssumption
  <2>2. ValidateActive(slot, env) = "Ok"
    BY <1>2, <1>3, <1>5, <2>1 DEF ValidateActive
  <2> QED
    BY <1>1, <1>2, <1>3, <1>5, <2>2 DEF ValidateAppend, env
<1> QED
  BY <1>4, <1>5

(* What from_envelopes makes of a history with one more event. *)
LEMMA AgreeStep ==
  ASSUME NEW f \in FiberId, NEW h \in Handle, NEW hist \in Seq(EnvelopeHeader),
         NEW env \in EnvelopeHeader,
         FromEnvelopesAdmits(f, hist), h = FromEnvelopes(f, hist),
         env.fiber_id = f, env.event_id # ZeroId, h.event_count < MaxEventsPerFiber,
         \A i \in 1 .. Len(hist) : hist[i].event_id # env.event_id,
         h.state = "Undefined" => IsGenesis(env),
         h.state # "Undefined" => env.precursor = h.precursor
                                  /\ env.precursor_hash = h.precursor_hash
  PROVE  /\ FromEnvelopesAdmits(f, Append(hist, env))
         /\ FromEnvelopes(f, Append(hist, env))
              = [fiber_id       |-> f,
                 state          |-> IF env.detached THEN "Detached" ELSE "Defined",
                 precursor      |-> env.event_id,
                 precursor_hash |-> Commitment(env),
                 event_count    |-> h.event_count + 1]
<1> DEFINE more == Append(hist, env)
           N == Len(hist)
<1>1. /\ N \in Nat /\ Len(more) = N + 1 /\ more[N + 1] = env /\ more # << >>
      /\ \A i \in 1 .. N : more[i] = hist[i]
  OBVIOUS
<1>2. h.event_count = N
  BY DEF FromEnvelopes, NewHandle
<1>3. /\ hist = << >> => h.state = "Undefined"
      /\ hist # << >> => h.state # "Undefined" /\ h.precursor = hist[N].event_id
                         /\ h.precursor_hash = Commitment(hist[N])
  BY DEF FromEnvelopes, NewHandle
<1>4. hist = << >> <=> N = 0
  BY EmptySeq
<1> HIDE DEF more, N
<1>5. N + 1 <= MaxEventsPerFiber
  BY <1>1, <1>2, LimitAssumption
<1>6. ASSUME NEW i \in 1 .. N + 1
      PROVE  /\ more[i].event_id # ZeroId
             /\ more[i].fiber_id = f
             /\ \A j \in 1 .. i - 1 : more[j].event_id # more[i].event_id
             /\ IF i = 1
                THEN IsGenesis(more[i])
                ELSE /\ more[i].precursor = more[i-1].event_id
                     /\ more[i].precursor_hash = Commitment(more[i-1])
  <2>1. CASE i \in 1 .. N
    <3>1. /\ hist[i].event_id # ZeroId /\ hist[i].fiber_id = f
          /\ \A j \in 1 .. i - 1 : hist[j].event_id # hist[i].event_id
          /\ IF i = 1
             THEN IsGenesis(hist[i])
             ELSE /\ hist[i].precursor = hist[i-1].event_id
                  /\ hist[i].precursor_hash = Commitment(hist[i-1])
      BY <2>1 DEF FromEnvelopesAdmits, N
    <3>2. more[i] = hist[i] /\ \A j \in 1 .. i - 1 : more[j] = hist[j]
      BY <1>1, <2>1
    <3>3. i # 1 => i - 1 \in 1 .. i - 1
      BY <1>1, <2>1
    <3> QED
      BY <3>1, <3>2, <3>3
  <2>2. CASE i = N + 1
    <3>1. /\ more[i] = env /\ \A j \in 1 .. i - 1 : more[j] = hist[j] /\ j \in 1 .. N
      BY <1>1, <2>2
    <3>2. \A j \in 1 .. i - 1 : more[j].event_id # env.event_id
      BY <3>1 DEF N
    <3>3. CASE i = 1
      BY <1>1, <1>3, <1>4, <2>2, <3>1, <3>2, <3>3
    <3>4. CASE i # 1
      <4>1. i - 1 = N /\ N \in 1 .. N /\ N # 0
        BY <1>1, <2>2, <3>4
      <4>2. more[i - 1] = hist[N]
        BY <1>1, <4>1
      <4> QED
        BY <1>3, <1>4, <3>1, <3>2, <3>4, <4>1, <4>2
    <3> QED
      BY <3>3, <3>4
  <2> QED
    BY <1>1, <2>1, <2>2
<1>7. FromEnvelopesAdmits(f, more)
  BY <1>1, <1>5, <1>6 DEF FromEnvelopesAdmits
<1>8. FromEnvelopes(f, more)
        = [fiber_id       |-> f,
           state          |-> IF env.detached THEN "Detached" ELSE "Defined",
           precursor      |-> env.event_id,
           precursor_hash |-> Commitment(env),
           event_count    |-> h.event_count + 1]
  BY <1>1, <1>2 DEF FromEnvelopes
<1> QED
  BY <1>7, <1>8 DEF more
-----------------------------------------------------------------------------
(* One committed event. *)

(* What the events before it say of a fiber stays. *)
LEMMA StateKept ==
  ASSUME NEW envs \in Seq(EnvelopeHeader), NEW env \in EnvelopeHeader,
         NEW k \in 0 .. Len(envs), NEW f
  PROVE  StateAt(Append(envs, env), k, f) = StateAt(envs, k, f)
<1> DEFINE P == Positions(envs, k, f)
           more == Append(envs, env)
<1>1. \A i \in 1 .. k : more[i] = envs[i]
  OBVIOUS
<1> HIDE DEF more
<1>2. Positions(more, k, f) = P
  BY <1>1 DEF Positions
<1>3. CASE P = {}
  BY <1>2, <1>3 DEF StateAt, more
<1>4. CASE P # {}
  <2>1. P \in SUBSET (1 .. k) /\ k \in Nat
    BY DEF Positions
  <2> HIDE DEF P
  <2>2. Latest(P) \in 1 .. k
    BY <1>4, <2>1, LatestInPrefix
  <2>3. more[Latest(P)] = envs[Latest(P)]
    BY <1>1, <2>2
  <2> QED
    BY <1>2, <1>4, <2>3 DEF StateAt, P, more
<1> QED
  BY <1>3, <1>4

(* The event itself is now the latest of its fiber. *)
LEMMA StateNew ==
  ASSUME NEW envs \in Seq(EnvelopeHeader), NEW env \in EnvelopeHeader
  PROVE  StateAt(Append(envs, env), Len(envs) + 1, env.fiber_id)
           = IF env.detached THEN "Detached" ELSE "Defined"
<1> DEFINE N == Len(envs) + 1
           more == Append(envs, env)
           P == Positions(more, N, env.fiber_id)
<1>1. N \in Nat /\ N \in 1 .. N /\ more[N] = env
  OBVIOUS
<1> HIDE DEF more
<1>2. N \in P /\ P \in SUBSET (1 .. N)
  BY <1>1 DEF Positions
<1>3. P \in SUBSET Nat /\ \A j \in P : j <= N
  BY <1>1, <1>2
<1>4. Latest(P) = N
  <2> HIDE DEF P, N
  <2> QED
    BY <1>2, <1>3, LatestIsGreatest
<1>5. P # {}
  BY <1>2
<1> QED
  BY <1>1, <1>4, <1>5 DEF StateAt, more

(* The envelope a handle mints is one, and it extends the line when the    *)
(* index admits it.                                                        *)
LEMMA CommitFacts ==
  ASSUME LineInv, handles \in [FiberId -> Handle],
         \A g \in FiberId : handles[g] = Fiber(index, g),
         NEW f \in FiberId, NEW id \in EventId, NEW minted \in Minting(f, id),
         minted.ok, ValidateAppend(index, minted.env) = "Ok"
  PROVE  /\ MintedBy(handles[f], id, minted)
         /\ minted.env \in EnvelopeHeader /\ minted.env.fiber_id = f
         /\ Extends(log, Len(log), minted.env)
<1> DEFINE h == handles[f]
<1>1. /\ log \in Seq(EnvelopeHeader) /\ Len(log) \in 0 .. Len(log)
      /\ index = IndexOf(log, Len(log)) /\ index \in Index
  <2>1. log \in Seq(EnvelopeHeader) /\ index = IndexOf(log, Len(log))
    BY DEF LineInv
  <2>2. Len(log) \in 0 .. Len(log)
    BY <2>1
  <2> QED
    BY <2>1, <2>2, IndexOfType
<1>2. /\ h \in Handle /\ h.state \in {"Undefined", "Defined", "Detached"}
      /\ h.fiber_id = f /\ h = Fiber(index, f)
  BY HandleShape
<1>3. minted \in {HandleAppend(h, id), HandleDetach(h, id), HandleRescue(h, id)}
  BY DEF Minting
<1> HIDE DEF h
<1>4. MintedBy(h, id, minted)
  BY <1>2, <1>3, MintedShape
<1>5. minted.env \in EnvelopeHeader
  <2>1. /\ HandleAppend(h, id).env \in EnvelopeHeader
        /\ HandleDetach(h, id).env \in EnvelopeHeader
        /\ HandleRescue(h, id).env \in EnvelopeHeader
    BY <1>1, <1>2, MintType
  <2> QED
    BY <1>3, <2>1
<1>6. Extends(log, Len(log), minted.env)
  BY <1>1, <1>5, ValidateIffExtends
<1> QED
  BY <1>2, <1>4, <1>5, <1>6 DEF MintedBy, h

(* The line and the index after it. *)
LEMMA LineStep ==
  ASSUME LineInv, NEW env \in EnvelopeHeader, Extends(log, Len(log), env),
         index' = CommitEnvelope(index, env), log' = Append(log, env)
  PROVE  LineInv'
<1>1. /\ log \in Seq(EnvelopeHeader) /\ Len(log) \in Nat /\ WellFormed(log)
      /\ index = IndexOf(log, Len(log))
  BY DEF LineInv
<1>2. /\ log' \in Seq(EnvelopeHeader) /\ Len(log') = Len(log) + 1
      /\ log'[Len(log) + 1] = env /\ \A i \in 1 .. Len(log) : log'[i] = log[i]
  BY <1>1
<1>3. WellFormed(log')
  BY <1>1, AppendWellFormed
<1>4. index = IndexOf(log', Len(log))
  BY <1>1, <1>2, PrefixStable
<1>5. Len(log) \in 0 .. Len(log') - 1
  BY <1>1, <1>2
<1>6. index' = IndexOf(log', Len(log) + 1)
  BY <1>2, <1>4, <1>5, CommitStep
<1> QED
  BY <1>2, <1>3, <1>6 DEF LineInv

(* The history of every fiber after it. *)
LEMMA HistoryInvStep ==
  ASSUME LineInv, NEW env \in EnvelopeHeader, NEW g \in FiberId, HistoryInv(g),
         index' = CommitEnvelope(index, env), log' = Append(log, env)
  PROVE  /\ HistoryInv(g)'
         /\ env.fiber_id = g => History(g)' = Append(History(g), env)
         /\ env.fiber_id # g => History(g)' = History(g)
<1>1. log \in Seq(EnvelopeHeader) /\ Len(log) \in Nat /\ Len(log') = Len(log) + 1
  BY DEF LineInv
<1>2. /\ HistoryDefined(log, g) /\ History(g) \in Seq(EnvelopeHeader)
      /\ \A i \in 1 .. Len(History(g)) : History(g)[i].event_id \in index.seen
  BY DEF HistoryInv
<1>3. /\ HistoryDefined(log', g)
      /\ Histories(log', g)[Len(log) + 1]
           = IF env.fiber_id = g THEN Append(Histories(log, g)[Len(log)], env)
             ELSE Histories(log, g)[Len(log)]
  BY <1>1, <1>2, HistoryGrows
<1>4. History(g)' = IF env.fiber_id = g THEN Append(History(g), env) ELSE History(g)
  BY <1>1, <1>3 DEF History
<1>5. index'.seen = index.seen \cup {env.event_id}
  BY DEF CommitEnvelope
<1> DEFINE old == History(g)
           new == History(g)'
<1>6. new \in Seq(EnvelopeHeader) /\ \A i \in 1 .. Len(new) : new[i].event_id \in index'.seen
  <2>1. CASE env.fiber_id = g
    <3>1. new = Append(old, env)
      BY <1>4, <2>1
    <3> HIDE DEF new, old
    <3>2. /\ new \in Seq(EnvelopeHeader) /\ Len(new) = Len(old) + 1
          /\ new[Len(old) + 1] = env /\ \A i \in 1 .. Len(old) : new[i] = old[i]
          /\ Len(old) \in Nat
      BY <1>2, <3>1 DEF old
    <3>3. \A i \in 1 .. Len(old) : old[i].event_id \in index.seen
      BY <1>2 DEF old
    <3>4. \A i \in 1 .. Len(new) : i = Len(old) + 1 \/ i \in 1 .. Len(old)
      BY <3>2
    <3> QED
      BY <1>5, <3>2, <3>3, <3>4
  <2>2. CASE env.fiber_id # g
    BY <1>2, <1>4, <1>5, <2>2
  <2> QED
    BY <2>1, <2>2
<1> QED
  BY <1>3, <1>4, <1>6 DEF HistoryInv

(* The handle of the fiber after it: the one it was replaced by, the one   *)
(* the index gives out and the one the history makes are the same.         *)
LEMMA AgreeInvStep ==
  ASSUME LineInv, handles \in [FiberId -> Handle],
         NEW f \in FiberId, HistoryInv(f), AgreeInv(f),
         NEW id, NEW minted, MintedBy(handles[f], id, minted),
         minted.env \in EnvelopeHeader, minted.env.fiber_id = f,
         Extends(log, Len(log), minted.env),
         handles' = [handles EXCEPT ![f] = minted.handle],
         index' = CommitEnvelope(index, minted.env),
         History(f)' = Append(History(f), minted.env)
  PROVE  handles'[f] \in Handle /\ AgreeInv(f)'
<1> DEFINE h == handles[f]
           env == minted.env
           hist == History(f)
           next == [fiber_id       |-> f,
                    state          |-> IF env.detached THEN "Detached" ELSE "Defined",
                    precursor      |-> env.event_id,
                    precursor_hash |-> Commitment(env),
                    event_count    |-> h.event_count + 1]
<1>1. /\ h \in Handle /\ h.event_count \in Nat /\ h = Fiber(index, f)
      /\ FromEnvelopesAdmits(f, hist) /\ h = FromEnvelopes(f, hist)
      /\ hist \in Seq(EnvelopeHeader)
      /\ \A i \in 1 .. Len(hist) : hist[i].event_id \in index.seen
  BY DEF AgreeInv, HistoryInv, Handle
<1>2. /\ h.fiber_id = f
      /\ h.state = "Undefined" => index.fibers[f].kind = "None" /\ h.event_count = 0
      /\ h.state # "Undefined" => index.fibers[f].kind = "Active"
                                  /\ h.event_count = index.fibers[f].event_count
  <2> DEFINE k == Fiber(index, f)
  <2>1. /\ k.fiber_id = f
        /\ k.state = "Undefined" => index.fibers[f].kind = "None" /\ k.event_count = 0
        /\ k.state # "Undefined" => index.fibers[f].kind = "Active"
                                    /\ k.event_count = index.fibers[f].event_count
    BY HandleShape
  <2> HIDE DEF k
  <2> QED
    BY <1>1, <2>1 DEF k
<1>3. /\ env \in EnvelopeHeader /\ env.fiber_id = f /\ env.detached \in BOOLEAN
      /\ env.event_id \notin index.seen /\ env.event_id # ZeroId
      /\ env.event_id \in EventId
  <2>1. env.event_id \notin IdsIn(log, Len(log)) /\ env.event_id # ZeroId
    BY DEF Extends
  <2>2. index.seen = IdsIn(log, Len(log))
    BY DEF LineInv, IndexOf
  <2>3. env.event_id \in EventId \cup {ZeroId} /\ env.detached \in BOOLEAN
    BY DEF EnvelopeHeader
  <2> QED
    BY <2>1, <2>2, <2>3
<1>4. /\ h.event_count < MaxEventsPerFiber
      /\ minted.handle = Minted(h, env, IF env.detached THEN "Detached" ELSE "Defined").handle
      /\ h.state = "Undefined" => IsGenesis(env)
      /\ h.state # "Undefined" => env.precursor = h.precursor
                                  /\ env.precursor_hash = h.precursor_hash
  BY DEF MintedBy
<1> HIDE DEF h, env, hist
<1>5. minted.handle = next
  BY <1>1, <1>2, <1>4 DEF Minted, Handle
<1>6. Commitment(env) \in Hash /\ Commitment(env) # ZeroHash
  BY <1>3, CommitmentAssumption, ZeroAssumption
<1>7. handles'[f] = next
  BY <1>5
<1>8. next \in Handle
  BY <1>1, <1>3, <1>6 DEF Handle, FiberState
<1>9. WithStateAdmits(next)
  <2>1. next.event_count \in 1 .. MaxEventsPerFiber
    BY <1>1, <1>4, LimitAssumption
  <2> QED
    BY <1>3, <1>6, <2>1 DEF WithStateAdmits
<1>10. Fiber(index', f) = next
  <2> DEFINE old == index.fibers[f]
  <2>1. index'.fibers[f] = [kind        |-> "Active",
                            tip         |-> env,
                            event_count |-> IF old.kind = "Active"
                                            THEN old.event_count + 1 ELSE 1]
    <3>1. f \in DOMAIN index.fibers
      BY DEF LineInv, IndexOf
    <3> QED
      BY <1>3, <3>1 DEF CommitEnvelope, env
  <2>2. (IF old.kind = "Active" THEN old.event_count + 1 ELSE 1) = h.event_count + 1
    BY <1>1, <1>2
  <2> HIDE DEF old
  <2> QED
    BY <2>1, <2>2 DEF Fiber
<1>11. /\ FromEnvelopesAdmits(f, Append(hist, env))
       /\ FromEnvelopes(f, Append(hist, env)) = next
  <2>1. \A i \in 1 .. Len(hist) : hist[i].event_id # env.event_id
    BY <1>1, <1>3
  <2> QED
    BY <1>1, <1>3, <1>4, <2>1, AgreeStep
<1>12. History(f)' = Append(hist, env)
  BY DEF hist, env
<1> HIDE DEF next
<1> QED
  BY <1>7, <1>8, <1>9, <1>10, <1>11, <1>12 DEF AgreeInv

(* The other fibers. *)
LEMMA OthersAgree ==
  ASSUME LineInv, handles \in [FiberId -> Handle],
         NEW g \in FiberId, AgreeInv(g), NEW f \in FiberId, g # f, NEW minted,
         minted.env.fiber_id = f,
         handles' = [handles EXCEPT ![f] = minted.handle],
         index' = CommitEnvelope(index, minted.env),
         History(g)' = History(g)
  PROVE  handles'[g] \in Handle /\ AgreeInv(g)'
<1>1. handles'[g] = handles[g]
  OBVIOUS
<1>2. index'.fibers[g] = index.fibers[g]
  <2>1. g \in DOMAIN index.fibers
    BY DEF LineInv, IndexOf
  <2> QED
    BY <2>1 DEF CommitEnvelope
<1>3. Fiber(index', g) = Fiber(index, g)
  BY <1>2 DEF Fiber
<1> QED
  BY <1>1, <1>3 DEF AgreeInv

(* Every event committed so far stays a legal transition, and so is the    *)
(* new one.                                                                *)
LEMMA LegalStep ==
  ASSUME LineInv, handles \in [FiberId -> Handle], LifecycleLegal,
         NEW f \in FiberId, handles[f] = Fiber(index, f),
         NEW id, NEW minted, MintedBy(handles[f], id, minted),
         minted.env \in EnvelopeHeader, minted.env.fiber_id = f,
         log' = Append(log, minted.env)
  PROVE  LifecycleLegal'
<1> DEFINE h == handles[f]
           env == minted.env
           Legal(from, to) == \E a \in AttemptedTransition :
                                 a.kind # "Migrate" /\ to \in ApplyAction(from, a)
<1>1. /\ log \in Seq(EnvelopeHeader) /\ Len(log) \in Nat /\ Len(log') = Len(log) + 1
      /\ log'[Len(log) + 1] = env /\ \A i \in 1 .. Len(log) : log'[i] = log[i]
  BY DEF LineInv
<1>2. SUFFICES ASSUME NEW k \in 1 .. Len(log) + 1
               PROVE  Legal(StateAt(log', k - 1, log'[k].fiber_id),
                            StateAt(log', k, log'[k].fiber_id))
  BY <1>1 DEF LifecycleLegal
<1>3. CASE k \in 1 .. Len(log)
  <2> DEFINE g == log[k].fiber_id
  <2>1. log'[k] = log[k] /\ k \in 0 .. Len(log) /\ k - 1 \in 0 .. Len(log)
    BY <1>1, <1>3
  <2>2. Legal(StateAt(log, k - 1, g), StateAt(log, k, g))
    BY <1>3 DEF LifecycleLegal
  <2>3. /\ StateAt(log', k - 1, g) = StateAt(log, k - 1, g)
        /\ StateAt(log', k, g) = StateAt(log, k, g)
    BY <1>1, <2>1, StateKept
  <2> HIDE DEF Legal
  <2> QED
    BY <2>1, <2>2, <2>3
<1>4. CASE k = Len(log) + 1
  <2>1. StateAt(log', k, f) = IF env.detached THEN "Detached" ELSE "Defined"
    BY <1>1, <1>4, StateNew
  <2>2. StateAt(log', k - 1, f) = h.state
    <3>1. k - 1 = Len(log) /\ k - 1 \in 0 .. Len(log)
      BY <1>1, <1>4
    <3>2. StateAt(log', k - 1, f) = StateAt(log, k - 1, f)
      BY <1>1, <3>1, StateKept
    <3> QED
      BY <3>1, <3>2, HandleShape
  <2>3. h.state \in {"Undefined", "Defined", "Detached"}
    BY HandleShape
  <2>4. env.detached \in BOOLEAN /\ (h.state # "Defined" => env.detached = FALSE)
    BY <2>3 DEF MintedBy
  <2>5. Legal(h.state, IF env.detached THEN "Detached" ELSE "Defined")
    <3> HIDE DEF h, env
    <3> QED
      BY <2>3, <2>4, MintedLegal
  <2>6. log'[k].fiber_id = f
    BY <1>1, <1>4
  <2> HIDE DEF Legal
  <2> QED
    BY <2>1, <2>2, <2>5, <2>6
<1> QED
  BY <1>1, <1>3, <1>4
-----------------------------------------------------------------------------
LEMMA InitInv == Init => IInv
<1> SUFFICES ASSUME Init PROVE IInv
  OBVIOUS
<1>1. /\ handles = [f \in FiberId |-> NewHandle(f)] /\ index = NewIndex
      /\ log = << >> /\ log \in Seq(EnvelopeHeader) /\ Len(log) = 0
  BY DEF Init
<1>2. LineInv
  <2>1. WellFormed(log)
    BY <1>1 DEF WellFormed
  <2> QED
    BY <1>1, <2>1, EmptyIndex DEF LineInv
<1>3. \A f \in FiberId : NewHandle(f) \in Handle
  BY DEF NewHandle, Handle, FiberState
<1>4. ASSUME NEW f \in FiberId PROVE HistoryInv(f) /\ AgreeInv(f)
  <2>1. HistoryDefined(log, f) /\ History(f) = << >>
    BY <1>1, EmptyHistory DEF History
  <2>2. HistoryInv(f)
    BY <2>1 DEF HistoryInv
  <2>3. index.fibers[f].kind = "None"
    BY <1>1 DEF NewIndex, NoSlot
  <2>4. handles[f] = NewHandle(f) /\ Fiber(index, f) = NewHandle(f)
    BY <1>1, <2>3 DEF Fiber
  <2>5. FromEnvelopesAdmits(f, << >>) /\ FromEnvelopes(f, << >>) = NewHandle(f)
    BY LimitAssumption DEF FromEnvelopesAdmits, FromEnvelopes
  <2>6. WithStateAdmits(NewHandle(f))
    BY DEF WithStateAdmits, NewHandle
  <2> QED
    BY <2>1, <2>2, <2>4, <2>5, <2>6 DEF AgreeInv
<1>5. LifecycleLegal
  BY <1>1 DEF LifecycleLegal
<1> QED
  BY <1>1, <1>2, <1>3, <1>4, <1>5 DEF IInv

LEMMA CommitInv ==
  ASSUME IInv, NEW f \in FiberId, NEW id \in EventId, NEW minted \in Minting(f, id),
         Commit(f, minted)
  PROVE  IInv'
<1> DEFINE env == minted.env
<1>1. /\ LineInv /\ handles \in [FiberId -> Handle] /\ LifecycleLegal
      /\ \A g \in FiberId : HistoryInv(g) /\ AgreeInv(g)
  BY DEF IInv
<1>2. \A g \in FiberId : handles[g] = Fiber(index, g)
  BY <1>1 DEF AgreeInv
<1>3. /\ minted.ok /\ ValidateAppend(index, env) = "Ok"
      /\ handles' = [handles EXCEPT ![f] = minted.handle]
      /\ index' = CommitEnvelope(index, env)
      /\ log' = Append(log, env)
  BY DEF Commit
<1>4. /\ MintedBy(handles[f], id, minted)
      /\ env \in EnvelopeHeader /\ env.fiber_id = f /\ Extends(log, Len(log), env)
  BY <1>1, <1>2, <1>3, CommitFacts
<1>5. LineInv'
  BY <1>1, <1>3, <1>4, LineStep
<1>6. LifecycleLegal'
  BY <1>1, <1>2, <1>3, <1>4, LegalStep
<1>7. ASSUME NEW g \in FiberId
      PROVE  HistoryInv(g)' /\ AgreeInv(g)' /\ handles'[g] \in Handle
  <2>1. /\ HistoryInv(g)'
        /\ f = g => History(g)' = Append(History(g), env)
        /\ f # g => History(g)' = History(g)
    BY <1>1, <1>3, <1>4, HistoryInvStep
  <2>2. CASE g = f
    BY <1>1, <1>3, <1>4, <2>1, <2>2, AgreeInvStep
  <2>3. CASE g # f
    BY <1>1, <1>3, <1>4, <2>1, <2>3, OthersAgree
  <2> QED
    BY <2>1, <2>2, <2>3
<1>8. handles' \in [FiberId -> Handle]
  <2>1. handles' = [g \in FiberId |-> handles'[g]]
    BY <1>1, <1>3
  <2> QED
    BY <1>7, <2>1
<1> QED
  BY <1>5, <1>6, <1>7, <1>8 DEF IInv

(* The invariant holds throughout: the index is the one the line           *)
(* determines, and every fiber's handle, history and index entry agree.    *)
THEOREM HandleInvariant == Spec => []IInv
<1>1. IInv /\ [Next]_vars => IInv'
  <2> SUFFICES ASSUME IInv, [Next]_vars PROVE IInv'
    OBVIOUS
  <2>1. CASE Next
    BY <2>1, CommitInv DEF Next
  <2>2. CASE UNCHANGED vars
    BY <2>2 DEF vars, IInv, LineInv, HistoryInv, AgreeInv, History, LifecycleLegal
  <2> QED
    BY <2>1, <2>2
<1> QED
  BY InitInv, <1>1, PTL DEF Spec

(* LifecycleLegal: what an application commits with handles moves every    *)
(* fiber by the transitions of FiberState::apply_action, although the      *)
(* index never looks at the detached flag.                                 *)
THEOREM LegalTransitions == Spec => []LifecycleLegal
<1>1. IInv => LifecycleLegal
  BY DEF IInv
<1> QED
  BY HandleInvariant, <1>1, PTL

(* HandlesAgree: the minting handle, SessionIndex::fiber and               *)
(* FiberHandle::from_envelopes give one account of every fiber.            *)
THEOREM AccountsAgree == Spec => []HandlesAgree
<1>1. IInv => HandlesAgree
  BY DEF IInv, AgreeInv, HandlesAgree
<1> QED
  BY HandleInvariant, <1>1, PTL

(* ReplayRebuildsIndex: build_from_frames on what was committed is never   *)
(* refused and gives the index the session had.                            *)
THEOREM ReplayRebuilds == Spec => []ReplayRebuildsIndex
<1>1. LineInv => ReplayRebuildsIndex
  <2> SUFFICES ASSUME LineInv PROVE ReplayRebuildsIndex
    OBVIOUS
  <2>1. /\ log \in Seq(EnvelopeHeader) /\ WellFormed(log) /\ Len(log) \in Nat
        /\ index = IndexOf(log, Len(log))
    BY DEF LineInv
  <2>2. \A n \in 0 .. Len(log) : Rebuilt(log)[n] = IndexOf(log, n)
    BY <2>1, RebuiltIsIndex
  <2>3. ASSUME NEW n \in 1 .. Len(log) PROVE ProcessFrameAdmits(Rebuilt(log)[n - 1], log[n])
    <3>1. n - 1 \in 0 .. Len(log) - 1 /\ (n - 1) + 1 = n /\ n - 1 \in 0 .. Len(log)
      BY <2>1
    <3>2. Extends(log, n - 1, log[n])
      BY <2>1 DEF WellFormed
    <3>3. ProcessFrameAdmits(IndexOf(log, n - 1), log[n])
      BY <2>1, <3>1, <3>2, ProcessStep
    <3> QED
      BY <2>2, <3>1, <3>3
  <2> QED
    BY <2>1, <2>2, <2>3 DEF ReplayRebuildsIndex
<1>2. IInv => LineInv
  BY DEF IInv
<1> QED
  BY HandleInvariant, <1>1, <1>2, PTL

(* IndexTrustsHandles: validate_append has no reason of its own to refuse  *)
(* an envelope that a handle mints but a used identifier or a full line.   *)
THEOREM HandlesAreTrusted == Spec => []IndexTrustsHandles
<1>1. IInv => IndexTrustsHandles
  BY TrustStep DEF IInv, AgreeInv
<1> QED
  BY HandleInvariant, <1>1, PTL
=============================================================================
