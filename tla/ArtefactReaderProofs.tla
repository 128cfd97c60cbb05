------------------------ MODULE ArtefactReaderProofs ------------------------
(***************************************************************************)
(* The reader keeps to the line it is given, for any envelopes and any     *)
(* limits in the order the code's have: what it observes is well-formed by *)
(* the definition the session index satisfies, and it fails only where the *)
(* line breaks or a limit is exceeded.                                     *)
(***************************************************************************)
EXTENDS ArtefactReader, LineIndexProofs

-----------------------------------------------------------------------------
(* The inductive invariant. *)

(* The recursive definition of Sizes has a solution, so its equation can   *)
(* be used.                                                                *)
SizesStep(envs, sum) ==
    [n \in 0 .. Len(envs) |-> IF n = 0 THEN 0 ELSE sum[n - 1] + Size(envs[n])]

SizesDefined(envs) == Sizes(envs) = SizesStep(envs, Sizes(envs))

(* Extends without what the reader leaves unchecked: the zero identifier   *)
(* and the number of events.                                               *)
Continues(log, n, env) ==
    LET P == Positions(log, n, env.fiber_id)
    IN  /\ env.event_id \notin IdsIn(log, n)
        /\ \/ /\ P = {}
              /\ IsGenesis(env)
              /\ Cardinality(FibersIn(log, n)) < MaxActiveFibers
           \/ /\ P # {}
              /\ env.precursor # ZeroId
              /\ env.precursor = log[Latest(P)].event_id
              /\ env.precursor_hash = Commitment(log[Latest(P)])

TypeInv ==
    /\ phase \in {"Stream", "Frames", "Reading", "Refused"}
    /\ source \in {"Stream", "Frames"}
    /\ queue \in Seq(Input) /\ input \in Seq(Input)
    /\ Len(input) <= MaxStreamItems
    /\ position \in 0 .. Len(input)
    /\ capacity \in BOOLEAN /\ failed \in BOOLEAN

(* The queue is what is left of the input, and its size is what is         *)
(* charged.                                                                *)
QueueInv ==
    /\ SizesDefined(queue) /\ retained = TotalSize(queue)
    /\ retained \in Nat /\ retained <= MaxStreamBytes
    /\ ~failed => /\ Len(queue) = Len(input) - position
                  /\ \A i \in 1 .. Len(queue) : queue[i] = input[position + i]
    /\ failed => queue = << >>

(* Nothing is read before the reader is open. *)
OpenInv ==
    /\ phase # "Reading" => position = 0 /\ ~failed /\ ~capacity /\ outcomes = << >>
    /\ phase = "Frames" => source = "Frames"
    /\ phase = "Stream" => source = "Stream"
    /\ capacity => failed /\ source = "Stream" /\ outcomes = << >>

(* The reader's own tracking is what the line says. *)
TrackInv ==
    /\ DOMAIN observed = IdsIn(input, position)
    /\ \A i \in 1 .. position : observed[input[i].event_id] = input[i].fiber_id
    /\ DOMAIN fibers = FibersIn(input, position)
    /\ \A f \in FibersIn(input, position) :
          LET tip == input[Latest(Positions(input, position, f))]
          IN  /\ fibers[f].last_event_id = tip.event_id
              /\ fibers[f].last_commitment_hash = Commitment(tip)
    /\ \A n \in 1 .. position : Continues(input, n - 1, input[n])

Outcome ==
    {"Observed", "Capacity", "Overflow", "TooLong", "PrecursorChainBroken",
     "PrecursorOutOfRange", "PrecursorWrongFiber"}

OutcomeInv ==
    /\ outcomes \in Seq(Outcome)
    /\ ~failed => \A i \in 1 .. Len(outcomes) : outcomes[i] = "Observed"
    /\ \A i \in 1 .. Len(outcomes) : outcomes[i] # "Observed" => i = Len(outcomes)
    /\ \A i \in 1 .. Len(outcomes) : outcomes[i] # "Overflow"
    /\ \A i \in 1 .. Len(outcomes) : outcomes[i] = "Capacity" => source = "Stream"

IInv ==
    /\ TypeInv /\ QueueInv /\ OpenInv /\ TrackInv /\ OutcomeInv
    /\ FailureIsABreak

-----------------------------------------------------------------------------
(* Sizes. *)

(* A solution of the equation is the only one. *)
LEMMA SizesUnique ==
  ASSUME NEW envs, Len(envs) \in Nat, NEW sum, sum = SizesStep(envs, sum)
  PROVE  SizesDefined(envs) /\ Sizes(envs) = sum
<1> DEFINE N == Len(envs)
           g == Sizes(envs)
<1>1. g = SizesStep(envs, g)
  <2>1. g = CHOOSE k : k = SizesStep(envs, k)
    BY DEF Sizes, SizesStep
  <2> HIDE DEF g
  <2> QED
    BY <2>1
<1> HIDE DEF g
<1>2. \A n \in 0 .. N : g[n] = sum[n]
  <2> DEFINE T == {n \in 0 .. N : g[n] # sum[n]}
  <2>1. SUFFICES ASSUME T # {} PROVE FALSE
    OBVIOUS
  <2>2. T \subseteq Nat
    OBVIOUS
  <2>3. PICK x \in T : \A y \in T : ~ (<<y, x>> \in OpToRel(<, Nat))
    <3> HIDE DEF T
    <3> QED
      BY <2>1, <2>2, NatLessThanWellFounded, WFMin
  <2>4. x \in 0 .. N /\ g[x] # sum[x]
    OBVIOUS
  <2>5. /\ g[x] = IF x = 0 THEN 0 ELSE g[x - 1] + Size(envs[x])
        /\ sum[x] = IF x = 0 THEN 0 ELSE sum[x - 1] + Size(envs[x])
    BY <1>1, <2>4 DEF SizesStep
  <2>6. x # 0 /\ x - 1 \in 0 .. N
    BY <2>4, <2>5
  <2>7. g[x - 1] = sum[x - 1]
    <3>1. SUFFICES ASSUME x - 1 \in T PROVE FALSE
      BY <2>6
    <3>2. x - 1 \in Nat /\ x \in Nat /\ x - 1 < x
      BY <2>4, <2>6
    <3>3. <<x - 1, x>> \in OpToRel(<, Nat)
      BY <3>2 DEF OpToRel
    <3> QED
      BY <2>3, <3>1, <3>3
  <2> QED
    BY <2>4, <2>5, <2>6, <2>7
<1>3. g = [n \in 0 .. N |-> g[n]] /\ sum = [n \in 0 .. N |-> sum[n]]
  BY <1>1 DEF SizesStep
<1>4. g = sum
  BY <1>2, <1>3, Zenon
<1> QED
  BY <1>1, <1>4 DEF SizesDefined, g

(* What is charged is a number. *)
LEMMA SizesAreNat ==
  ASSUME NEW envs \in Seq(Input), SizesDefined(envs)
  PROVE  \A n \in 0 .. Len(envs) : Sizes(envs)[n] \in Nat
<1> DEFINE N == Len(envs)
           g == Sizes(envs)
           T == {n \in 0 .. N : g[n] \notin Nat}
<1>1. g = SizesStep(envs, g) /\ N \in Nat
  BY DEF SizesDefined
<1> HIDE DEF g
<1>2. SUFFICES ASSUME T # {} PROVE FALSE
  BY DEF g
<1>3. T \subseteq Nat
  BY <1>1
<1>4. PICK x \in T : \A y \in T : ~ (<<y, x>> \in OpToRel(<, Nat))
  <2> HIDE DEF T
  <2> QED
    BY <1>2, <1>3, NatLessThanWellFounded, WFMin
<1>5. x \in 0 .. N /\ g[x] \notin Nat
  OBVIOUS
<1>6. g[x] = IF x = 0 THEN 0 ELSE g[x - 1] + Size(envs[x])
  BY <1>1, <1>5 DEF SizesStep
<1>7. x # 0 /\ x - 1 \in 0 .. N /\ x \in 1 .. N
  BY <1>1, <1>5, <1>6
<1>8. g[x - 1] \in Nat
  <2>1. SUFFICES ASSUME x - 1 \in T PROVE FALSE
    BY <1>7
  <2>2. x - 1 \in Nat /\ x \in Nat /\ x - 1 < x
    BY <1>1, <1>7
  <2>3. <<x - 1, x>> \in OpToRel(<, Nat)
    BY <2>2 DEF OpToRel
  <2> QED
    BY <1>4, <2>1, <2>3
<1>9. Size(envs[x]) \in Nat
  BY <1>7, ElementOfSeq, ReaderAssumption
<1> QED
  BY <1>5, <1>6, <1>7, <1>8, <1>9

(* Nothing is charged for an empty queue. *)
LEMMA EmptySizes ==
  SizesDefined(<< >>) /\ TotalSize(<< >>) = 0
<1> DEFINE sum == [n \in 0 .. 0 |-> 0]
<1>1. Len(<< >>) = 0
  OBVIOUS
<1>2. sum = SizesStep(<< >>, sum)
  BY <1>1 DEF SizesStep
<1>3. SizesDefined(<< >>) /\ Sizes(<< >>) = sum
  <2> HIDE DEF sum
  <2> QED
    BY <1>1, <1>2, SizesUnique
<1> QED
  BY <1>1, <1>3 DEF TotalSize

(* What a queue is charged after one more envelope. *)
LEMMA AppendSizes ==
  ASSUME NEW envs \in Seq(Input), NEW env \in Input, SizesDefined(envs)
  PROVE  /\ SizesDefined(Append(envs, env))
         /\ TotalSize(Append(envs, env)) = TotalSize(envs) + Size(env)
<1> DEFINE more == Append(envs, env)
           N == Len(envs)
           h == Sizes(envs)
           sum == [n \in 0 .. N + 1 |-> IF n = N + 1 THEN h[N] + Size(env) ELSE h[n]]
<1>1. /\ N \in Nat /\ Len(more) = N + 1 /\ more[N + 1] = env
      /\ \A n \in 1 .. N : more[n] = envs[n]
  OBVIOUS
<1>2. h = SizesStep(envs, h)
  BY <1>1 DEF SizesDefined
<1> HIDE DEF more, h
<1>4. ASSUME NEW n \in 0 .. N + 1
      PROVE  sum[n] = IF n = 0 THEN 0 ELSE sum[n - 1] + Size(more[n])
  <2>1. CASE n = N + 1
    <3>1. n # 0 /\ n - 1 \in 0 .. N + 1 /\ n - 1 # N + 1 /\ n - 1 = N
      BY <1>1, <2>1
    <3>2. sum[n - 1] = h[N] /\ sum[n] = h[N] + Size(env)
      BY <2>1, <3>1
    <3> QED
      BY <1>1, <2>1, <3>1, <3>2
  <2>2. CASE n # N + 1
    <3>1. n \in 0 .. N
      BY <1>1, <2>2
    <3>2. sum[n] = h[n] /\ (n # 0 => n - 1 \in 0 .. N + 1 /\ n - 1 # N + 1
                                     /\ sum[n - 1] = h[n - 1] /\ more[n] = envs[n])
      BY <1>1, <2>2, <3>1
    <3>3. h[n] = IF n = 0 THEN 0 ELSE h[n - 1] + Size(envs[n])
      BY <1>2, <3>1 DEF SizesStep
    <3> QED
      BY <3>2, <3>3
  <2> QED
    BY <2>1, <2>2
<1>5. sum = SizesStep(more, sum)
  <2>1. SizesStep(more, sum)
          = [n \in 0 .. N + 1 |-> IF n = 0 THEN 0 ELSE sum[n - 1] + Size(more[n])]
    BY <1>1 DEF SizesStep
  <2>2. sum = [n \in 0 .. N + 1 |-> sum[n]]
    OBVIOUS
  <2> HIDE DEF sum
  <2> QED
    BY <1>4, <2>1, <2>2, Zenon
<1>6. SizesDefined(more) /\ Sizes(more) = sum
  <2> HIDE DEF sum
  <2> QED
    BY <1>1, <1>5, SizesUnique
<1>7. sum[N + 1] = h[N] + Size(env)
  BY <1>1
<1> QED
  BY <1>1, <1>6, <1>7 DEF TotalSize, h, more

(* What is left charged when the first envelope is taken. *)
LEMMA TailSizes ==
  ASSUME NEW envs \in Seq(Input), envs # << >>, SizesDefined(envs)
  PROVE  /\ SizesDefined(Tail(envs))
         /\ TotalSize(Tail(envs)) = TotalSize(envs) - Size(Head(envs))
<1> DEFINE rest == Tail(envs)
           N == Len(rest)
           h == Sizes(envs)
           c == Size(Head(envs))
           sum == [n \in 0 .. N |-> h[n + 1] - c]
<1>1. /\ N \in Nat /\ Len(envs) = N + 1 /\ Head(envs) = envs[1]
      /\ \A n \in 1 .. N : rest[n] = envs[n + 1]
  BY EmptySeq
<1>2. h = SizesStep(envs, h)
  BY DEF SizesDefined
<1>3. /\ \A n \in 0 .. N + 1 : h[n] \in Nat
      /\ c \in Nat /\ \A n \in 1 .. N : Size(rest[n]) \in Nat
  <2>1. \A n \in 1 .. N + 1 : envs[n] \in Input
    BY <1>1, ElementOfSeq
  <2>2. 1 \in 1 .. N + 1 /\ \A n \in 1 .. N : n + 1 \in 1 .. N + 1
    BY <1>1
  <2> HIDE DEF h
  <2> QED
    BY <1>1, <2>1, <2>2, SizesAreNat, ReaderAssumption DEF h
<1> HIDE DEF rest, h, N, c
<1>4. \A n \in 0 .. N + 1 : h[n] = IF n = 0 THEN 0 ELSE h[n - 1] + Size(envs[n])
  BY <1>1, <1>2 DEF SizesStep
<1>5. ASSUME NEW n \in 0 .. N
      PROVE  sum[n] = IF n = 0 THEN 0 ELSE sum[n - 1] + Size(rest[n])
  <2>1. CASE n = 0
    <3>1. 1 \in 0 .. N + 1 /\ 0 \in 0 .. N + 1
      BY <1>1
    <3>2. h[1] = h[0] + c /\ h[0] = 0
      BY <1>1, <1>4, <3>1 DEF c
    <3>3. sum[0] = h[1] - c
      BY <1>1
    <3> QED
      BY <1>3, <2>1, <3>2, <3>3
  <2>2. CASE n # 0
    <3>1. n \in 1 .. N /\ n - 1 \in 0 .. N /\ n + 1 \in 0 .. N + 1 /\ n \in 0 .. N + 1
          /\ (n + 1) - 1 = n /\ (n - 1) + 1 = n /\ n + 1 # 0
      BY <1>1, <2>2
    <3>2. h[n + 1] = h[n] + Size(rest[n])
      BY <1>1, <1>4, <3>1
    <3>3. sum[n] = h[n + 1] - c /\ sum[n - 1] = h[n] - c
      BY <3>1
    <3>4. h[n] \in Nat /\ Size(rest[n]) \in Nat
      BY <1>3, <3>1
    <3> HIDE DEF sum
    <3> QED
      BY <1>3, <2>2, <3>2, <3>3, <3>4
  <2> QED
    BY <2>1, <2>2
<1>6. sum = SizesStep(rest, sum)
  <2>1. SizesStep(rest, sum)
          = [n \in 0 .. N |-> IF n = 0 THEN 0 ELSE sum[n - 1] + Size(rest[n])]
    BY DEF SizesStep, N
  <2>2. sum = [n \in 0 .. N |-> sum[n]]
    OBVIOUS
  <2> HIDE DEF sum
  <2> QED
    BY <1>5, <2>1, <2>2, Zenon
<1>7. SizesDefined(rest) /\ Sizes(rest) = sum
  <2> HIDE DEF sum
  <2> QED
    BY <1>1, <1>6, SizesUnique DEF N
<1>8. sum[N] = h[N + 1] - c
  BY <1>1
<1> QED
  BY <1>1, <1>7, <1>8 DEF TotalSize, h, rest, N, c
-----------------------------------------------------------------------------
(* Reading. *)

LEMMA InputType ==
  ASSUME TypeInv
  PROVE  /\ input \in Seq(EnvelopeHeader) /\ Len(input) \in Nat
         /\ position \in Nat /\ position \in 0 .. Len(input)
         /\ \A i \in 1 .. Len(input) : input[i] \in Input
<1>1. input \in Seq(Input) /\ Input \subseteq EnvelopeHeader
  BY ReaderAssumption DEF TypeInv
<1>2. \A i \in 1 .. Len(input) : input[i] \in Input
  BY <1>1, ElementOfSeq
<1>3. input \in Seq(EnvelopeHeader)
  BY <1>1
<1>4. position \in 0 .. Len(input) /\ Len(input) \in Nat
  BY <1>1 DEF TypeInv
<1> QED
  BY <1>2, <1>3, <1>4

(* What a prefix of a line says, after one more event. *)
LEMMA PrefixGrows ==
  ASSUME NEW log \in Seq(EnvelopeHeader), NEW n \in 0 .. Len(log) - 1
  PROVE  /\ IdsIn(log, n + 1) = IdsIn(log, n) \cup {log[n + 1].event_id}
         /\ FibersIn(log, n + 1) = FibersIn(log, n) \cup {log[n + 1].fiber_id}
         /\ Positions(log, n + 1, log[n + 1].fiber_id) # {}
         /\ Latest(Positions(log, n + 1, log[n + 1].fiber_id)) = n + 1
         /\ \A f : f # log[n + 1].fiber_id => Positions(log, n + 1, f) = Positions(log, n, f)
<1> DEFINE e == log[n + 1]
           g == e.fiber_id
<1>1. n \in Nat /\ n + 1 \in 1 .. Len(log) /\ 1 .. n + 1 = (1 .. n) \cup {n + 1}
  OBVIOUS
<1>2. g \in FiberId
  <2>1. e \in EnvelopeHeader
    BY <1>1, ElementOfSeq
  <2> QED
    BY <2>1 DEF EnvelopeHeader
<1>3. IdsIn(log, n + 1) = IdsIn(log, n) \cup {e.event_id}
  BY <1>1 DEF IdsIn
<1>4. \A f : Positions(log, n + 1, f) = Positions(log, n, f) \cup (IF f = g THEN {n + 1} ELSE {})
  BY <1>1 DEF Positions
<1>5. \A f : f # g => Positions(log, n + 1, f) = Positions(log, n, f)
  BY <1>4
<1> DEFINE P == Positions(log, n + 1, g)
<1>6. n + 1 \in P /\ P \in SUBSET (1 .. n + 1)
  BY <1>1 DEF Positions
<1>7. Latest(P) = n + 1
  <2>1. P \in SUBSET Nat /\ \A j \in P : j <= n + 1
    BY <1>1, <1>6
  <2> HIDE DEF P
  <2> QED
    BY <1>6, <2>1, LatestIsGreatest
<1>8. FibersIn(log, n + 1) = FibersIn(log, n) \cup {g}
  <2> HIDE DEF g
  <2> QED
    BY <1>2, <1>5, <1>6 DEF FibersIn
<1> QED
  BY <1>3, <1>5, <1>6, <1>7, <1>8

(* The checks of read_event are those of a line, the zero identifier and   *)
(* the number of events aside, and the recording refuses nothing more.     *)
LEMMA VerdictIsContinues ==
  ASSUME TypeInv, TrackInv, NEW env \in Input
  PROVE  /\ EventVerdict(env) = "Ok" <=> Continues(input, position, env)
         /\ EventVerdict(env) = "Ok" /\ position < MaxPosition => ObserveAdmits(env)
<1> DEFINE f == env.fiber_id
           P == Positions(input, position, f)
           tip == input[Latest(P)]
           ids == IdsIn(input, position)
           fibs == FibersIn(input, position)
<1>1. f \in FiberId /\ env \in EnvelopeHeader
  BY ReaderAssumption DEF EnvelopeHeader
<1>2. f \in fibs <=> P # {}
  BY <1>1 DEF FibersIn
<1>3. DOMAIN observed = ids /\ DOMAIN fibers = fibs
  BY DEF TrackInv
<1>4. /\ P # {} => /\ fibers[f].last_event_id = tip.event_id
                   /\ fibers[f].last_commitment_hash = Commitment(tip)
                   /\ tip.event_id \in ids
                   /\ observed[tip.event_id] = f
  <2>1. SUFFICES ASSUME P # {} PROVE /\ fibers[f].last_event_id = tip.event_id
                                     /\ fibers[f].last_commitment_hash = Commitment(tip)
                                     /\ tip.event_id \in ids
                                     /\ observed[tip.event_id] = f
    OBVIOUS
  <2>2. /\ fibers[f].last_event_id = tip.event_id
        /\ fibers[f].last_commitment_hash = Commitment(tip)
    BY <1>2, <2>1 DEF TrackInv
  <2>3. P \in SUBSET (1 .. position) /\ \A i \in P : input[i].fiber_id = f
    BY DEF Positions
  <2>4. Latest(P) \in P
    <3> HIDE DEF P
    <3> QED
      BY <2>1, <2>3, InputType, LatestInPrefix
  <2>5. Latest(P) \in 1 .. position /\ tip.fiber_id = f
    BY <2>3, <2>4
  <2>6. tip.event_id \in ids /\ observed[tip.event_id] = tip.fiber_id
    <3> HIDE DEF P
    <3> QED
      BY <2>5 DEF TrackInv, IdsIn
  <2> QED
    BY <2>2, <2>5, <2>6
<1>5. Cardinality(fibs) \in Nat /\ MaxActiveFibers \in Nat
  BY InputType, PrefixFinite, LimitAssumption
<1>6. Continues(input, position, env) <=>
        /\ env.event_id \notin ids
        /\ \/ P = {} /\ IsGenesis(env) /\ Cardinality(fibs) < MaxActiveFibers
           \/ /\ P # {} /\ env.precursor # ZeroId
              /\ env.precursor = tip.event_id /\ env.precursor_hash = Commitment(tip)
  BY DEF Continues
<1> HIDE DEF P, tip, ids, fibs
<1>7. Cardinality(fibs) >= MaxActiveFibers <=> ~(Cardinality(fibs) < MaxActiveFibers)
  BY <1>5
<1>8. CASE env.precursor = ZeroId
  <2>1. EventVerdict(env) = "Ok" <=>
          env.event_id \notin ids /\ GenesisVerdict(env) = "Ok"
    BY <1>3, <1>8 DEF EventVerdict
  <2>2. GenesisVerdict(env) = "Ok" <=>
          IsGenesis(env) /\ Cardinality(fibs) < MaxActiveFibers /\ P = {}
    BY <1>2, <1>3, <1>7, <1>8 DEF GenesisVerdict, IsGenesis
  <2>3. EventVerdict(env) = "Ok" <=> Continues(input, position, env)
    BY <1>6, <1>8, <2>1, <2>2
  <2> QED
    BY <1>2, <1>3, <2>1, <2>2, <2>3 DEF ObserveAdmits
<1>9. CASE env.precursor # ZeroId
  <2>1. EventVerdict(env) = "Ok" <=>
          env.event_id \notin ids /\ ChainedVerdict(env) = "Ok"
    BY <1>3, <1>9 DEF EventVerdict
  <2>2. ChainedVerdict(env) = "Ok" <=>
          P # {} /\ env.precursor = tip.event_id /\ env.precursor_hash = Commitment(tip)
    BY <1>2, <1>3, <1>4 DEF ChainedVerdict
  <2>3. ~IsGenesis(env)
    BY <1>9 DEF IsGenesis
  <2>4. EventVerdict(env) = "Ok" <=> Continues(input, position, env)
    BY <1>6, <1>9, <2>1, <2>2, <2>3
  <2> QED
    BY <1>2, <1>3, <1>4, <1>9, <2>1, <2>2, <2>4 DEF ObserveAdmits
<1> QED
  BY <1>8, <1>9

(* Recording an event that continues the line keeps the tracking true.     *)
LEMMA ObserveTracks ==
  ASSUME TypeInv, TrackInv, position < Len(input),
         Continues(input, position, input[position + 1]),
         Observe(input[position + 1]), input' = input
  PROVE  TrackInv'
<1> DEFINE p == position
           env == input[p + 1]
           g == env.fiber_id
<1>1. /\ input \in Seq(EnvelopeHeader) /\ p \in 0 .. Len(input) - 1 /\ p \in Nat
      /\ p + 1 \in 1 .. Len(input)
  BY InputType
<1>2. env \in EnvelopeHeader /\ g \in FiberId
  <2>1. env \in EnvelopeHeader
    BY <1>1, ElementOfSeq
  <2> QED
    BY <2>1 DEF EnvelopeHeader
<1>3. /\ position' = p + 1
      /\ fibers' = Update(fibers, g, [last_event_id        |-> env.event_id,
                                      last_commitment_hash |-> Commitment(env)])
      /\ observed' = Update(observed, env.event_id, g)
  BY DEF Observe
<1>4. /\ IdsIn(input, p + 1) = IdsIn(input, p) \cup {env.event_id}
      /\ FibersIn(input, p + 1) = FibersIn(input, p) \cup {g}
      /\ Latest(Positions(input, p + 1, g)) = p + 1
      /\ \A f : f # g => Positions(input, p + 1, f) = Positions(input, p, f)
  BY <1>1, PrefixGrows
<1>5. /\ DOMAIN observed = IdsIn(input, p) /\ DOMAIN fibers = FibersIn(input, p)
      /\ \A i \in 1 .. p : observed[input[i].event_id] = input[i].fiber_id
      /\ \A n \in 1 .. p : Continues(input, n - 1, input[n])
  BY DEF TrackInv
<1>6. env.event_id \notin IdsIn(input, p)
  BY DEF Continues
<1> HIDE DEF p, env, g
<1>7. /\ DOMAIN observed' = IdsIn(input, p + 1)
      /\ DOMAIN fibers' = FibersIn(input, p + 1)
  BY <1>3, <1>4, <1>5 DEF Update
<1>8. ASSUME NEW i \in 1 .. p + 1 PROVE observed'[input[i].event_id] = input[i].fiber_id
  <2>1. CASE i = p + 1
    BY <1>3, <2>1 DEF Update, env, g
  <2>2. CASE i # p + 1
    <3>1. i \in 1 .. p
      BY <1>1, <2>2
    <3>2. input[i].event_id \in IdsIn(input, p)
      BY <3>1 DEF IdsIn
    <3>3. observed'[input[i].event_id] = observed[input[i].event_id]
      BY <1>3, <1>5, <1>6, <3>2 DEF Update
    <3> QED
      BY <1>5, <3>1, <3>3
  <2> QED
    BY <2>1, <2>2
<1>9. ASSUME NEW f \in FibersIn(input, p + 1)
      PROVE  LET tip == input[Latest(Positions(input, p + 1, f))]
             IN  /\ fibers'[f].last_event_id = tip.event_id
                 /\ fibers'[f].last_commitment_hash = Commitment(tip)
  <2>1. CASE f = g
    <3>1. fibers'[f] = [last_event_id        |-> env.event_id,
                        last_commitment_hash |-> Commitment(env)]
      BY <1>3, <2>1 DEF Update
    <3>2. input[Latest(Positions(input, p + 1, f))] = env
      BY <1>4, <2>1 DEF env
    <3> QED
      BY <3>1, <3>2
  <2>2. CASE f # g
    <3>1. f \in FibersIn(input, p) /\ Positions(input, p + 1, f) = Positions(input, p, f)
      BY <1>4, <2>2
    <3>2. fibers'[f] = fibers[f]
      BY <1>3, <1>5, <2>2, <3>1 DEF Update
    <3>3. LET tip == input[Latest(Positions(input, p, f))]
          IN  /\ fibers[f].last_event_id = tip.event_id
              /\ fibers[f].last_commitment_hash = Commitment(tip)
      BY <3>1 DEF TrackInv, p
    <3> QED
      BY <3>1, <3>2, <3>3
  <2> QED
    BY <2>1, <2>2
<1>10. ASSUME NEW n \in 1 .. p + 1 PROVE Continues(input, n - 1, input[n])
  <2>1. CASE n = p + 1
    <3>1. n - 1 = p
      BY <1>1, <2>1
    <3> QED
      BY <2>1, <3>1 DEF p
  <2>2. CASE n # p + 1
    BY <1>1, <1>5, <2>2
  <2> QED
    BY <2>1, <2>2
<1> QED
  BY <1>3, <1>7, <1>8, <1>9, <1>10 DEF TrackInv
-----------------------------------------------------------------------------
(* The steps. *)

LEMMA EmptyPrefix ==
  ASSUME NEW log
  PROVE  IdsIn(log, 0) = {} /\ FibersIn(log, 0) = {}
BY DEF IdsIn, FibersIn, Positions

LEMMA InitInv == Init => IInv
<1> SUFFICES ASSUME Init PROVE IInv
  OBVIOUS
<1>1. /\ phase \in {"Stream", "Frames"} /\ source = phase
      /\ queue = << >> /\ input = << >> /\ outcomes = << >>
      /\ fibers = << >> /\ observed = << >>
      /\ retained = 0 /\ position = 0 /\ capacity = FALSE /\ failed = FALSE
  BY DEF Init
<1>2. /\ Len(input) = 0 /\ Len(queue) = 0 /\ Len(outcomes) = 0
      /\ input \in Seq(Input) /\ queue \in Seq(Input) /\ outcomes \in Seq(Outcome)
      /\ DOMAIN observed = {} /\ DOMAIN fibers = {}
  BY <1>1
<1>3. TypeInv
  <2>1. position \in 0 .. Len(input) /\ Len(input) <= MaxStreamItems
    BY <1>1, <1>2, ReaderAssumption
  <2> QED
    BY <1>1, <1>2, <2>1 DEF TypeInv
<1>4. QueueInv
  BY <1>1, <1>2, EmptySizes, ReaderAssumption DEF QueueInv
<1>5. OpenInv
  BY <1>1 DEF OpenInv
<1>6. TrackInv
  BY <1>1, <1>2, EmptyPrefix DEF TrackInv
<1>7. OutcomeInv
  BY <1>1, <1>2 DEF OutcomeInv
<1>8. FailureIsABreak
  BY <1>1 DEF FailureIsABreak
<1> QED
  BY <1>3, <1>4, <1>5, <1>6, <1>7, <1>8 DEF IInv

(* An envelope is taken from the iterator or from a frame. *)
LEMMA TakeInv ==
  ASSUME IInv, NEW env \in Input, phase \in {"Stream", "Frames"},
         Fits(Len(queue), retained, env), Take(env),
         retained' = retained + Size(env),
         UNCHANGED <<phase, capacity, reading, source>>
  PROVE  IInv'
<1>1. TypeInv /\ QueueInv /\ OpenInv /\ TrackInv /\ OutcomeInv
  BY DEF IInv
<1>2. /\ phase' = phase /\ capacity' = capacity /\ source' = source
      /\ failed' = failed /\ position' = position /\ fibers' = fibers
      /\ observed' = observed /\ outcomes' = outcomes
      /\ queue' = Append(queue, env) /\ input' = Append(input, env)
  BY DEF reading, Take
<1>3. position = 0 /\ ~failed /\ ~capacity /\ outcomes = << >>
  BY <1>1 DEF OpenInv
<1>4. /\ queue \in Seq(Input) /\ input \in Seq(Input)
      /\ Len(queue) \in Nat /\ Len(input) = Len(queue)
      /\ \A i \in 1 .. Len(queue) : queue[i] = input[i]
  BY <1>1, <1>3 DEF TypeInv, QueueInv
<1>5. /\ queue' \in Seq(Input) /\ input' \in Seq(Input)
      /\ Len(queue') = Len(queue) + 1 /\ Len(input') = Len(queue) + 1
      /\ queue'[Len(queue) + 1] = env /\ input'[Len(queue) + 1] = env
      /\ \A i \in 1 .. Len(queue) : queue'[i] = queue[i] /\ input'[i] = input[i]
  BY <1>2, <1>4
<1>6. Len(queue) + 1 <= MaxStreamItems /\ retained + Size(env) <= MaxStreamBytes
  BY <1>4, ReaderAssumption DEF Fits
<1>7. TypeInv'
  BY <1>1, <1>2, <1>3, <1>4, <1>5, <1>6 DEF TypeInv
<1>8. QueueInv'
  <2>1. SizesDefined(queue') /\ retained' = TotalSize(queue')
    BY <1>1, <1>2, <1>4, AppendSizes DEF QueueInv
  <2>2. retained' \in Nat /\ retained' <= MaxStreamBytes
    BY <1>1, <1>6, ReaderAssumption DEF QueueInv
  <2>3. \A i \in 1 .. Len(queue') : queue'[i] = input'[position' + i]
    <3>1. \A i \in 1 .. Len(queue') : position' + i = i
                                      /\ (i = Len(queue) + 1 \/ i \in 1 .. Len(queue))
      BY <1>2, <1>3, <1>4, <1>5
    <3> QED
      BY <1>4, <1>5, <3>1
  <2>4. Len(queue') = Len(input') - position'
    BY <1>2, <1>3, <1>4, <1>5
  <2> QED
    BY <1>2, <1>3, <2>1, <2>2, <2>3, <2>4 DEF QueueInv
<1>9. OpenInv'
  BY <1>1, <1>2 DEF OpenInv
<1>10. TrackInv'
  <2>1. /\ IdsIn(input, 0) = {} /\ IdsIn(input', 0) = {}
        /\ FibersIn(input, 0) = {} /\ FibersIn(input', 0) = {}
    BY EmptyPrefix
  <2>2. DOMAIN observed = {} /\ DOMAIN fibers = {}
    BY <1>1, <1>3, <2>1 DEF TrackInv
  <2>3. \A i \in 1 .. position' : FALSE
    BY <1>2, <1>3
  <2>4. IdsIn(input', position') = {} /\ FibersIn(input', position') = {}
    BY <1>2, <1>3, <2>1
  <2> QED
    BY <1>2, <2>2, <2>3, <2>4 DEF TrackInv
<1>11. OutcomeInv' /\ FailureIsABreak'
  BY <1>1, <1>2, <1>3 DEF OutcomeInv, FailureIsABreak
<1> QED
  BY <1>7, <1>8, <1>9, <1>10, <1>11 DEF IInv

(* The reader fails: what was queued is dropped, and nothing it observed   *)
(* changes.                                                                *)
LEMMA FailKeeps ==
  ASSUME TypeInv, QueueInv, TrackInv, Fail, phase' \in {"Stream", "Frames", "Reading", "Refused"},
         capacity' \in BOOLEAN, UNCHANGED <<position, fibers, observed, input, source>>
  PROVE  TypeInv' /\ QueueInv' /\ TrackInv'
<1>1. failed' = TRUE /\ queue' = << >> /\ retained' = 0
  BY DEF Fail
<1>2. TypeInv'
  BY <1>1 DEF TypeInv
<1>3. QueueInv'
  BY <1>1, EmptySizes, ReaderAssumption DEF QueueInv
<1>4. TrackInv'
  BY DEF TrackInv
<1> QED
  BY <1>2, <1>3, <1>4

LEMMA StreamExceedsInv ==
  ASSUME IInv, NEW env \in Input, StreamExceeds(env)
  PROVE  IInv'
<1>1. TypeInv /\ QueueInv /\ OpenInv /\ TrackInv /\ OutcomeInv
  BY DEF IInv
<1>2. /\ phase = "Stream" /\ phase' = "Reading" /\ capacity' = TRUE /\ Fail
      /\ UNCHANGED <<position, fibers, observed, outcomes, input, source>>
  BY DEF StreamExceeds
<1>3. TypeInv' /\ QueueInv' /\ TrackInv'
  BY <1>1, <1>2, FailKeeps
<1>4. OpenInv'
  BY <1>1, <1>2 DEF OpenInv, Fail
<1>5. OutcomeInv' /\ FailureIsABreak'
  BY <1>1, <1>2 DEF OutcomeInv, FailureIsABreak, OpenInv
<1> QED
  BY <1>3, <1>4, <1>5 DEF IInv

(* The end of the iterator, and a frame that is refused. *)
LEMMA PhaseInv ==
  ASSUME IInv, phase \in {"Stream", "Frames"}, phase' \in {"Reading", "Refused"},
         UNCHANGED <<queue, retained, capacity, reading, input, source>>
  PROVE  IInv'
<1>1. TypeInv /\ QueueInv /\ OpenInv /\ TrackInv /\ OutcomeInv /\ FailureIsABreak
  BY DEF IInv
<1>2. UNCHANGED <<queue, retained, capacity, input, source, failed, position, fibers,
                  observed, outcomes>>
  BY DEF reading
<1>3. TypeInv' /\ QueueInv' /\ TrackInv'
  BY <1>1, <1>2 DEF TypeInv, QueueInv, TrackInv
<1>4. OpenInv'
  BY <1>1, <1>2 DEF OpenInv
<1>5. OutcomeInv' /\ FailureIsABreak'
  BY <1>1, <1>2 DEF OutcomeInv, FailureIsABreak, HasReturned
<1> QED
  BY <1>3, <1>4, <1>5 DEF IInv

(* with_stream refuses nothing that with_frames decoded. *)
LEMMA FramesEndInv ==
  ASSUME IInv, FramesEnd
  PROVE  IInv'
<1>1. TypeInv /\ QueueInv /\ OpenInv
  BY DEF IInv
<1>2. phase = "Frames" /\ phase' = "Reading"
  BY DEF FramesEnd
<1>3. Len(queue) <= MaxStreamItems /\ TotalSize(queue) <= MaxStreamBytes
  <2>1. position = 0 /\ ~failed
    BY <1>1, <1>2 DEF OpenInv
  <2>2. Len(queue) = Len(input) /\ Len(input) <= MaxStreamItems
    BY <1>1, <2>1 DEF TypeInv, QueueInv
  <2> QED
    BY <1>1, <2>2 DEF QueueInv
<1>4. retained' = retained /\ UNCHANGED <<queue, capacity, failed>>
  BY <1>1, <1>3 DEF FramesEnd, QueueInv
<1>5. UNCHANGED <<queue, retained, capacity, reading, input, source>>
  BY <1>4 DEF FramesEnd, reading
<1> QED
  BY <1>2, <1>5, PhaseInv

LEMMA ReadRefusalInv ==
  ASSUME IInv, ReadRefusal
  PROVE  IInv'
<1>1. TypeInv /\ QueueInv /\ OpenInv /\ TrackInv /\ OutcomeInv
  BY DEF IInv
<1>2. /\ phase = "Reading" /\ phase' = "Reading" /\ capacity /\ capacity' = FALSE /\ Fail
      /\ outcomes' = Append(outcomes, "Capacity")
      /\ UNCHANGED <<position, fibers, observed, input, source>>
  BY DEF ReadRefusal, Returned
<1>3. TypeInv' /\ QueueInv' /\ TrackInv'
  BY <1>1, <1>2, FailKeeps
<1>4. OpenInv'
  BY <1>2 DEF OpenInv
<1>5. /\ outcomes = << >> /\ source = "Stream"
  BY <1>1, <1>2 DEF OpenInv
<1>6. outcomes' \in Seq(Outcome) /\ Len(outcomes') = 1 /\ outcomes'[1] = "Capacity"
  <2>1. "Capacity" \in Outcome /\ outcomes \in Seq(Outcome) /\ Len(outcomes) = 0
    BY <1>1, <1>5 DEF Outcome, OutcomeInv
  <2> QED
    BY <1>2, <2>1
<1>7. OutcomeInv'
  <2>1. failed'
    BY <1>2 DEF Fail
  <2>2. \A i \in 1 .. Len(outcomes') : i = 1
    BY <1>6
  <2> QED
    BY <1>2, <1>5, <1>6, <2>1, <2>2 DEF OutcomeInv
<1>8. HasReturned("Capacity")'
  BY <1>6 DEF HasReturned
<1> QED
  BY <1>3, <1>4, <1>7, <1>8 DEF IInv, FailureIsABreak

LEMMA ReadObservesInv ==
  ASSUME IInv, ReadObserves
  PROVE  IInv'
<1>1. TypeInv /\ QueueInv /\ OpenInv /\ TrackInv /\ OutcomeInv
  BY DEF IInv
<1> DEFINE env == Head(queue)
<1>2. /\ phase = "Reading" /\ ~capacity /\ ~failed /\ queue # << >>
      /\ EventVerdict(env) = "Ok"
      /\ queue' = Tail(queue) /\ retained' = retained - Size(env)
      /\ Observe(env) /\ position' = position + 1
      /\ outcomes' = Append(outcomes, "Observed")
      /\ UNCHANGED <<phase, capacity, failed, input, source>>
  BY DEF ReadObserves, Returned, Observe
<1>3. /\ queue \in Seq(Input) /\ Len(queue) \in Nat /\ Len(queue) # 0
      /\ Len(queue) = Len(input) - position
      /\ \A i \in 1 .. Len(queue) : queue[i] = input[position + i]
      /\ Len(input) \in Nat /\ position \in Nat
  BY <1>1, <1>2, EmptySeq DEF TypeInv, QueueInv
<1>4. /\ env = input[position + 1] /\ position < Len(input)
      /\ env \in Input
  <2>1. 1 \in 1 .. Len(queue) /\ env = queue[1]
    BY <1>2, <1>3
  <2> QED
    BY <1>3, <2>1, ElementOfSeq
<1>5. /\ queue' \in Seq(Input) /\ Len(queue') = Len(queue) - 1
      /\ \A i \in 1 .. Len(queue') : queue'[i] = queue[i + 1]
  BY <1>2, <1>3
<1> HIDE DEF env
<1>6. TypeInv'
  <2>1. position' \in 0 .. Len(input')
    BY <1>2, <1>3, <1>4
  <2> QED
    BY <1>1, <1>2, <1>5, <2>1 DEF TypeInv
<1>7. QueueInv'
  <2>1. /\ SizesDefined(queue') /\ TotalSize(queue') = TotalSize(queue) - Size(env)
    BY <1>1, <1>2, <1>3, TailSizes DEF QueueInv, env
  <2>2. retained' = TotalSize(queue')
    BY <1>1, <1>2, <2>1 DEF QueueInv
  <2>3. TotalSize(queue') \in Nat
    <3>1. Len(queue') \in 0 .. Len(queue')
      BY <1>5
    <3> QED
      BY <1>5, <2>1, <3>1, SizesAreNat DEF TotalSize
  <2>4. retained' \in Nat /\ retained' <= MaxStreamBytes
    <3>1. retained \in Nat /\ Size(env) \in Nat /\ retained <= MaxStreamBytes
      BY <1>1, <1>4, ReaderAssumption DEF QueueInv
    <3> QED
      BY <1>2, <2>2, <2>3, <3>1, ReaderAssumption
  <2>5. Len(queue') = Len(input') - position'
    BY <1>2, <1>3, <1>5
  <2>6. ASSUME NEW i \in 1 .. Len(queue') PROVE queue'[i] = input'[position' + i]
    <3>1. i + 1 \in 1 .. Len(queue) /\ position + (i + 1) = position' + i
      BY <1>2, <1>3, <1>5
    <3> QED
      BY <1>2, <1>3, <1>5, <3>1
  <2> QED
    BY <1>2, <2>1, <2>2, <2>4, <2>5, <2>6 DEF QueueInv
<1>8. OpenInv'
  BY <1>2 DEF OpenInv
<1>9. TrackInv'
  <2>1. Continues(input, position, env)
    BY <1>1, <1>2, <1>4, VerdictIsContinues
  <2> QED
    BY <1>1, <1>2, <1>4, <2>1, ObserveTracks
<1>10. OutcomeInv'
  <2>1. /\ outcomes \in Seq(Outcome) /\ "Observed" \in Outcome /\ Len(outcomes) \in Nat
        /\ \A i \in 1 .. Len(outcomes) : outcomes[i] = "Observed"
    BY <1>1, <1>2 DEF OutcomeInv, Outcome
  <2>2. /\ outcomes' \in Seq(Outcome)
        /\ \A i \in 1 .. Len(outcomes') : outcomes'[i] = "Observed"
    BY <1>2, <2>1
  <2> QED
    BY <2>2 DEF OutcomeInv
<1>11. FailureIsABreak'
  BY <1>2 DEF FailureIsABreak
<1> QED
  BY <1>6, <1>7, <1>8, <1>9, <1>10, <1>11 DEF IInv

(* A refused event breaks the line, and the recording is never the reason. *)
LEMMA ReadFailsInv ==
  ASSUME IInv, ReadFails
  PROVE  IInv'
<1>1. TypeInv /\ QueueInv /\ OpenInv /\ TrackInv /\ OutcomeInv
  BY DEF IInv
<1> DEFINE env == Head(queue)
           verdict == EventVerdict(env)
<1>2. /\ phase = "Reading" /\ ~capacity /\ ~failed /\ queue # << >>
      /\ ~(verdict = "Ok" /\ ObserveAdmits(env))
      /\ Fail
      /\ outcomes' = Append(outcomes, IF verdict = "Ok" THEN "Overflow" ELSE verdict)
      /\ UNCHANGED <<phase, capacity, position, fibers, observed, input, source>>
  BY DEF ReadFails, Returned
<1>3. /\ queue \in Seq(Input) /\ Len(queue) \in Nat /\ Len(queue) # 0
      /\ Len(queue) = Len(input) - position
      /\ \A i \in 1 .. Len(queue) : queue[i] = input[position + i]
      /\ Len(input) \in Nat /\ position \in Nat /\ Len(input) <= MaxStreamItems
  BY <1>1, <1>2, EmptySeq DEF TypeInv, QueueInv
<1>4. /\ env = input[position + 1] /\ position < Len(input)
      /\ env \in Input
  <2>1. 1 \in 1 .. Len(queue) /\ env = queue[1]
    BY <1>2, <1>3
  <2> QED
    BY <1>3, <2>1, ElementOfSeq
<1> HIDE DEF env
<1>5. position < MaxPosition
  BY <1>3, <1>4, ReaderAssumption, StreamLimitAssumption
<1>6. verdict # "Ok" /\ ~Continues(input, position, env)
  BY <1>1, <1>2, <1>4, <1>5, VerdictIsContinues
<1>7. ~Extends(input, position, env)
  BY <1>6 DEF Extends, Continues
<1>8. verdict \in Outcome \ {"Observed", "Capacity", "Overflow"}
  BY <1>6 DEF EventVerdict, GenesisVerdict, ChainedVerdict, Outcome
<1>9. TypeInv' /\ QueueInv' /\ TrackInv'
  BY <1>1, <1>2, FailKeeps DEF TypeInv
<1>10. OpenInv'
  BY <1>2 DEF OpenInv
<1> HIDE DEF verdict
<1>11. /\ outcomes \in Seq(Outcome) /\ Len(outcomes) \in Nat
       /\ \A i \in 1 .. Len(outcomes) : outcomes[i] = "Observed"
  BY <1>1, <1>2 DEF OutcomeInv
<1>12. /\ outcomes' \in Seq(Outcome) /\ Len(outcomes') = Len(outcomes) + 1
       /\ outcomes'[Len(outcomes) + 1] = verdict
       /\ \A i \in 1 .. Len(outcomes) : outcomes'[i] = "Observed"
  BY <1>2, <1>6, <1>8, <1>11
<1>13. OutcomeInv'
  <2>1. \A i \in 1 .. Len(outcomes') : i = Len(outcomes') \/ i \in 1 .. Len(outcomes)
    BY <1>11, <1>12
  <2>2. failed'
    BY <1>2 DEF Fail
  <2> QED
    BY <1>8, <1>12, <2>1, <2>2 DEF OutcomeInv
<1>14. FailureIsABreak'
  BY <1>2, <1>4, <1>7 DEF FailureIsABreak
<1> QED
  BY <1>9, <1>10, <1>13, <1>14 DEF IInv

(* The invariant holds throughout: the queue is the rest of the input, and *)
(* the reader's tracking of fibers is the one its events determine.        *)
THEOREM ReaderInvariant == Spec => []IInv
<1>1. IInv /\ [Next]_vars => IInv'
  <2> SUFFICES ASSUME IInv, [Next]_vars PROVE IInv'
    OBVIOUS
  <2>1. ASSUME NEW env \in Input, StreamItem(env) PROVE IInv'
    BY <2>1, TakeInv DEF StreamItem
  <2>2. ASSUME NEW env \in Input, FrameItem(env) PROVE IInv'
    BY <2>2, TakeInv DEF FrameItem
  <2>3. ASSUME NEW env \in Input, StreamExceeds(env) PROVE IInv'
    BY <2>3, StreamExceedsInv
  <2>4. CASE StreamEnd
    BY <2>4, PhaseInv DEF StreamEnd
  <2>5. CASE FrameRefused
    BY <2>5, PhaseInv DEF FrameRefused
  <2>6. CASE FramesEnd
    BY <2>6, FramesEndInv
  <2>7. CASE ReadRefusal
    BY <2>7, ReadRefusalInv
  <2>8. CASE ReadObserves
    BY <2>8, ReadObservesInv
  <2>9. CASE ReadFails
    BY <2>9, ReadFailsInv
  <2>10. CASE UNCHANGED vars
    <3>1. UNCHANGED <<phase, queue, retained, capacity, failed, position, fibers,
                      observed, outcomes, input, source>>
      BY <2>10 DEF vars, reading
    <3>2. TypeInv' = TypeInv /\ QueueInv' = QueueInv /\ OpenInv' = OpenInv
      BY <3>1 DEF TypeInv, QueueInv, OpenInv
    <3>3. TrackInv' = TrackInv /\ OutcomeInv' = OutcomeInv
      BY <3>1 DEF TrackInv, OutcomeInv
    <3>4. FailureIsABreak' = FailureIsABreak
      BY <3>1 DEF FailureIsABreak, HasReturned
    <3> QED
      BY <3>2, <3>3, <3>4 DEF IInv
  <2> QED
    BY <2>1, <2>2, <2>3, <2>4, <2>5, <2>6, <2>7, <2>8, <2>9, <2>10 DEF Next
<1> QED
  BY InitInv, <1>1, PTL DEF Spec
-----------------------------------------------------------------------------
(* What the invariant gives. *)

(* A prefix has no more identifiers than events, nor a fiber more events.  *)
LEMMA PrefixBounds ==
  ASSUME NEW log \in Seq(EnvelopeHeader), NEW n \in 0 .. Len(log)
  PROVE  /\ Cardinality(IdsIn(log, n)) <= n
         /\ \A f : Cardinality(Positions(log, n, f)) <= n
<1>1. n \in Nat /\ IsFiniteSet(1 .. n) /\ Cardinality(1 .. n) = n
  BY FS_Interval
<1>2. Cardinality(IdsIn(log, n)) <= n
  <2> DEFINE h == [i \in 1 .. n |-> log[i].event_id]
  <2>1. h \in Surjection(1 .. n, IdsIn(log, n))
    BY DEF Surjection, IdsIn
  <2> HIDE DEF h
  <2> QED
    BY <1>1, <2>1, FS_Surjection
<1>3. ASSUME NEW f PROVE Cardinality(Positions(log, n, f)) <= n
  <2>1. Positions(log, n, f) \subseteq 1 .. n
    BY DEF Positions
  <2> QED
    BY <1>1, <2>1, FS_Subset
<1> QED
  BY <1>2, <1>3

(* A line of non-zero identifiers that the reader could take extends.      *)
LEMMA ContinuesExtends ==
  ASSUME TypeInv, NEW n \in 1 .. Len(input),
         Continues(input, n - 1, input[n]), input[n].event_id # ZeroId
  PROVE  Extends(input, n - 1, input[n])
<1> DEFINE P == Positions(input, n - 1, input[n].fiber_id)
           ids == IdsIn(input, n - 1)
<1>1. /\ input \in Seq(EnvelopeHeader) /\ Len(input) \in Nat
      /\ n - 1 \in 0 .. Len(input) /\ n - 1 < Len(input)
      /\ Len(input) <= MaxStreamItems
  BY InputType DEF TypeInv
<1>2. /\ Cardinality(ids) \in Nat /\ Cardinality(P) \in Nat
      /\ Cardinality(ids) <= n - 1 /\ Cardinality(P) <= n - 1
  BY <1>1, PrefixFinite, PrefixBounds
<1>3. n - 1 < MaxEventsPerFiber
  BY <1>1, ReaderAssumption, StreamLimitAssumption, LimitAssumption
<1>4. MaxEventsPerFiber <= MaxActiveFibers * MaxEventsPerFiber
  <2>1. \A k, m \in Nat : k # 0 => m <= k * m
    OBVIOUS
  <2> QED
    BY <2>1, LimitAssumption
<1>5. MaxActiveFibers * MaxEventsPerFiber \in Nat /\ MaxEventsPerFiber \in Nat
  BY LimitAssumption
<1>6. Cardinality(P) < MaxEventsPerFiber
      /\ Cardinality(ids) < MaxActiveFibers * MaxEventsPerFiber
  <2> DEFINE k == MaxActiveFibers * MaxEventsPerFiber
  <2> HIDE DEF k, P, ids
  <2> QED
    BY <1>1, <1>2, <1>3, <1>4, <1>5 DEF k
<1> QED
  BY <1>6 DEF Extends, Continues

(* ObservedIsALine: what read_event let pass is a line that the session    *)
(* index would have admitted, event by event.                              *)
THEOREM ReadersSeeALine == Spec => []ObservedIsALine
<1>1. IInv => ObservedIsALine
  <2> SUFFICES ASSUME IInv PROVE ObservedIsALine
    OBVIOUS
  <2>1. TypeInv /\ TrackInv
    BY DEF IInv
  <2>2. /\ input \in Seq(EnvelopeHeader) /\ Len(input) \in Nat
        /\ position \in Nat /\ position <= Len(input)
    BY <2>1, InputType
  <2> DEFINE seen == SubSeq(input, 1, position)
  <2>3. Len(seen) = position /\ \A i \in 1 .. position : seen[i] = input[i]
    BY <2>2
  <2> HIDE DEF seen
  <2>4. ASSUME ZeroId \notin IdsIn(input, position), NEW n \in 1 .. position
        PROVE  Extends(seen, n - 1, seen[n])
    <3>1. n \in 1 .. Len(input) /\ n - 1 \in Nat
          /\ \A i \in 1 .. n - 1 : seen[i] = input[i]
      BY <2>2, <2>3
    <3>2. input[n].event_id # ZeroId
      BY <2>4 DEF IdsIn
    <3>3. Extends(input, n - 1, input[n])
      BY <2>1, <3>1, <3>2, ContinuesExtends DEF TrackInv
    <3>4. seen[n] = input[n]
      BY <2>3
    <3> QED
      BY <3>1, <3>3, <3>4, PrefixStable
  <2> QED
    BY <2>2, <2>3, <2>4 DEF ObservedIsALine, WellFormed, seen
<1> QED
  BY ReaderInvariant, <1>1, PTL

(* FailureIsABreak: a reader that fails after it was opened within its     *)
(* limits stands before an event that does not extend what it observed.    *)
THEOREM FailuresAreBreaks == Spec => []FailureIsABreak
<1>1. IInv => FailureIsABreak
  BY DEF IInv
<1> QED
  BY ReaderInvariant, <1>1, PTL

(* ChecksAgree: with_stream never refuses what with_frames decoded, and    *)
(* observe_genesis and observe_event nothing that read_event let pass.     *)
THEOREM RepeatedChecksAgree == Spec => []ChecksAgree
<1>1. IInv => ChecksAgree
  BY DEF IInv, OpenInv, OutcomeInv, ChecksAgree, HasReturned
<1> QED
  BY ReaderInvariant, <1>1, PTL

(* ErrorIsLast: read_event returns nothing behind an error, and            *)
(* retained_bytes is the size of what is queued, within MAX_STREAM_BYTES.  *)
THEOREM ErrorsAreLast == Spec => []ErrorIsLast
<1>1. IInv => ErrorIsLast
  BY DEF IInv, QueueInv, OutcomeInv, ErrorIsLast
<1> QED
  BY ReaderInvariant, <1>1, PTL

(* WalkAdmits: admit_precursor_link admits the link of every event that a  *)
(* reader observed.                                                        *)
THEOREM WalksAreAdmitted == Spec => []WalkAdmits
<1>1. IInv => WalkAdmits
  <2> SUFFICES ASSUME IInv, NEW n \in 1 .. position
               PROVE  LinkAdmitted(input[n].fiber_id, input, n - 1, input[n])
    BY DEF WalkAdmits
  <2> DEFINE env == input[n]
             P == Positions(input, n - 1, env.fiber_id)
  <2>1. TypeInv /\ Continues(input, n - 1, env)
    BY DEF IInv, TrackInv
  <2>2. n - 1 \in Nat
    BY <2>1, InputType
  <2>3. CASE IsGenesis(env)
    BY <2>3 DEF LinkAdmitted, IsGenesis
  <2>4. CASE ~IsGenesis(env)
    <3>1. /\ P # {} /\ env.precursor # ZeroId
          /\ env.precursor = input[Latest(P)].event_id
          /\ env.precursor_hash = Commitment(input[Latest(P)])
      BY <2>1, <2>4 DEF Continues
    <3>2. P \in SUBSET (1 .. n - 1) /\ \A i \in P : input[i].fiber_id = env.fiber_id
      BY DEF Positions
    <3>3. Latest(P) \in P
      <4> HIDE DEF P
      <4> QED
        BY <2>2, <3>1, <3>2, LatestInPrefix
    <3>4. Latest(P) \in Resolve(input, n - 1, env.precursor)
      BY <3>1, <3>2, <3>3 DEF Resolve
    <3> HIDE DEF P
    <3> QED
      BY <3>1, <3>2, <3>3, <3>4 DEF LinkAdmitted
  <2> QED
    BY <2>3, <2>4
<1> QED
  BY ReaderInvariant, <1>1, PTL
=============================================================================
