------------------------- MODULE NatsCreationProofs -------------------------
(***************************************************************************)
(* Creation in JetStream is safe for any number of processes that create,  *)
(* complete and open at once, any number of abandoned publishes and any    *)
(* records of the operator.                                                *)
(***************************************************************************)
EXTENDS NatsCreation, FiniteSetTheorems, SequenceTheorems,
        WellFoundedInduction, TLAPS

-----------------------------------------------------------------------------
(* The inductive invariant. *)

(* The first k records of the meta stream are p's. *)
Wrote(p, k) ==
    /\ k <= Len(metaLog)
    /\ \A i \in 1 .. k : metaLog[i] = [kind |-> Kind[i], by |-> p]

(* The ownership record is complete. *)
MetaComplete == \E p \in Process : Wrote(p, 3)

(* A creator's record stands behind the earlier records of the same        *)
(* creator; the operator's come after a header and are no part of it.      *)
MetaInv ==
    \A i \in 1 .. Len(metaLog) :
        IF metaLog[i].by = Operator
        THEN i > 1 /\ metaLog[i].kind \in {"Claim", "Outbound"}
        ELSE i <= 3 /\ Wrote(metaLog[i].by, i)

(* One header at most, and the process a creation returned to wrote it. *)
DataInv ==
    /\ Len(dataLog) <= 1
    /\ \A p \in established : Len(dataLog) = 1 /\ dataLog[1].by = p

(* What a process relies on when it has reached its k-th publish. *)
Reached(p, k) == IF k = 4 THEN MetaComplete ELSE Wrote(p, k - 1)

(* What the acknowledgement of its k-th publish tells it. *)
Stored(p, k) ==
    IF k = 4 THEN Len(dataLog) = 1 /\ dataLog[1].by = p ELSE Wrote(p, k)

PublishOf(p, k, from) ==
    [from     |-> from,
     stream   |-> StreamOf(k),
     expected |-> Expected(k),
     record   |-> [kind |-> Kind[k], by |-> p]]

ProcessInv(p) ==
    /\ phase[p] \in {"Publishing", "Awaiting"} => at[p] \in 1 .. 4 /\ Reached(p, at[p])
    /\ phase[p] = "MakingData" => MetaComplete
    /\ phase[p] = "Session" => MetaComplete /\ Len(dataLog) = 1

(* A publish in flight is one of the four, sent when its creator had       *)
(* reached it; a process that still listens waits for this one.            *)
NetInv ==
    \A m \in net : \E p \in Process, k \in 1 .. 4 :
        /\ m = PublishOf(p, k, m.from)
        /\ Reached(p, k)
        /\ m.from # Nobody => m.from = p /\ phase[p] = "Awaiting" /\ at[p] = k

ReplyInv ==
    \A r \in replies :
        /\ phase[r.to] = "Awaiting"
        /\ \A m \in net : m.from # r.to
        /\ r.stored => Stored(r.to, at[r.to])

IInv ==
    /\ TypeOK
    /\ MetaInv
    /\ DataInv
    /\ \A p \in Process : ProcessInv(p)
    /\ NetInv
    /\ ReplyInv

-----------------------------------------------------------------------------
(* Facts about the operators. *)

(* A non-empty set of positions has a greatest one. *)
LEMMA GreatestPosition ==
  ASSUME NEW n \in Nat, NEW P \in SUBSET (1 .. n), P # {}
  PROVE  \E i \in P : \A j \in P : j <= i
<1> DEFINE T == {i \in Nat : n - i \in P}
<1>1. T \subseteq Nat /\ T # {}
  <2>1. PICK p \in P : TRUE
    OBVIOUS
  <2>2. n - p \in T
    BY <2>1
  <2> QED
    BY <2>2
<1>2. PICK x \in T : \A y \in T : ~ (<<y, x>> \in OpToRel(<, Nat))
  <2> HIDE DEF T
  <2> QED
    BY <1>1, NatLessThanWellFounded, WFMin
<1>3. ASSUME NEW y \in T PROVE x <= y
  <2>1. x \in Nat /\ y \in Nat
    BY <1>1
  <2>2. <<y, x>> \in OpToRel(<, Nat) <=> y < x
    BY <2>1 DEF OpToRel
  <2>3. ~ (y < x)
    BY <2>2, <1>2, Zenon
  <2> QED
    BY <2>1, <2>3
<1>4. ASSUME NEW j \in P PROVE j <= n - x
  <2>1. j \in 1 .. n /\ n - (n - j) = j /\ n - j \in Nat
    OBVIOUS
  <2>2. n - j \in T
    BY <2>1
  <2>3. x \in Nat /\ x <= n - j
    BY <2>2, <1>3
  <2> QED
    BY <2>1, <2>3
<1> QED
  BY <1>4

(* The latest claim of a record that has one is a position of it. *)
LEMMA LatestClaimType ==
  ASSUME metaLog \in Seq(Record), HasClaim
  PROVE  LatestClaim \in Nat
<1>1. Of("Claim") \in SUBSET (1 .. Len(metaLog)) /\ Of("Claim") # {} /\ Len(metaLog) \in Nat
  BY DEF Of, HasClaim
<1>2. \E i \in Of("Claim") : \A j \in Of("Claim") : j <= i
  BY <1>1, GreatestPosition
<1>3. LatestClaim \in Of("Claim")
  BY <1>2 DEF LatestClaim
<1> QED
  BY <1>1, <1>3

(* What a process wrote stays when records are added. *)
LEMMA WroteStays ==
  ASSUME metaLog \in Seq(Record), NEW x,
         metaLog' = metaLog \/ metaLog' = Append(metaLog, x),
         NEW p, NEW k \in Nat, Wrote(p, k)
  PROVE  Wrote(p, k)'
<1>1. Len(metaLog) \in Nat /\ Len(metaLog') \in Nat /\ Len(metaLog) <= Len(metaLog')
  OBVIOUS
<1>2. \A i \in 1 .. Len(metaLog) : metaLog'[i] = metaLog[i]
  OBVIOUS
<1> QED
  BY <1>1, <1>2 DEF Wrote

LEMMA CompleteStays ==
  ASSUME metaLog \in Seq(Record), NEW x,
         metaLog' = metaLog \/ metaLog' = Append(metaLog, x), MetaComplete
  PROVE  MetaComplete'
<1>1. PICK p \in Process : Wrote(p, 3)
  BY DEF MetaComplete
<1>2. Wrote(p, 3)'
  BY <1>1, WroteStays
<1> QED
  BY <1>2 DEF MetaComplete

LEMMA ReachedStays ==
  ASSUME metaLog \in Seq(Record), NEW x,
         metaLog' = metaLog \/ metaLog' = Append(metaLog, x),
         NEW p, NEW k \in 1 .. 4, Reached(p, k)
  PROVE  Reached(p, k)'
<1>1. CASE k = 4
  BY <1>1, CompleteStays DEF Reached
<1>2. CASE k # 4
  <2>1. k - 1 \in Nat
    OBVIOUS
  <2> QED
    BY <1>2, <2>1, WroteStays DEF Reached
<1> QED
  BY <1>1, <1>2

(* The record is complete if it has what complete_creation and open_write  *)
(* ask for: only the creator that wrote all before writes a descriptor.    *)
LEMMA DescriptorCompletes ==
  ASSUME metaLog \in Seq(Record), MetaInv, Of("Descriptor") # {}
  PROVE  MetaComplete
<1>1. PICK i \in 1 .. Len(metaLog) : metaLog[i].kind = "Descriptor"
  BY DEF Of
<1>2. metaLog[i] \in Record
  BY ElementOfSeq
<1>3. metaLog[i].by # Operator
  BY <1>1 DEF MetaInv
<1>4. i <= 3 /\ Wrote(metaLog[i].by, i)
  BY <1>3 DEF MetaInv
<1>5. metaLog[i] = [kind |-> Kind[i], by |-> metaLog[i].by] /\ i \in 1 .. 3
  BY <1>4 DEF Wrote
<1>6. Kind[i] = "Descriptor"
  BY <1>1, <1>5
<1>7. i = 3
  BY <1>5, <1>6 DEF Kind
<1>8. metaLog[i].by \in Process
  BY <1>2, <1>3 DEF Record
<1> QED
  BY <1>4, <1>7, <1>8 DEF MetaComplete

(* A complete record is readable and has its claim and one descriptor. *)
LEMMA CompleteReadable ==
  ASSUME metaLog \in Seq(Record), MetaInv, MetaComplete
  PROVE  MetaReadable /\ HasClaim /\ Of("Descriptor") # {}
<1>1. PICK p \in Process : Wrote(p, 3)
  BY DEF MetaComplete
<1>2. /\ Len(metaLog) \in Nat /\ 3 <= Len(metaLog)
      /\ metaLog[1] = [kind |-> "Header", by |-> p]
      /\ metaLog[2] = [kind |-> "Claim", by |-> p]
      /\ metaLog[3] = [kind |-> "Descriptor", by |-> p]
  BY <1>1 DEF Wrote, Kind
<1>3. ASSUME NEW i \in 1 .. Len(metaLog)
      PROVE  /\ metaLog[i].kind = "Header" => i = 1
             /\ metaLog[i].kind = "Descriptor" => i = 3
  <2>1. CASE metaLog[i].by = Operator
    BY <2>1 DEF MetaInv
  <2>2. CASE metaLog[i].by # Operator
    <3>1. i \in {1, 2, 3}
      BY <2>2 DEF MetaInv
    <3> QED
      BY <1>2, <3>1
  <2> QED
    BY <2>1, <2>2
<1>4. 1 \in 1 .. Len(metaLog) /\ 2 \in 1 .. Len(metaLog) /\ 3 \in 1 .. Len(metaLog)
  BY <1>2
<1>5. Of("Header") = {1} /\ Of("Descriptor") = {3} /\ 2 \in Of("Claim")
  BY <1>2, <1>3, <1>4 DEF Of
<1>6. {metaLog[i].by : i \in Of("Descriptor")} = {p}
  BY <1>2, <1>5
<1>7. Cardinality({p}) = 1
  BY FS_Singleton
<1>8. Cardinality({metaLog[i].by : i \in Of("Descriptor")}) = 1
  BY <1>6, <1>7, Zenon
<1> QED
  BY <1>5, <1>8 DEF MetaReadable, HasClaim

-----------------------------------------------------------------------------
(* The steps. *)

LEMMA InitIInv == Init => IInv
<1> SUFFICES ASSUME Init PROVE IInv
  OBVIOUS
<1>1. TypeOK
  <2>1. << >> \in Seq(Record)
    OBVIOUS
  <2>2. metaExists \in BOOLEAN /\ dataExists \in BOOLEAN /\ gaveUp \in BOOLEAN
    BY Zenon DEF Init
  <2>3. phase \in [Process -> Phase] /\ at \in [Process -> 0 .. 4] /\ given \in [Process -> Nat]
    BY DEF Init, Phase
  <2> QED
    BY <2>1, <2>2, <2>3 DEF Init, TypeOK
<1>2. MetaInv /\ DataInv /\ NetInv /\ ReplyInv
  BY DEF Init, MetaInv, DataInv, NetInv, ReplyInv
<1>3. \A p \in Process : ProcessInv(p)
  BY DEF Init, ProcessInv
<1> QED
  BY <1>1, <1>2, <1>3 DEF IInv

(* A step of p that leaves the logs alone and sends nothing, after which p *)
(* is not waiting for an answer unless it was.                             *)
LEMMA LogsSame ==
  ASSUME IInv, metaLog' = metaLog, dataLog' = dataLog
  PROVE  /\ MetaInv'
         /\ established' = established => DataInv'
         /\ MetaComplete' <=> MetaComplete
         /\ \A p, k : /\ Reached(p, k)' <=> Reached(p, k)
                      /\ Stored(p, k)' <=> Stored(p, k)
<1>1. \A p, k : Wrote(p, k)' <=> Wrote(p, k)
  BY DEF Wrote
<1>2. MetaComplete' <=> MetaComplete
  BY <1>1 DEF MetaComplete
<1>3. MetaInv'
  BY <1>1 DEF IInv, MetaInv
<1> QED
  BY <1>1, <1>2, <1>3 DEF IInv, DataInv, Reached, Stored

(* A step of p inside its call, with what p then relies on. *)
LEMMA ProcessStep ==
  ASSUME IInv, TypeOK', NEW p \in Process,
         metaLog' = metaLog, dataLog' = dataLog, established' = established,
         net' = net, replies' = replies,
         phase[p] # "Awaiting", phase'[p] # "Awaiting",
         \A q \in Process \ {p} : phase'[q] = phase[q] /\ at'[q] = at[q],
         phase'[p] = "Publishing" => at'[p] \in 1 .. 4 /\ Reached(p, at'[p]),
         phase'[p] = "MakingData" => MetaComplete,
         phase'[p] = "Session" => MetaComplete /\ Len(dataLog) = 1
  PROVE  IInv'
<1>1. MetaInv' /\ DataInv' /\ (MetaComplete' <=> MetaComplete)
      /\ \A q, k : (Reached(q, k)' <=> Reached(q, k)) /\ (Stored(q, k)' <=> Stored(q, k))
  BY LogsSame
<1>2. ASSUME NEW q \in Process PROVE ProcessInv(q)'
  <2>1. CASE q = p
    BY <1>1, <2>1 DEF ProcessInv
  <2>2. CASE q # p
    <3>1. ProcessInv(q) /\ phase'[q] = phase[q] /\ at'[q] = at[q]
      BY <2>2 DEF IInv
    <3> QED
      BY <1>1, <3>1 DEF ProcessInv
  <2> QED
    BY <2>1, <2>2
<1>3. NetInv'
  <2> SUFFICES ASSUME NEW m \in net
               PROVE  \E q \in Process, k \in 1 .. 4 :
                        /\ m = PublishOf(q, k, m.from)
                        /\ Reached(q, k)'
                        /\ m.from # Nobody => m.from = q /\ phase'[q] = "Awaiting" /\ at'[q] = k
    BY DEF NetInv, PublishOf
  <2>1. PICK q \in Process, k \in 1 .. 4 :
          /\ m = PublishOf(q, k, m.from)
          /\ Reached(q, k)
          /\ m.from # Nobody => m.from = q /\ phase[q] = "Awaiting" /\ at[q] = k
    BY DEF IInv, NetInv
  <2> QED
    BY <1>1, <2>1
<1>4. ReplyInv'
  BY <1>1 DEF IInv, TypeOK, ReplyInv
<1> QED
  BY <1>1, <1>2, <1>3, <1>4 DEF IInv

(* The call of p ends and its publish, if any, is orphaned. *)
LEMMA AbandonStep ==
  ASSUME IInv, NEW p \in Process, Abandon(p), gaveUp' \in BOOLEAN
  PROVE  IInv'
<1>1. TypeOK'
  <2>1. \A m \in net' : m.from \in Process \cup {Nobody} /\ m.record \in Record
    <3> SUFFICES ASSUME NEW m \in net,
                        NEW n, n = IF m.from = p THEN [m EXCEPT !.from = Nobody] ELSE m
                 PROVE  n.from \in Process \cup {Nobody} /\ n.record \in Record
      BY DEF Abandon
    <3>1. PICK q \in Process, k \in 1 .. 4 : m = PublishOf(q, k, m.from)
      BY DEF IInv, NetInv
    <3> QED
      BY <3>1 DEF IInv, TypeOK, PublishOf
  <2> QED
    BY <2>1 DEF IInv, TypeOK, Abandon, Goto, Reach, Phase, server
<1>2. MetaInv' /\ DataInv' /\ (MetaComplete' <=> MetaComplete)
      /\ \A q, k : (Reached(q, k)' <=> Reached(q, k)) /\ (Stored(q, k)' <=> Stored(q, k))
  BY LogsSame DEF Abandon, server
<1>3. /\ phase'[p] = "Idle"
      /\ \A q \in Process \ {p} : phase'[q] = phase[q] /\ at'[q] = at[q]
      /\ dataLog' = dataLog
  BY DEF IInv, TypeOK, Abandon, Goto, Reach, server
<1>4. \A q \in Process : ProcessInv(q)'
  BY <1>2, <1>3 DEF IInv, ProcessInv
<1>5. NetInv'
  <2> SUFFICES ASSUME NEW m \in net,
                      NEW n, n = IF m.from = p THEN [m EXCEPT !.from = Nobody] ELSE m
               PROVE  \E q \in Process, k \in 1 .. 4 :
                        /\ n = PublishOf(q, k, n.from)
                        /\ Reached(q, k)'
                        /\ n.from # Nobody => n.from = q /\ phase'[q] = "Awaiting" /\ at'[q] = k
    BY DEF NetInv, Abandon, PublishOf
  <2>1. PICK q \in Process, k \in 1 .. 4 :
          /\ m = PublishOf(q, k, m.from)
          /\ Reached(q, k)
          /\ m.from # Nobody => m.from = q /\ phase[q] = "Awaiting" /\ at[q] = k
    BY DEF IInv, NetInv
  <2>2. CASE m.from = p
    <3>1. n = PublishOf(q, k, Nobody) /\ n.from = Nobody
      BY <2>1, <2>2 DEF PublishOf
    <3> QED
      BY <1>2, <2>1, <3>1
  <2>3. CASE m.from # p
    BY <1>2, <1>3, <2>1, <2>3
  <2> QED
    BY <2>2, <2>3
<1>6. ReplyInv'
  <2> SUFFICES ASSUME NEW r \in replies, r.to # p
               PROVE  /\ phase'[r.to] = "Awaiting"
                      /\ \A m \in net' : m.from # r.to
                      /\ r.stored => Stored(r.to, at[r.to])'
    BY DEF ReplyInv, Abandon
  <2>1. /\ r.to \in Process
        /\ phase[r.to] = "Awaiting"
        /\ \A m \in net : m.from # r.to
        /\ r.stored => Stored(r.to, at[r.to])
    BY DEF IInv, TypeOK, ReplyInv
  <2>2. ASSUME NEW m \in net,
               NEW n, n = IF m.from = p THEN [m EXCEPT !.from = Nobody] ELSE m
        PROVE  n.from # r.to
    <3>1. PICK q \in Process, k \in 1 .. 4 : m = PublishOf(q, k, m.from)
      BY DEF IInv, NetInv
    <3> QED
      BY <2>1, <2>2, <3>1, CreationAssumption DEF PublishOf
  <2>3. \A m \in net' : m.from # r.to
    BY <2>2 DEF Abandon
  <2> QED
    BY <1>2, <1>3, <2>1, <2>3
<1> QED
  BY <1>1, <1>2, <1>4, <1>5, <1>6 DEF IInv

(* A step that adds to a log, and leaves all calls where they are. *)
LEMMA LogGrows ==
  ASSUME IInv, NEW x, metaLog' = metaLog \/ metaLog' = Append(metaLog, x),
         dataLog' = dataLog \/ Len(dataLog) = 0,
         phase' = phase, at' = at, net' \subseteq net
  PROVE  /\ \A p \in Process : ProcessInv(p)'
         /\ NetInv'
         /\ \A r \in replies : /\ phase'[r.to] = "Awaiting"
                               /\ \A m \in net' : m.from # r.to
                               /\ r.stored => Stored(r.to, at[r.to])'
<1>0. metaLog \in Seq(Record)
  BY DEF IInv, TypeOK
<1>1. MetaComplete => MetaComplete'
  BY <1>0, CompleteStays
<1>2. \A p, k : k \in 1 .. 4 /\ Reached(p, k) => Reached(p, k)'
  BY <1>0, ReachedStays
<1>3. ASSUME NEW p \in Process PROVE ProcessInv(p)'
  BY <1>1, <1>2 DEF IInv, ProcessInv
<1>4. NetInv'
  <2> SUFFICES ASSUME NEW m \in net
               PROVE  \E q \in Process, k \in 1 .. 4 :
                        /\ m = PublishOf(q, k, m.from)
                        /\ Reached(q, k)'
                        /\ m.from # Nobody => m.from = q /\ phase[q] = "Awaiting" /\ at[q] = k
    BY DEF NetInv, PublishOf
  <2>1. PICK q \in Process, k \in 1 .. 4 :
          /\ m = PublishOf(q, k, m.from)
          /\ Reached(q, k)
          /\ m.from # Nobody => m.from = q /\ phase[q] = "Awaiting" /\ at[q] = k
    BY DEF IInv, NetInv
  <2> QED
    BY <1>2, <2>1
<1>5. ASSUME NEW r \in replies
      PROVE  /\ phase'[r.to] = "Awaiting"
             /\ \A m \in net' : m.from # r.to
             /\ r.stored => Stored(r.to, at[r.to])'
  <2>1. /\ r.to \in Process /\ at[r.to] \in 1 .. 4
        /\ phase[r.to] = "Awaiting"
        /\ \A m \in net : m.from # r.to
        /\ r.stored => Stored(r.to, at[r.to])
    BY DEF IInv, TypeOK, ReplyInv, ProcessInv
  <2>2. ASSUME Stored(r.to, at[r.to]) PROVE Stored(r.to, at[r.to])'
    <3>1. CASE at[r.to] = 4
      BY <2>2, <3>1 DEF Stored
    <3>2. CASE at[r.to] # 4
      <4>1. at[r.to] \in Nat /\ Wrote(r.to, at[r.to])
        BY <2>1, <2>2, <3>2 DEF Stored
      <4>2. \A p, k : k \in Nat /\ Wrote(p, k) => Wrote(p, k)'
        BY <1>0, WroteStays
      <4>3. Wrote(r.to, at[r.to])'
        BY <4>1, <4>2 DEF Wrote
      <4> QED
        BY <3>2, <4>3 DEF Stored
    <3> QED
      BY <3>1, <3>2
  <2> QED
    BY <2>1, <2>2
<1> QED
  BY <1>3, <1>4, <1>5

(* The publish a process waits for is the only one it has in flight. *)
LEMMA OnePublish ==
  ASSUME IInv, NEW m \in net, NEW n \in net, m.from # Nobody, n.from = m.from
  PROVE  n = m
<1>1. m = PublishOf(m.from, at[m.from], m.from)
  BY DEF IInv, NetInv
<1>2. n = PublishOf(n.from, at[n.from], n.from)
  BY DEF IInv, NetInv
<1> QED
  BY <1>1, <1>2

(* The server answers m, after the log it is for grew or stayed. *)
LEMMA AnswerStep ==
  ASSUME IInv, NEW m \in net, NEW ok \in BOOLEAN, Answer(m, ok), net' = net \ {m},
         NEW x, metaLog' = metaLog \/ metaLog' = Append(metaLog, x),
         dataLog' = dataLog \/ Len(dataLog) = 0,
         UNCHANGED <<phase, at, given, history, metaExists, dataExists>>,
         metaLog' \in Seq(Record), dataLog' \in Seq(Record),
         ok /\ m.from # Nobody => Stored(m.from, at[m.from])',
         MetaInv', DataInv'
  PROVE  IInv'
<1>0. net' \subseteq net
  OBVIOUS
<1>1. /\ \A p \in Process : ProcessInv(p)'
      /\ NetInv'
      /\ \A r \in replies : /\ phase'[r.to] = "Awaiting"
                            /\ \A n \in net' : n.from # r.to
                            /\ r.stored => Stored(r.to, at[r.to])'
  BY <1>0, LogGrows
<1>2. m.from # Nobody => m.from \in Process /\ phase[m.from] = "Awaiting"
  BY DEF IInv, NetInv
<1>3. m.from # Nobody => \A n \in net' : n.from # m.from
  BY OnePublish
<1>4. ReplyInv'
  <2> SUFFICES ASSUME NEW r \in replies'
               PROVE  /\ phase'[r.to] = "Awaiting"
                      /\ \A n \in net' : n.from # r.to
                      /\ r.stored => Stored(r.to, at[r.to])'
    BY DEF ReplyInv
  <2>1. CASE r \in replies
    BY <1>1, <2>1
  <2>2. CASE m.from # Nobody /\ r = [to |-> m.from, stored |-> ok]
    <3>1. r.to = m.from /\ r.stored = ok
      BY <2>2
    <3> QED
      BY <1>2, <1>3, <2>2, <3>1
  <2> QED
    BY <2>1, <2>2 DEF Answer
<1>5. TypeOK'
  <2>1. \A r \in replies' : r.to \in Process /\ r.stored \in BOOLEAN
    BY <1>2 DEF IInv, TypeOK, Answer
  <2> QED
    BY <2>1 DEF IInv, TypeOK, history
<1> QED
  BY <1>1, <1>4, <1>5 DEF IInv

LEMMA ServerStoresStep ==
  ASSUME IInv, NEW m \in net, ServerStores(m)
  PROVE  IInv'
<1>1. PICK p \in Process, k \in 1 .. 4 :
        /\ m = PublishOf(p, k, m.from)
        /\ Reached(p, k)
        /\ m.from # Nobody => m.from = p /\ phase[p] = "Awaiting" /\ at[p] = k
  BY DEF IInv, NetInv
<1> DEFINE x == [kind |-> Kind[k], by |-> p]
<1>2. /\ m.stream = StreamOf(k) /\ m.expected = Expected(k) /\ m.record = x
      /\ x \in Record
  BY <1>1 DEF PublishOf, Record, Kind
<1>3. metaLog \in Seq(Record) /\ dataLog \in Seq(Record) /\ p # Operator
  BY CreationAssumption DEF IInv, TypeOK
<1> HIDE DEF x
<1>4. CASE k = 4
  <2>1. /\ Len(dataLog) = 0 /\ dataLog' = Append(dataLog, x) /\ metaLog' = metaLog
        /\ UNCHANGED <<phase, at, given, history, metaExists, dataExists>>
    BY <1>2, <1>4 DEF ServerStores, StreamOf, Expected, LogOf
  <2>2. Len(dataLog') = 1 /\ dataLog'[1] = x /\ dataLog' \in Seq(Record)
    BY <1>2, <1>3, <2>1
  <2>3. x.by = p
    BY DEF x
  <2>4. MetaInv'
    BY <2>1 DEF IInv, MetaInv, Wrote
  <2>5. DataInv'
    <3>1. established' = {}
      BY <2>1 DEF IInv, DataInv, history
    <3> QED
      BY <2>2, <3>1 DEF DataInv
  <2>6. m.from # Nobody => Stored(m.from, at[m.from])'
    BY <1>1, <1>4, <2>1, <2>2, <2>3 DEF Stored
  <2>7. Answer(m, TRUE) /\ net' = net \ {m}
    BY DEF ServerStores
  <2> QED
    BY <1>3, <2>1, <2>2, <2>4, <2>5, <2>6, <2>7, AnswerStep
<1>5. CASE k # 4
  <2>1. /\ Len(metaLog) = k - 1 /\ metaLog' = Append(metaLog, x) /\ dataLog' = dataLog
        /\ UNCHANGED <<phase, at, given, history, metaExists, dataExists>>
    BY <1>2, <1>5 DEF ServerStores, StreamOf, Expected, LogOf
  <2>2. /\ Len(metaLog') = k /\ metaLog'[k] = x /\ metaLog' \in Seq(Record)
        /\ \A i \in 1 .. k - 1 : metaLog'[i] = metaLog[i]
    BY <1>2, <1>3, <2>1
  <2>3. Wrote(p, k)'
    <3>1. Wrote(p, k - 1)
      BY <1>1, <1>5 DEF Reached
    <3>2. \A i \in 1 .. k : i = k \/ i \in 1 .. k - 1
      OBVIOUS
    <3>3. \A i \in 1 .. k : metaLog'[i] = [kind |-> Kind[i], by |-> p]
      BY <2>2, <3>1, <3>2 DEF Wrote, x
    <3> QED
      BY <2>2, <3>3 DEF Wrote
  <2>4. MetaInv'
    <3> SUFFICES ASSUME NEW i \in 1 .. k
                 PROVE  IF metaLog'[i].by = Operator
                        THEN i > 1 /\ metaLog'[i].kind \in {"Claim", "Outbound"}
                        ELSE i <= 3 /\ Wrote(metaLog[i].by, i)'
      BY <2>2 DEF MetaInv
    <3>1. CASE i = k
      <4>1. metaLog'[i].by = p
        BY <2>2, <3>1 DEF x
      <4> QED
        BY <1>3, <1>5, <2>3, <3>1, <4>1 DEF Wrote
    <3>2. CASE i \in 1 .. k - 1
      <4>1. metaLog'[i] = metaLog[i] /\ i \in 1 .. Len(metaLog) /\ i \in Nat
        BY <2>1, <2>2, <3>2
      <4>2. ASSUME metaLog[i].by # Operator PROVE i <= 3 /\ Wrote(metaLog[i].by, i)'
        <5>1. i <= 3 /\ Wrote(metaLog[i].by, i)
          BY <4>1, <4>2 DEF IInv, MetaInv
        <5>2. \A j \in 1 .. i : j \in 1 .. k - 1
          BY <3>2
        <5>3. \A j \in 1 .. i : metaLog'[j] = [kind |-> Kind[j], by |-> metaLog'[i].by]
          BY <2>2, <4>1, <5>1, <5>2 DEF Wrote
        <5> QED
          BY <2>2, <5>1, <5>3 DEF Wrote
      <4> QED
        BY <4>1, <4>2 DEF IInv, MetaInv
    <3> QED
      BY <3>1, <3>2
  <2>5. DataInv'
    BY <2>1 DEF IInv, DataInv, history
  <2>6. m.from # Nobody => Stored(m.from, at[m.from])'
    BY <1>1, <1>5, <2>1, <2>3 DEF Stored
  <2>7. Answer(m, TRUE) /\ net' = net \ {m}
    BY DEF ServerStores
  <2> QED
    BY <1>3, <2>1, <2>2, <2>4, <2>5, <2>6, <2>7, AnswerStep
<1> QED
  BY <1>4, <1>5

LEMMA ServerRefusesStep ==
  ASSUME IInv, NEW m \in net, ServerRefuses(m)
  PROVE  IInv'
<1>1. /\ Answer(m, FALSE) /\ net' = net \ {m} /\ metaLog' = metaLog /\ dataLog' = dataLog
      /\ UNCHANGED <<phase, at, given, history, metaExists, dataExists>>
      /\ established' = established
  BY DEF ServerRefuses, server, history
<1>2. MetaInv' /\ DataInv' /\ metaLog' \in Seq(Record) /\ dataLog' \in Seq(Record)
  <2>1. metaLog \in Seq(Record) /\ dataLog \in Seq(Record)
    BY DEF IInv, TypeOK
  <2> QED
    BY <1>1, <2>1, LogsSame
<1> QED
  BY <1>1, <1>2, AnswerStep

LEMMA OperatorStep ==
  ASSUME IInv, NEW kind \in {"Claim", "Outbound"}, OperatorRecords(kind)
  PROVE  IInv'
<1> DEFINE x == [kind |-> kind, by |-> Operator]
<1>1. /\ metaLog' = Append(metaLog, x) /\ dataLog' = dataLog /\ Len(metaLog) \in 1 .. MaxMeta - 1
      /\ phase' = phase /\ at' = at /\ net' = net /\ replies' = replies
      /\ established' = established
  BY DEF OperatorRecords, history
<1>2. x \in Record /\ x.by = Operator /\ x.kind = kind
  BY DEF Record
<1> HIDE DEF x
<1>3. metaLog \in Seq(Record)
  BY DEF IInv, TypeOK
<1>4. /\ Len(metaLog') = Len(metaLog) + 1 /\ Len(metaLog) \in Nat /\ Len(metaLog) >= 1
      /\ metaLog'[Len(metaLog) + 1] = x
      /\ \A i \in 1 .. Len(metaLog) : metaLog'[i] = metaLog[i]
      /\ metaLog' \in Seq(Record)
  BY <1>1, <1>2, <1>3, CreationAssumption
<1>5. MetaInv'
  <2> SUFFICES ASSUME NEW i \in 1 .. Len(metaLog) + 1
               PROVE  IF metaLog'[i].by = Operator
                      THEN i > 1 /\ metaLog'[i].kind \in {"Claim", "Outbound"}
                      ELSE i <= 3 /\ Wrote(metaLog[i].by, i)'
    BY <1>4 DEF MetaInv
  <2>1. CASE i = Len(metaLog) + 1
    BY <1>2, <1>4, <2>1
  <2>2. CASE i \in 1 .. Len(metaLog)
    <3>1. ASSUME metaLog[i].by # Operator PROVE i <= 3 /\ Wrote(metaLog[i].by, i)'
      <4>1. i <= 3 /\ Wrote(metaLog[i].by, i)
        BY <2>2, <3>1 DEF IInv, MetaInv
      <4>2. \A j \in 1 .. i : j \in 1 .. Len(metaLog)
        BY <1>4, <2>2
      <4>3. \A j \in 1 .. i : metaLog'[j] = [kind |-> Kind[j], by |-> metaLog'[i].by]
        BY <1>4, <2>2, <4>1, <4>2 DEF Wrote
      <4> QED
        BY <1>4, <4>1, <4>3 DEF Wrote
    <3> QED
      BY <1>4, <2>2, <3>1 DEF IInv, MetaInv
  <2> QED
    BY <1>4, <2>1, <2>2
<1>6. DataInv'
  BY <1>1 DEF IInv, DataInv
<1>7. /\ \A p \in Process : ProcessInv(p)'
      /\ NetInv'
      /\ \A r \in replies : /\ phase'[r.to] = "Awaiting"
                            /\ \A m \in net' : m.from # r.to
                            /\ r.stored => Stored(r.to, at[r.to])'
  <2>1. net' \subseteq net
    BY <1>1
  <2> QED
    BY <1>1, <2>1, LogGrows
<1>8. ReplyInv'
  BY <1>1, <1>7 DEF ReplyInv
<1>9. TypeOK'
  BY <1>4 DEF IInv, TypeOK, OperatorRecords, history
<1> QED
  BY <1>5, <1>6, <1>7, <1>8, <1>9 DEF IInv

LEMMA PublishStep ==
  ASSUME IInv, NEW p \in Process, Publish(p)
  PROVE  IInv'
<1> DEFINE m == PublishOf(p, at[p], p)
<1>1. /\ phase[p] = "Publishing" /\ net' = net \cup {m} /\ replies' = replies
      /\ metaLog' = metaLog /\ dataLog' = dataLog /\ established' = established /\ at' = at
  BY DEF Publish, PublishOf, server, history
<1>2. /\ phase'[p] = "Awaiting"
      /\ \A q \in Process \ {p} : phase'[q] = phase[q]
  BY DEF IInv, TypeOK, Publish, Goto
<1>3. at[p] \in 1 .. 4 /\ Reached(p, at[p])
  BY <1>1 DEF IInv, ProcessInv
<1>4. m.from = p /\ m.record \in Record /\ m = PublishOf(p, at[p], m.from)
  BY <1>3 DEF PublishOf, Record, Kind
<1> HIDE DEF m
<1>5. MetaInv' /\ DataInv' /\ (MetaComplete' <=> MetaComplete)
      /\ \A q, k : (Reached(q, k)' <=> Reached(q, k)) /\ (Stored(q, k)' <=> Stored(q, k))
  BY <1>1, LogsSame
<1>6. TypeOK'
  <2>1. phase' \in [Process -> Phase]
    BY DEF IInv, TypeOK, Publish, Goto, Phase
  <2> QED
    BY <1>1, <1>4, <2>1 DEF IInv, TypeOK, Publish, server, history
<1>7. ASSUME NEW q \in Process PROVE ProcessInv(q)'
  BY <1>1, <1>2, <1>3, <1>5 DEF IInv, ProcessInv
<1>8. NetInv'
  <2> SUFFICES ASSUME NEW n \in net'
               PROVE  \E q \in Process, k \in 1 .. 4 :
                        /\ n = PublishOf(q, k, n.from)
                        /\ Reached(q, k)'
                        /\ n.from # Nobody => n.from = q /\ phase'[q] = "Awaiting" /\ at'[q] = k
    BY DEF NetInv, PublishOf
  <2>1. CASE n = m
    BY <1>1, <1>2, <1>3, <1>4, <1>5, <2>1
  <2>2. CASE n \in net
    <3>1. PICK q \in Process, k \in 1 .. 4 :
            /\ n = PublishOf(q, k, n.from)
            /\ Reached(q, k)
            /\ n.from # Nobody => n.from = q /\ phase[q] = "Awaiting" /\ at[q] = k
      BY <2>2 DEF IInv, NetInv
    <3> QED
      BY <1>1, <1>2, <1>5, <3>1
  <2> QED
    BY <1>1, <2>1, <2>2
<1>9. ReplyInv'
  <2> SUFFICES ASSUME NEW r \in replies
               PROVE  /\ phase'[r.to] = "Awaiting"
                      /\ \A n \in net' : n.from # r.to
                      /\ r.stored => Stored(r.to, at[r.to])'
    BY <1>1 DEF ReplyInv
  <2>1. /\ r.to \in Process /\ r.to # p
        /\ phase[r.to] = "Awaiting"
        /\ \A n \in net : n.from # r.to
        /\ r.stored => Stored(r.to, at[r.to])
    BY <1>1 DEF IInv, TypeOK, ReplyInv
  <2> QED
    BY <1>1, <1>2, <1>4, <1>5, <2>1
<1> QED
  BY <1>5, <1>6, <1>7, <1>8, <1>9 DEF IInv

LEMMA AckStoredStep ==
  ASSUME IInv, NEW p \in Process, AckStored(p)
  PROVE  IInv'
<1>1. /\ phase[p] = "Awaiting" /\ net' = net /\ replies' = {r \in replies : r.to # p}
      /\ metaLog' = metaLog /\ dataLog' = dataLog
  BY DEF AckStored, server
<1>2. /\ at[p] \in 1 .. 4 /\ Reached(p, at[p])
      /\ Stored(p, at[p]) /\ \A m \in net : m.from # p
  <2>1. PICK r \in replies : r = [to |-> p, stored |-> TRUE]
    BY DEF AckStored
  <2>2. r.to = p /\ r.stored
    BY <2>1
  <2> QED
    BY <1>1, <2>2 DEF IInv, ReplyInv, ProcessInv
<1>3. MetaInv' /\ (MetaComplete' <=> MetaComplete)
      /\ \A q, k : (Reached(q, k)' <=> Reached(q, k)) /\ (Stored(q, k)' <=> Stored(q, k))
  BY <1>1, LogsSame
<1>4. /\ \A q \in Process \ {p} : phase'[q] = phase[q] /\ at'[q] = at[q]
      /\ at[p] = 4 => phase'[p] = "Session" /\ established' = established \cup {p}
      /\ at[p] = 3 => phase'[p] = "MakingData" /\ established' = established
      /\ at[p] < 3 => phase'[p] = "Publishing" /\ at'[p] = at[p] + 1 /\ established' = established
  BY <1>2 DEF IInv, TypeOK, AckStored, Goto, Reach
<1>5. TypeOK'
  <2>1. phase' \in [Process -> Phase] /\ at' \in [Process -> 0 .. 4]
    <3>1. phase \in [Process -> Phase] /\ at \in [Process -> 0 .. 4]
      BY DEF IInv, TypeOK
    <3>2. CASE at[p] = 4
      BY <3>1, <3>2 DEF AckStored, Goto, Phase
    <3>3. CASE at[p] # 4
      <4>1. at[p] + 1 \in 0 .. 4
        BY <1>2, <3>3
      <4>2. \A next \in Phase : [phase EXCEPT ![p] = next] \in [Process -> Phase]
        BY <3>1
      <4>3. "MakingData" \in Phase /\ "Publishing" \in Phase
        BY DEF Phase
      <4> QED
        BY <3>1, <3>3, <4>1, <4>2, <4>3 DEF AckStored, Goto, Reach
    <3> QED
      BY <3>2, <3>3
  <2> QED
    BY <1>1, <2>1 DEF IInv, TypeOK, AckStored, server
<1>6. DataInv'
  <2>1. CASE at[p] = 4
    BY <1>1, <1>2, <1>4, <2>1 DEF IInv, DataInv, Stored
  <2>2. CASE at[p] # 4
    BY <1>1, <1>2, <1>4, <2>2 DEF IInv, DataInv
  <2> QED
    BY <2>1, <2>2
<1>7. ASSUME NEW q \in Process PROVE ProcessInv(q)'
  <2>1. CASE q # p
    <3>1. ProcessInv(q) /\ phase'[q] = phase[q] /\ at'[q] = at[q]
      BY <1>4, <2>1 DEF IInv
    <3> QED
      BY <1>1, <1>3, <3>1 DEF ProcessInv
  <2>2. CASE q = p /\ at[p] = 4
    BY <1>1, <1>2, <1>3, <1>4, <2>2 DEF ProcessInv, Reached, Stored
  <2>3. CASE q = p /\ at[p] = 3
    <3>1. MetaComplete
      BY <1>2, <2>3 DEF Stored, MetaComplete
    <3> QED
      BY <1>3, <1>4, <2>3, <3>1 DEF ProcessInv
  <2>4. CASE q = p /\ at[p] < 3
    <3>1. Reached(p, at[p] + 1) /\ at[p] + 1 \in 1 .. 4
      BY <1>2, <2>4 DEF Stored, Reached
    <3> QED
      BY <1>3, <1>4, <2>4, <3>1 DEF ProcessInv
  <2> QED
    BY <1>2, <2>1, <2>2, <2>3, <2>4
<1>8. NetInv'
  <2> SUFFICES ASSUME NEW n \in net
               PROVE  \E q \in Process, k \in 1 .. 4 :
                        /\ n = PublishOf(q, k, n.from)
                        /\ Reached(q, k)'
                        /\ n.from # Nobody => n.from = q /\ phase'[q] = "Awaiting" /\ at'[q] = k
    BY <1>1 DEF NetInv, PublishOf
  <2>1. PICK q \in Process, k \in 1 .. 4 :
          /\ n = PublishOf(q, k, n.from)
          /\ Reached(q, k)
          /\ n.from # Nobody => n.from = q /\ phase[q] = "Awaiting" /\ at[q] = k
    BY DEF IInv, NetInv
  <2> QED
    BY <1>2, <1>3, <1>4, <2>1
<1>9. ReplyInv'
  <2> SUFFICES ASSUME NEW r \in replies, r.to # p
               PROVE  /\ phase'[r.to] = "Awaiting"
                      /\ \A n \in net' : n.from # r.to
                      /\ r.stored => Stored(r.to, at[r.to])'
    BY <1>1 DEF ReplyInv
  <2>1. /\ r.to \in Process
        /\ phase[r.to] = "Awaiting"
        /\ \A n \in net : n.from # r.to
        /\ r.stored => Stored(r.to, at[r.to])
    BY DEF IInv, TypeOK, ReplyInv
  <2> QED
    BY <1>1, <1>3, <1>4, <2>1
<1> QED
  BY <1>3, <1>5, <1>6, <1>7, <1>8, <1>9 DEF IInv

(* The remaining steps of a process, which send and answer nothing. *)
LEMMA CallStep ==
  ASSUME IInv, NEW p \in Process,
         \/ CreateBegin(p) \/ MakeMeta(p) \/ MakeData(p) \/ OpenIncomplete(p)
         \/ OpenComplete(p)
         \/ CompleteCreation(p) /\ Goto(p, "MakingData") /\ CompletionAdmits(given[p])
            /\ UNCHANGED <<server, net, replies, at, given, history>>
  PROVE  IInv'
<1>0. /\ phase \in [Process -> Phase] /\ at \in [Process -> 0 .. 4]
      /\ given \in [Process -> Nat] /\ metaLog \in Seq(Record)
  BY DEF IInv, TypeOK
<1>1. /\ metaLog' = metaLog /\ dataLog' = dataLog /\ established' = established
      /\ net' = net /\ replies' = replies /\ gaveUp' = gaveUp
  BY DEF CreateBegin, MakeMeta, MakeData, OpenIncomplete, OpenComplete, server, history
<1>2. CASE CreateBegin(p)
  <2>1. TypeOK'
    BY <1>2 DEF IInv, TypeOK, CreateBegin, Goto, Phase, server, history
  <2>2. /\ phase[p] = "Idle" /\ phase'[p] = "MakingMeta"
        /\ \A q \in Process \ {p} : phase'[q] = phase[q] /\ at'[q] = at[q]
    BY <1>0, <1>2 DEF CreateBegin, Goto
  <2> QED
    BY <1>1, <2>1, <2>2, ProcessStep
<1>3. CASE MakeMeta(p)
  <2>1. TypeOK'
    <3>1. metaExists' \in BOOLEAN
      BY <1>3, Zenon DEF MakeMeta
    <3>2. phase' \in [Process -> Phase] /\ at' \in [Process -> 0 .. 4]
      BY <1>0, <1>3 DEF MakeMeta, Goto, Reach, Phase
    <3> QED
      BY <1>1, <1>3, <3>1, <3>2 DEF IInv, TypeOK, MakeMeta
  <2>2. /\ phase[p] = "MakingMeta" /\ phase'[p] = "Publishing" /\ at'[p] = 1
        /\ \A q \in Process \ {p} : phase'[q] = phase[q] /\ at'[q] = at[q]
    BY <1>0, <1>3 DEF MakeMeta, Goto, Reach
  <2>3. Reached(p, at'[p])
    BY <1>0, <2>2 DEF Reached, Wrote
  <2> QED
    BY <1>1, <2>1, <2>2, <2>3, ProcessStep
<1>4. CASE MakeData(p)
  <2>1. TypeOK'
    <3>1. dataExists' \in BOOLEAN
      BY <1>4, Zenon DEF MakeData
    <3>2. phase' \in [Process -> Phase] /\ at' \in [Process -> 0 .. 4]
      BY <1>0, <1>4 DEF MakeData, Goto, Reach, Phase
    <3> QED
      BY <1>1, <1>4, <3>1, <3>2 DEF IInv, TypeOK, MakeData
  <2>2. /\ phase[p] = "MakingData" /\ phase'[p] = "Publishing" /\ at'[p] = 4
        /\ \A q \in Process \ {p} : phase'[q] = phase[q] /\ at'[q] = at[q]
    BY <1>0, <1>4 DEF MakeData, Goto, Reach
  <2>3. Reached(p, at'[p])
    BY <2>2 DEF Reached, IInv, ProcessInv
  <2> QED
    BY <1>1, <2>1, <2>2, <2>3, ProcessStep
<1>5. CASE OpenIncomplete(p)
  <2>1. given' \in [Process -> Nat]
    BY <1>0, <1>5, LatestClaimType DEF OpenIncomplete
  <2>2. TypeOK'
    BY <1>5, <2>1 DEF IInv, TypeOK, OpenIncomplete, Goto, Phase, server, history
  <2>3. /\ phase[p] = "Idle" /\ phase'[p] = "Completing"
        /\ \A q \in Process \ {p} : phase'[q] = phase[q] /\ at'[q] = at[q]
    BY <1>0, <1>5 DEF OpenIncomplete, Goto
  <2> QED
    BY <1>1, <2>2, <2>3, ProcessStep
<1>6. CASE OpenComplete(p)
  <2>1. TypeOK'
    BY <1>6 DEF IInv, TypeOK, OpenComplete, Goto, Phase, server, history
  <2>2. /\ phase[p] = "Idle" /\ phase'[p] = "Session"
        /\ \A q \in Process \ {p} : phase'[q] = phase[q] /\ at'[q] = at[q]
    BY <1>0, <1>6 DEF OpenComplete, Goto
  <2>3. MetaComplete
    BY <1>0, <1>6, DescriptorCompletes DEF OpenComplete, IInv
  <2>4. Len(dataLog) = 1
    <3>1. dataLog \in Seq(Record) /\ dataLog # << >> /\ Len(dataLog) <= 1
      BY <1>6 DEF OpenComplete, IInv, TypeOK, DataInv
    <3>2. Len(dataLog) \in Nat /\ Len(dataLog) # 0
      BY <3>1, EmptySeq
    <3>3. Len(dataLog) <= 1
      BY <3>1
    <3>4. \A n \in Nat : n # 0 /\ n <= 1 => n = 1
      OBVIOUS
    <3> QED
      BY <3>2, <3>3, <3>4, Zenon
  <2> QED
    BY <1>1, <2>1, <2>2, <2>3, <2>4, ProcessStep
<1>7. CASE /\ CompleteCreation(p) /\ Goto(p, "MakingData") /\ CompletionAdmits(given[p])
           /\ UNCHANGED <<server, net, replies, at, given, history>>
  <2>1. TypeOK'
    BY <1>7 DEF IInv, TypeOK, Goto, Phase, server, history
  <2>2. /\ phase[p] = "Completing" /\ phase'[p] = "MakingData"
        /\ \A q \in Process \ {p} : phase'[q] = phase[q] /\ at'[q] = at[q]
    BY <1>0, <1>7 DEF CompleteCreation, Goto
  <2>3. MetaComplete
    BY <1>0, <1>7, DescriptorCompletes DEF CompletionAdmits, IInv
  <2> QED
    BY <1>1, <2>1, <2>2, <2>3, ProcessStep
<1> QED
  BY <1>2, <1>3, <1>4, <1>5, <1>6, <1>7

LEMMA StepIInv == IInv /\ [Next]_vars => IInv'
<1> SUFFICES ASSUME IInv, [Next]_vars PROVE IInv'
  OBVIOUS
<1>0. gaveUp \in BOOLEAN
  BY DEF IInv, TypeOK
<1>1. ASSUME NEW p \in Process, Begin(p) PROVE IInv'
  BY <1>1, CallStep DEF Begin
<1>2. ASSUME NEW p \in Process, Proceed(p) PROVE IInv'
  <2>1. CASE MakeMeta(p) \/ MakeData(p)
    BY <2>1, CallStep
  <2>2. CASE Publish(p)
    BY <2>2, PublishStep
  <2>3. CASE AckStored(p)
    BY <2>3, AckStoredStep
  <2>4. CASE AckRefused(p)
    BY <1>0, <2>4, AbandonStep DEF AckRefused
  <2>5. CASE CompleteCreation(p)
    <3>1. CASE AdmitCompletion(StreamsPresent) /\ CompletionAdmits(given[p])
      BY <2>5, <3>1, CallStep DEF CompleteCreation
    <3>2. CASE ~(AdmitCompletion(StreamsPresent) /\ CompletionAdmits(given[p]))
      BY <1>0, <2>5, <3>2, AbandonStep DEF CompleteCreation
    <3> QED
      BY <3>1, <3>2
  <2> QED
    BY <1>2, <2>1, <2>2, <2>3, <2>4, <2>5 DEF Proceed
<1>3. ASSUME NEW p \in Process, GiveUp(p) PROVE IInv'
  <2>1. gaveUp' \in BOOLEAN
    BY <1>3, Zenon DEF GiveUp
  <2> QED
    BY <1>3, <2>1, AbandonStep DEF GiveUp
<1>4. CASE Serve
  BY <1>4, ServerStoresStep, ServerRefusesStep DEF Serve
<1>5. ASSUME NEW kind \in {"Claim", "Outbound"}, OperatorRecords(kind) PROVE IInv'
  BY <1>5, OperatorStep
<1>6. CASE UNCHANGED vars
  <2>1. /\ metaLog' = metaLog /\ dataLog' = dataLog /\ established' = established
        /\ phase' = phase /\ at' = at /\ net' = net /\ replies' = replies
    BY <1>6 DEF vars, server, history
  <2>2. MetaInv' /\ DataInv' /\ (MetaComplete' <=> MetaComplete)
        /\ \A q, k : (Reached(q, k)' <=> Reached(q, k)) /\ (Stored(q, k)' <=> Stored(q, k))
    BY <2>1, LogsSame
  <2>3. /\ \A p \in Process : ProcessInv(p)'
        /\ NetInv'
        /\ \A r \in replies : /\ phase'[r.to] = "Awaiting"
                              /\ \A m \in net' : m.from # r.to
                              /\ r.stored => Stored(r.to, at[r.to])'
    BY <2>1, LogGrows
  <2>4. ReplyInv'
    BY <2>1, <2>3 DEF ReplyInv
  <2>5. TypeOK'
    BY <1>6 DEF IInv, TypeOK, vars, server, history
  <2> QED
    BY <2>2, <2>3, <2>4, <2>5 DEF IInv
<1> QED
  BY <1>1, <1>2, <1>3, <1>4, <1>5, <1>6 DEF Next

-----------------------------------------------------------------------------
(* The theorems. *)

LEMMA CreationInvariant == Spec => []IInv
  BY InitIInv, StepIInv, PTL DEF Spec

(* C5.64: however many processes create at once and however late their     *)
(* publishes arrive, header, first claim and descriptor of the ownership   *)
(* record are one creator's and stand at its front in this order (the      *)
(* expected sequences of create).                                          *)
THEOREM OneCreator == Spec => []RecordsOfOneCreator
<1>1. ASSUME IInv PROVE RecordsOfOneCreator
  <2>1. MetaInv /\ metaLog \in Seq(Record)
    BY <1>1 DEF IInv, TypeOK
  <2>2. ASSUME NEW i \in 1 .. Len(metaLog), metaLog[i].by # Operator
        PROVE  /\ i <= 3 /\ metaLog[i].kind = Kind[i]
               /\ \A j \in 1 .. i : metaLog[j].by = metaLog[i].by
    <3>1. i <= 3 /\ Wrote(metaLog[i].by, i)
      BY <2>1, <2>2 DEF MetaInv
    <3>2. \A j \in 1 .. i : metaLog[j] = [kind |-> Kind[j], by |-> metaLog[i].by]
      BY <3>1 DEF Wrote
    <3>3. i \in 1 .. i
      BY <2>1
    <3>4. metaLog[i] = [kind |-> Kind[i], by |-> metaLog[i].by]
      BY <3>2, <3>3
    <3>5. metaLog[i].kind = Kind[i]
      BY <3>4
    <3>6. ASSUME NEW j \in 1 .. i PROVE metaLog[j].by = metaLog[i].by
      <4>1. metaLog[j] = [kind |-> Kind[j], by |-> metaLog[i].by]
        BY <3>2
      <4> QED
        BY <4>1
    <3> QED
      BY <3>1, <3>5, <3>6
  <2>3. ASSUME NEW i \in 1 .. Len(metaLog), NEW j \in 1 .. Len(metaLog),
               metaLog[i].by # Operator, metaLog[j].by # Operator
        PROVE  metaLog[i].by = metaLog[j].by
    <3>1. i \in 1 .. j \/ j \in 1 .. i
      BY <2>1
    <3> QED
      BY <2>2, <2>3, <3>1
  <2> QED
    BY <2>2, <2>3 DEF RecordsOfOneCreator
<1> QED
  BY <1>1, CreationInvariant, PTL

(* A writer session is handed out only over a complete artefact, also when *)
(* a completion overtakes the creator (complete_creation, open_write).     *)
THEOREM SessionsAreComplete == Spec => []SessionMeansComplete
<1>1. ASSUME IInv PROVE SessionMeansComplete
  <2>1. MetaInv /\ metaLog \in Seq(Record)
    BY <1>1 DEF IInv, TypeOK
  <2>2. ASSUME NEW p \in Process, phase[p] = "Session"
        PROVE  MetaComplete /\ Len(dataLog) = 1
    BY <1>1, <2>2 DEF IInv, ProcessInv
  <2> QED
    BY <2>1, <2>2, CompleteReadable DEF SessionMeansComplete
<1> QED
  BY <1>1, CreationInvariant, PTL

(* Of all creations and completions one at most returns a session: it is   *)
(* the one whose header stands in the data stream.                         *)
THEOREM AtMostOneEstablishes == Spec => []OneEstablishes
<1>1. ASSUME IInv PROVE OneEstablishes
  <2>1. established = {} \/ established = {dataLog[1].by}
    BY <1>1 DEF IInv, DataInv
  <2>2. Cardinality({}) = 0 /\ Cardinality({dataLog[1].by}) = 1
    BY FS_EmptySet, FS_Singleton
  <2>3. Cardinality(established) = 0 \/ Cardinality(established) = 1
    BY <2>1, <2>2, Zenon
  <2> QED
    BY <2>3 DEF OneEstablishes
<1> QED
  BY <1>1, CreationInvariant, PTL
=============================================================================
