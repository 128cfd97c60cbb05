---------------------------- MODULE NatsCreation ----------------------------
(***************************************************************************)
(* Creation of an artefact in NATS JetStream by several processes at once  *)
(* (create, complete_creation and open_write of                            *)
(* crates/pardosa-nats/src/adapter.rs).                                    *)
(*                                                                         *)
(* Creating a stream that already stands with the same configuration       *)
(* succeeds, so the streams themselves exclude nobody: what does is the    *)
(* last sequence each publish of the creation expects.  A publish may      *)
(* arrive after its process has given up.  Events are left to NatsStore.   *)
(***************************************************************************)
EXTENDS Admission, Naturals, Sequences, FiniteSets

CONSTANTS
    Process,    \* processes that create, complete or open the artefact
    Operator,   \* who records claims and outbound pointers outside a session
    Nobody,     \* sender of a publish whose process no longer listens
    MaxMeta     \* bound: length up to which the operator adds records

ASSUME CreationAssumption ==
    /\ Operator \notin Process
    /\ Nobody \notin Process
    /\ MaxMeta \in Nat

VARIABLES
    metaExists, metaLog,   \* the meta stream and its records
    dataExists, dataLog,   \* the data stream; only its headers appear
    net,                   \* publishes in flight to the server
    replies,               \* acknowledgements in flight to processes
    phase,                 \* which step of a call a process is at
    at,                    \* the publish of the creation it has reached
    given,                 \* the position of the claim complete_creation is given
    established,           \* history: processes a creation or completion
                           \* returned a session to
    gaveUp                 \* history: a call timed out or its process died

server == <<metaExists, metaLog, dataExists, dataLog>>
history == <<established, gaveUp>>
vars == <<server, net, replies, phase, at, given, history>>

Record ==
    [kind : {"Header", "Claim", "Descriptor", "Outbound"}, by : Process \cup {Operator}]

Phase ==
    {"Idle", "MakingMeta", "Publishing", "Awaiting", "MakingData", "Completing",
     "Session"}

(* The four publishes of a creation: three to the meta stream, then the    *)
(* header of the data stream.                                              *)
Kind == <<"Header", "Claim", "Descriptor", "Header">>

StreamOf(k) == IF k = 4 THEN "data" ELSE "meta"

StreamsPresent == Presence(metaExists, dataExists)

LogOf(stream) == IF stream = "data" THEN dataLog ELSE metaLog

(* Mutants of Expected: no last sequence is expected, or one too many. *)
Unfenced(k) == Len(LogOf(StreamOf(k)))

CountFromOne(k) == IF k = 4 THEN 0 ELSE IF k = 1 THEN 0 ELSE k

(* Nats-Expected-Last-Subject-Sequence of each. *)
Expected(k) == IF k = 4 THEN 0 ELSE k - 1

Init ==
    /\ metaExists = FALSE /\ metaLog = << >>
    /\ dataExists = FALSE /\ dataLog = << >>
    /\ net = {}
    /\ replies = {}
    /\ phase = [p \in Process |-> "Idle"]
    /\ at = [p \in Process |-> 0]
    /\ given = [p \in Process |-> 0]
    /\ established = {}
    /\ gaveUp = FALSE

-----------------------------------------------------------------------------
(* read_meta_records_async: a header first, and one descriptor at most. *)

Of(kind) == {i \in 1 .. Len(metaLog) : metaLog[i].kind = kind}

MetaReadable ==
    /\ Of("Header") = {1}
    /\ Cardinality({metaLog[i].by : i \in Of("Descriptor")}) <= 1

HasClaim == Of("Claim") # {}

LatestClaim == CHOOSE i \in Of("Claim") : \A j \in Of("Claim") : j <= i

Retired == Of("Outbound") # {}

-----------------------------------------------------------------------------

Goto(p, next) == phase' = [phase EXCEPT ![p] = next]

Reach(p, k) == at' = [at EXCEPT ![p] = k]

(* The call ends without a session, or the process dies; a publish it sent *)
(* may still arrive.                                                       *)
Abandon(p) ==
    /\ Goto(p, "Idle")
    /\ Reach(p, 0)
    /\ given' = [given EXCEPT ![p] = 0]
    /\ net' = {IF m.from = p THEN [m EXCEPT !.from = Nobody] ELSE m : m \in net}
    /\ replies' = {r \in replies : r.to # p}
    /\ UNCHANGED <<server, established>>

(* create: admit_create finds neither stream. *)
CreateBegin(p) ==
    /\ phase[p] = "Idle"
    /\ AdmitCreate(StreamsPresent)
    /\ Goto(p, "MakingMeta")
    /\ UNCHANGED <<server, net, replies, at, given, history>>

MakeMeta(p) ==
    /\ phase[p] = "MakingMeta"
    /\ metaExists' = TRUE
    /\ Goto(p, "Publishing")
    /\ Reach(p, 1)
    /\ UNCHANGED <<metaLog, dataExists, dataLog, net, replies, given, history>>

Publish(p) ==
    /\ phase[p] = "Publishing"
    /\ net' = net \cup {[from     |-> p,
                         stream   |-> StreamOf(at[p]),
                         expected |-> Expected(at[p]),
                         record   |-> [kind |-> Kind[at[p]], by |-> p]]}
    /\ Goto(p, "Awaiting")
    /\ UNCHANGED <<server, replies, at, given, history>>

MakeData(p) ==
    /\ phase[p] = "MakingData"
    /\ dataExists' = TRUE
    /\ Goto(p, "Publishing")
    /\ Reach(p, 4)
    /\ UNCHANGED <<metaExists, metaLog, dataLog, net, replies, given, history>>

(* The JetStream server compares the expected last sequence on arrival. *)

Answer(m, ok) ==
    replies' = IF m.from = Nobody THEN replies
               ELSE replies \cup {[to |-> m.from, stored |-> ok]}

ServerStores(m) ==
    /\ m.expected = Len(LogOf(m.stream))
    /\ IF m.stream = "meta"
       THEN metaLog' = Append(metaLog, m.record) /\ UNCHANGED dataLog
       ELSE dataLog' = Append(dataLog, m.record) /\ UNCHANGED metaLog
    /\ net' = net \ {m}
    /\ Answer(m, TRUE)
    /\ UNCHANGED <<metaExists, dataExists, phase, at, given, history>>

ServerRefuses(m) ==
    /\ m.expected # Len(LogOf(m.stream))
    /\ net' = net \ {m}
    /\ Answer(m, FALSE)
    /\ UNCHANGED <<server, phase, at, given, history>>

(* The next publish, the data stream, or the session. *)
AckStored(p) ==
    /\ phase[p] = "Awaiting"
    /\ [to |-> p, stored |-> TRUE] \in replies
    /\ replies' = {r \in replies : r.to # p}
    /\ IF at[p] = 4
       THEN /\ Goto(p, "Session")
            /\ established' = established \cup {p}
            /\ UNCHANGED at
       ELSE /\ Goto(p, IF at[p] = 3 THEN "MakingData" ELSE "Publishing")
            /\ Reach(p, at[p] + 1)
            /\ UNCHANGED established
    /\ UNCHANGED <<server, net, given, gaveUp>>

(* WrongLastSequence: StoreAlreadyExists. *)
AckRefused(p) ==
    /\ phase[p] = "Awaiting"
    /\ [to |-> p, stored |-> FALSE] \in replies
    /\ Abandon(p)
    /\ UNCHANGED gaveUp

(* The acknowledgement times out, or the process dies in whatever step; a  *)
(* session is closed.                                                      *)
GiveUp(p) ==
    /\ phase[p] # "Idle"
    /\ Abandon(p)
    /\ gaveUp' = TRUE

-----------------------------------------------------------------------------
(* open_write with the epoch of the recorded claim. *)

(* The ownership record stands alone: creation is to be completed. *)
OpenIncomplete(p) ==
    /\ phase[p] = "Idle"
    /\ AdmitCompletion(StreamsPresent)
    /\ MetaReadable /\ HasClaim /\ ~Retired
    /\ given' = [given EXCEPT ![p] = LatestClaim]
    /\ Goto(p, "Completing")
    /\ UNCHANGED <<server, net, replies, at, history>>

(* Mutant of CompletionAdmits: the descriptor is not required. *)
AnyRecord(claim) == MetaReadable /\ HasClaim /\ LatestClaim = claim

(* The checks of complete_creation on the meta stream. *)
CompletionAdmits(claim) ==
    /\ MetaReadable
    /\ Of("Descriptor") # {}
    /\ HasClaim
    /\ LatestClaim = claim

(* complete_creation, which looks at both streams again. *)
CompleteCreation(p) ==
    /\ phase[p] = "Completing"
    /\ IF AdmitCompletion(StreamsPresent) /\ CompletionAdmits(given[p])
       THEN Goto(p, "MakingData") /\ UNCHANGED <<server, net, replies, at, given, history>>
       ELSE Abandon(p) /\ UNCHANGED gaveUp

(* Both streams stand. *)
OpenComplete(p) ==
    /\ phase[p] = "Idle"
    /\ AdmitOpenWrite(StreamsPresent)
    /\ MetaReadable /\ Of("Descriptor") # {} /\ HasClaim /\ ~Retired
    /\ dataLog # << >>
    /\ Goto(p, "Session")
    /\ UNCHANGED <<server, net, replies, at, given, history>>

-----------------------------------------------------------------------------
(* record_ownership_record_internal: no sequence is expected. *)

OperatorRecords(kind) ==
    /\ Len(metaLog) \in 1 .. MaxMeta - 1
    /\ metaLog' = Append(metaLog, [kind |-> kind, by |-> Operator])
    /\ UNCHANGED <<metaExists, dataExists, dataLog, net, replies, phase, at, given,
                   history>>

-----------------------------------------------------------------------------

Proceed(p) ==
    \/ MakeMeta(p) \/ Publish(p) \/ MakeData(p) \/ AckStored(p) \/ AckRefused(p)
    \/ CompleteCreation(p)

Begin(p) == CreateBegin(p) \/ OpenIncomplete(p) \/ OpenComplete(p)

Serve == \E m \in net : ServerStores(m) \/ ServerRefuses(m)

Next ==
    \/ \E p \in Process : Begin(p) \/ Proceed(p) \/ GiveUp(p)
    \/ Serve
    \/ \E kind \in {"Claim", "Outbound"} : OperatorRecords(kind)

Spec == Init /\ [][Next]_vars

(* Every process that has begun a call runs on unless it dies, somebody    *)
(* begins, and the server answers.                                         *)
FairSpec ==
    /\ Spec
    /\ WF_vars(\E p \in Process : CreateBegin(p))
    /\ \A p \in Process : WF_vars(Proceed(p))
    /\ WF_vars(Serve)

-----------------------------------------------------------------------------
(* Properties *)

(* Every variable has its type. *)
TypeOK ==
    /\ metaExists \in BOOLEAN /\ dataExists \in BOOLEAN
    /\ metaLog \in Seq(Record) /\ dataLog \in Seq(Record)
    /\ phase \in [Process -> Phase]
    /\ at \in [Process -> 0 .. 4]
    /\ given \in [Process -> Nat]
    /\ established \subseteq Process /\ gaveUp \in BOOLEAN
    /\ \A m \in net : m.from \in Process \cup {Nobody} /\ m.record \in Record
    /\ \A r \in replies : r.to \in Process /\ r.stored \in BOOLEAN

(* C5.64, of concurrent creators exactly one establishes the ownership     *)
(* record: header, first claim and descriptor are one creator's and stand  *)
(* at the front in this order, however late its or its rivals' publishes   *)
(* arrive.                                                                 *)
RecordsOfOneCreator ==
    LET own == {i \in 1 .. Len(metaLog) : metaLog[i].by # Operator}
    IN  /\ \A i \in own : i <= 3 /\ metaLog[i].kind = Kind[i]
        /\ \A i, j \in own : metaLog[i].by = metaLog[j].by

(* A writer session is handed out only over a complete artefact: readable  *)
(* ownership record with claim and descriptor, and one header at the start *)
(* of the data stream, also when a completion overtakes the creator.       *)
SessionMeansComplete ==
    \A p \in Process : phase[p] = "Session" =>
        /\ MetaReadable /\ HasClaim /\ Of("Descriptor") # {}
        /\ Len(dataLog) = 1

(* The creator and those who complete its creation cannot all succeed: one *)
(* create or complete_creation ever returns a session.                     *)
OneEstablishes == Cardinality(established) <= 1

(* Concurrent creators and completers do not make each other fail for      *)
(* good: in the end one of them has established the artefact, unless a     *)
(* call was given up or the operator wrote a record meanwhile (create and  *)
(* complete_creation, which both fail on StoreAlreadyExists).              *)
SomebodyEstablishes ==
    <>(\/ established # {}
       \/ gaveUp
       \/ \E i \in 1 .. Len(metaLog) : metaLog[i].by = Operator)
=============================================================================
