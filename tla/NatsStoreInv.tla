---------------------------- MODULE NatsStoreInv ----------------------------
(***************************************************************************)
(* The inductive invariant from which the safety properties of NatsStore   *)
(* are proved.  It says what every session, publish in flight and reply    *)
(* knows about the stream.                                                 *)
(***************************************************************************)
EXTENDS NatsStore

(* What sessions wrote extends the line, each in its own fiber, and their  *)
(* epochs are in order; a foreign frame has epoch 0.                       *)
StreamInv ==
    /\ Len(author) = Len(stream)
    /\ OwnWritesExtend
    /\ claim >= 1
    /\ \A i \in 1 .. Len(author) : author[i] <= claim
    /\ \A i, j \in 1 .. Len(author) :
          i < j /\ author[j] > 0 => author[i] <= author[j]

(* A session in a scan knows the frames it has read. *)
ScanInv(s) ==
    phase[s] \in Scanning =>
        /\ snap[s] \in 1 .. LastSequence
        /\ pos[s] + 1 <= snap[s]
        /\ Knows(work[s], stream, pos[s])
        /\ phase[s] # "Recovering" => lastSeq[s] <= snap[s]

(* An open session knows a prefix at least as long as the sequence it will *)
(* expect, and so does its frame count.                                    *)
OpenInv(s) ==
    phase[s] \in Open =>
        /\ \E n \in 0 .. Len(stream) :
              lastSeq[s] <= n + 1 /\ Knows(index[s], stream, n)
        /\ lastSeq[s] >= 1
        /\ lastSeq[s] <= rolling[s] + 1
        /\ rolling[s] <= Len(stream)

(* An envelope being appended has been validated on the session's index. *)
AppendInv(s) ==
    phase[s] \in {"Appending", "Awaiting"} =>
        ValidateAppend(index[s], pending[s]) = "Ok"

SessionInv(s) == ScanInv(s) /\ OpenInv(s) /\ AppendInv(s)

(* The publish a session waits for. *)
PublishOf(s) ==
    [from     |-> s,
     expected |-> lastSeq[s],
     env      |-> pending[s],
     epoch    |-> epoch[s]]

(* A publish that the server would accept extends the line in an unbroken  *)
(* fiber, and no later epoch has written; if its session still listens, it *)
(* waits for it.                                                           *)
NetInv ==
    \A m \in net :
        /\ m.expected <= LastSequence
        /\ m.epoch \in 1 .. claim
        /\ m.expected = LastSequence =>
              /\ Extends(stream, Len(stream), m.env)
              /\ Intact(stream, Len(stream), m.env.fiber_id)
              /\ \A i \in 1 .. Len(author) : author[i] <= m.epoch
        /\ m.from # Nobody =>
              /\ phase[m.from] = "Awaiting"
              /\ m = PublishOf(m.from)

(* The reply to a publish that landed finds its session as it was when the *)
(* publish was sent, with the envelope at the next position of the stream. *)
ReplyInv ==
    \A r \in replies :
        /\ phase[r.to] = "Awaiting"
        /\ \A m \in net : m.from # r.to
        /\ r.landed =>
              /\ r.seq = lastSeq[r.to] + 1
              /\ lastSeq[r.to] \in 1 .. Len(stream)
              /\ stream[lastSeq[r.to]] = pending[r.to]
              /\ Knows(index[r.to], stream, lastSeq[r.to] - 1)
              /\ rolling[r.to] = lastSeq[r.to] - 1

LandedInv ==
    \A v \in landed : v.count \in 1 .. Len(stream) /\ stream[v.count] = v.env

(* Together with the types this is inductive, also with foreign frames in  *)
(* the stream: it ties each session's index to the prefix whose length the *)
(* server will compare, so that a publish the server accepts was validated *)
(* against the whole line.                                                 *)
SessionsKnowPrefixes ==
    /\ TypeOK
    /\ StreamInv
    /\ \A s \in Session : SessionInv(s)
    /\ NetInv
    /\ ReplyInv
    /\ LandedInv
=============================================================================
