------------------------ MODULE IdempotencyContract ------------------------
(***************************************************************************)
(* What package idempotency promises a client (idempotency.go): a keyed    *)
(* write is performed once and answered from the record for as long as the *)
(* record is kept; the same key on a different request is refused; a       *)
(* failure is not an answer.  Every arrival is settled in one step.        *)
(***************************************************************************)
EXTENDS Integers

CONSTANTS
    Arrivals,       \* the times a request reaches the server
    Keys,           \* Idempotency-Key values
    KeyOf,          \* arrival -> its key
    HashOf,         \* arrival -> what it asks for: method, path, query and body
    TTL,            \* how long an answer is kept
    MaxTime,        \* bound: the clock stops here
    NoRecord        \* nothing is on file

VARIABLES
    now,            \* the clock
    answers,        \* key -> the record that answers it, or NoRecord
    reply           \* arrival -> what its client is told

vars == <<now, answers, reply>>

\* An arrival's own response is named by the arrival.
Told(kind, by) == [kind |-> kind, by |-> by]
Nothing(r)     == Told("none", r)

Kept(record, time) == record # NoRecord /\ time - record.createdAt < TTL

Waiting(r) == reply[r] = Nothing(r)

Tell(r, kind, by) == reply' = [reply EXCEPT ![r] = Told(kind, by)]

Init ==
    /\ now = 0
    /\ answers = [k \in Keys |-> NoRecord]
    /\ reply = [r \in Arrivals |-> Nothing(r)]

\* Time passes, and an answer older than the TTL answers no more.
Tick ==
    /\ now < MaxTime
    /\ now' = now + 1
    /\ answers' = [k \in Keys |-> IF Kept(answers[k], now') THEN answers[k] ELSE NoRecord]
    /\ UNCHANGED reply

\* The request is performed.  A success is recorded, unless the store fails;
\* nothing else is.
Perform(r) ==
    /\ Waiting(r)
    /\ answers[KeyOf[r]] = NoRecord
    /\ \/ /\ Tell(r, "answer", r)
          /\ \/ answers' = [answers EXCEPT ![KeyOf[r]] =
                              [hash |-> HashOf[r], by |-> r, createdAt |-> now]]
             \/ UNCHANGED answers
       \/ /\ Tell(r, "failed", r)
          /\ UNCHANGED answers
    /\ UNCHANGED now

Replay(r) ==
    LET record == answers[KeyOf[r]] IN
    /\ Waiting(r)
    /\ record # NoRecord
    /\ IF record.hash = HashOf[r]
       THEN Tell(r, "answer", record.by)
       ELSE Tell(r, "conflict", r)
    /\ UNCHANGED <<now, answers>>

\* Neither replayed nor performed: the body or the store could not be read.
Refuse(r) ==
    /\ Waiting(r)
    /\ Tell(r, "refused", r)
    /\ UNCHANGED <<now, answers>>

\* The process is lost, and with it whatever was not durable.
Restart ==
    /\ answers' \in {answers, [k \in Keys |-> NoRecord]}
    /\ reply' \in [Arrivals -> {reply[r] : r \in Arrivals} \cup {Told("failed", r) : r \in Arrivals}]
    /\ \A r \in Arrivals : reply'[r] = reply[r] \/ (Waiting(r) /\ reply'[r] = Told("failed", r))
    /\ UNCHANGED now

Next ==
    \/ Tick
    \/ Restart
    \/ \E r \in Arrivals : Perform(r) \/ Replay(r) \/ Refuse(r)

Spec == Init /\ [][Next]_vars
=============================================================================
