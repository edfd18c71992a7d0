----------------------------- MODULE Idempotency -----------------------------
(***************************************************************************)
(* The idempotency middleware: every arrival of a keyed write runs in a    *)
(* goroutine of its own, claims its key in the in-flight table or waits    *)
(* behind the arrival that has it, looks the key up before and after the   *)
(* claim, runs the handler and records a 2xx answer.  A reaper sweeps the  *)
(* store, and a restart of the process forgets it.                         *)
(***************************************************************************)
EXTENDS Integers

CONSTANTS
    Arrivals, Keys, KeyOf, HashOf, TTL, MaxTime, NoRecord,
    NoFlight,       \* no arrival has claimed the key
    MaxRestarts     \* bound: how often the process is restarted

ASSUME ArrivalsAssumption == KeyOf \in [Arrivals -> Keys] /\ Arrivals \subseteq DOMAIN HashOf
ASSUME TimeAssumption == TTL \in Nat \ {0} /\ MaxTime \in Nat /\ MaxRestarts \in Nat
ASSUME NoFlightAssumption == NoFlight \notin Arrivals

Record == [hash : {HashOf[r] : r \in Arrivals}, by : Arrivals, createdAt : 0..MaxTime]
ASSUME NoRecordAssumption == NoRecord \notin Record

VARIABLES
    now,            \* the clock
    records,        \* MemoryStore: key -> record, expired or not
    inFlight,       \* key -> the arrival that claimed it, or NoFlight
    doneClosed,     \* the arrivals whose done channel has been closed
    place,          \* arrival -> where its goroutine is
    waitsFor,       \* arrival -> the flight it found running
    told,           \* arrival -> the response it holds
    restarts        \* how often the process has been restarted

middlewareVars == <<now, records, inFlight, doneClosed, place, waitsFor, told, restarts>>

Told(kind, by) == [kind |-> kind, by |-> by]

MiddlewareInit ==
    /\ now = 0 /\ restarts = 0
    /\ records = [k \in Keys |-> NoRecord]
    /\ inFlight = [k \in Keys |-> NoFlight]
    /\ doneClosed = {}
    /\ place = [r \in Arrivals |-> "new"]
    /\ waitsFor = [r \in Arrivals |-> NoFlight]
    /\ told = [r \in Arrivals |-> Told("none", r)]

-----------------------------------------------------------------------------

MoveTo(r, label) == place' = [place EXCEPT ![r] = label]

Hold(r, kind, by) == told' = [told EXCEPT ![r] = Told(kind, by)]

\* Mutant: a record answers until it is swept.
FreshUntilSwept(record) == record # NoRecord

\* fresh: an expired record is absent whether or not it has been swept.
Fresh(record) == record # NoRecord /\ now - record.createdAt < TTL

\* The body is read to be hashed; one that cannot be read is a 400.
Arrive(r) ==
    /\ place[r] = "new"
    /\ \/ MoveTo(r, "look") /\ UNCHANGED told
       \/ MoveTo(r, "done") /\ Hold(r, "refused", r)
    /\ UNCHANGED <<now, records, inFlight, doneClosed, waitsFor, restarts>>

\* Mutant: the key answers, whatever it was used for.
RecordedByKey(r, answered, none) ==
    LET record == records[KeyOf[r]] IN
    \/ ~ Fresh(record) /\ MoveTo(r, none) /\ UNCHANGED told
    \/ Fresh(record) /\ MoveTo(r, answered) /\ Hold(r, "answer", record.by)
    \/ MoveTo(r, answered) /\ Hold(r, "refused", r)

\* recorded: the answer on file, a 409 for another request's, a 503 when the
\* store cannot be read, or none.
Recorded(r, answered, none) ==
    LET record == records[KeyOf[r]] IN
    \/ /\ ~ Fresh(record)
       /\ MoveTo(r, none)
       /\ UNCHANGED told
    \/ /\ Fresh(record)
       /\ MoveTo(r, answered)
       /\ IF record.hash = HashOf[r]
          THEN Hold(r, "answer", record.by)
          ELSE Hold(r, "conflict", r)
    \/ /\ MoveTo(r, answered)
       /\ Hold(r, "refused", r)

Look(r) ==
    /\ place[r] = "look"
    /\ Recorded(r, "done", "claim")
    /\ UNCHANGED <<now, records, inFlight, doneClosed, waitsFor, restarts>>

\* Mutant: the claim does not look whether the key is taken.
ClaimAnyway(r) ==
    /\ place[r] = "claim"
    /\ inFlight' = [inFlight EXCEPT ![KeyOf[r]] = r]
    /\ MoveTo(r, "recheck")
    /\ UNCHANGED <<now, records, doneClosed, waitsFor, told, restarts>>

Claim(r) ==
    LET running == inFlight[KeyOf[r]] IN
    /\ place[r] = "claim"
    /\ IF running = NoFlight
       THEN /\ inFlight' = [inFlight EXCEPT ![KeyOf[r]] = r]
            /\ MoveTo(r, "recheck")
            /\ UNCHANGED waitsFor
       ELSE /\ waitsFor' = [waitsFor EXCEPT ![r] = running]
            /\ MoveTo(r, "wait")
            /\ UNCHANGED inFlight
    /\ UNCHANGED <<now, records, doneClosed, told, restarts>>

Wait(r) ==
    /\ place[r] = "wait"
    /\ waitsFor[r] \in doneClosed
    /\ waitsFor' = [waitsFor EXCEPT ![r] = NoFlight]
    /\ MoveTo(r, "look")
    /\ UNCHANGED <<now, records, inFlight, doneClosed, told, restarts>>

\* Mutant: the leader does not look again.
NoRecheck(r) ==
    /\ place[r] = "recheck"
    /\ MoveTo(r, "handle")
    /\ UNCHANGED <<now, records, inFlight, doneClosed, waitsFor, told, restarts>>

Recheck(r) ==
    /\ place[r] = "recheck"
    /\ Recorded(r, "release", "handle")
    /\ UNCHANGED <<now, records, inFlight, doneClosed, waitsFor, restarts>>

\* The handler answers 2xx, or fails, or panics: a panic unwinds through
\* the deferred finish and the client's connection is dropped.
Handle(r) ==
    /\ place[r] = "handle"
    /\ \/ MoveTo(r, "put") /\ UNCHANGED told
       \/ MoveTo(r, "release") /\ Hold(r, "failed", r)
    /\ UNCHANGED <<now, records, inFlight, doneClosed, waitsFor, restarts>>

\* Mutant: the answer is recorded under no arrival at all.
PutUnsigned(r) ==
    /\ place[r] = "put"
    /\ records' = [records EXCEPT ![KeyOf[r]] =
                     [hash |-> HashOf[r], by |-> NoFlight, createdAt |-> now]]
    /\ Hold(r, "answer", r)
    /\ MoveTo(r, "release")
    /\ UNCHANGED <<now, inFlight, doneClosed, waitsFor, restarts>>

\* The store may fail to record a success; the client is given it all the same.
Put(r) ==
    /\ place[r] = "put"
    /\ \/ records' = [records EXCEPT ![KeyOf[r]] =
                        [hash |-> HashOf[r], by |-> r, createdAt |-> now]]
       \/ UNCHANGED records
    /\ Hold(r, "answer", r)
    /\ MoveTo(r, "release")
    /\ UNCHANGED <<now, inFlight, doneClosed, waitsFor, restarts>>

\* Mutant: the claim is dropped and the channel is never closed.
ReleaseQuietly(r) ==
    /\ place[r] = "release"
    /\ inFlight' = [inFlight EXCEPT ![KeyOf[r]] = NoFlight]
    /\ MoveTo(r, "done")
    /\ UNCHANGED <<now, records, doneClosed, waitsFor, told, restarts>>

\* finish: the claim goes under the mutex, the channel is closed after it.
Release(r) ==
    /\ place[r] = "release"
    /\ inFlight' = [inFlight EXCEPT ![KeyOf[r]] = NoFlight]
    /\ MoveTo(r, "wake")
    /\ UNCHANGED <<now, records, doneClosed, waitsFor, told, restarts>>

Wake(r) ==
    /\ place[r] = "wake"
    /\ doneClosed' = doneClosed \cup {r}
    /\ MoveTo(r, "done")
    /\ UNCHANGED <<now, records, inFlight, waitsFor, told, restarts>>

-----------------------------------------------------------------------------

\* DeleteExpired with the cutoff the reaper works out: strictly older than TTL.
Sweep ==
    /\ \E k \in Keys : records[k] # NoRecord /\ records[k].createdAt < now - TTL
    /\ records' = [k \in Keys |->
                     IF records[k] # NoRecord /\ records[k].createdAt < now - TTL
                     THEN NoRecord ELSE records[k]]
    /\ UNCHANGED <<now, inFlight, doneClosed, place, waitsFor, told, restarts>>

Tick ==
    /\ now < MaxTime
    /\ now' = now + 1
    /\ UNCHANGED <<records, inFlight, doneClosed, place, waitsFor, told, restarts>>

\* The store and the in-flight table live in the process.
Restart ==
    /\ restarts < MaxRestarts
    /\ restarts' = restarts + 1
    /\ records' = [k \in Keys |-> NoRecord]
    /\ inFlight' = [k \in Keys |-> NoFlight]
    /\ doneClosed' = {}
    /\ waitsFor' = [r \in Arrivals |-> NoFlight]
    /\ place' = [r \in Arrivals |-> IF place[r] = "new" THEN "new" ELSE "done"]
    /\ told' = [r \in Arrivals |->
                   IF place[r] # "new" /\ told[r].kind = "none" THEN Told("failed", r) ELSE told[r]]
    /\ UNCHANGED now

Resolve(r) ==
    \/ Look(r) \/ Claim(r) \/ Wait(r) \/ Recheck(r)
    \/ Handle(r) \/ Put(r) \/ Release(r) \/ Wake(r)

MiddlewareNext ==
    \/ \E r \in Arrivals : Arrive(r) \/ Resolve(r)
    \/ Sweep \/ Tick \/ Restart

MiddlewareSpec == MiddlewareInit /\ [][MiddlewareNext]_middlewareVars

\* The Go scheduler runs every goroutine that can run, and handlers return.
MiddlewareFairSpec == MiddlewareSpec /\ \A r \in Arrivals : WF_middlewareVars(Resolve(r))

-----------------------------------------------------------------------------
(* Properties.                                                             *)

MiddlewareTypeOK ==
    /\ now \in 0..MaxTime /\ restarts \in 0..MaxRestarts
    /\ records \in [Keys -> Record \cup {NoRecord}]
    /\ inFlight \in [Keys -> Arrivals \cup {NoFlight}]
    /\ doneClosed \subseteq Arrivals
    /\ place \in [Arrivals -> {"new", "look", "claim", "wait", "recheck", "handle",
                               "put", "release", "wake", "done"}]
    /\ waitsFor \in [Arrivals -> Arrivals \cup {NoFlight}]
    /\ told \in [Arrivals -> [kind : {"none", "answer", "failed", "conflict", "refused"},
                              by : Arrivals]]

\* Between the claim and its release one arrival, and no other, acts for a key.
Leading(r) == place[r] \in {"recheck", "handle", "put", "release"}

OneLeaderPerKey ==
    \A r \in Arrivals : Leading(r) <=> inFlight[KeyOf[r]] = r

\* A handler is never run for a key whose answer is on file, not even when
\* the answer arrived after this request had looked for it: a success already
\* recorded is not performed a second time while its record is kept.
AnsweredKeyNotRun ==
    [][\A r \in Arrivals :
         (place[r] = "handle" /\ place'[r] \in {"put", "release"})
            => ~ Fresh(records[KeyOf[r]])]_middlewareVars

\* Two clients that are given one answer asked one thing, under one key: a key
\* used again for something else is told so, and never given the other's answer.
OneAnswerOneRequest ==
    \A r \in Arrivals : told[r].kind = "answer" =>
        KeyOf[told[r].by] = KeyOf[r] /\ HashOf[told[r].by] = HashOf[r]

Contract == INSTANCE IdempotencyContract WITH
    reply <- told,
    answers <- [k \in Keys |-> IF Fresh(records[k]) THEN records[k] ELSE NoRecord]

\* The goroutines, the table and the reaper together give what the package
\* documentation promises: every arrival is settled as if it came alone.
ImplementsContract == Contract!Spec

\* No arrival waits for ever: whoever leads finishes, fails or panics, and
\* whoever waited looks again.
EveryArrivalAnswered == \A r \in Arrivals : []<>(place[r] \in {"new", "done"})
=============================================================================
