--------------------------- MODULE IdempotencyProofs ---------------------------
(***************************************************************************)
(* Proofs about the idempotency middleware, for any arrivals, keys, clock  *)
(* and number of restarts: one leader per key, an answered key is never    *)
(* run, and the middleware implements its contract.                        *)
(***************************************************************************)
EXTENDS Idempotency, TLAPS

USE ArrivalsAssumption, TimeAssumption, NoFlightAssumption, NoRecordAssumption

\* The labels at which an arrival has been told nothing yet.
Unanswered == {"new", "look", "claim", "wait", "recheck", "handle", "put"}

\* An arrival that is still to be answered holds no response, and the response
\* it will hold is its own.
HoldsNothingYet ==
    \A r \in Arrivals :
        /\ place[r] \in Unanswered => told[r] = Told("none", r)
        /\ told[r].kind = "none" => told[r].by = r

\* What the second look bought: while a leader is with the handler or with the
\* store, no answer to its key is on file.
NothingOnFile ==
    \A r \in Arrivals : place[r] \in {"handle", "put"} => ~ Fresh(records[KeyOf[r]])

\* A record answers for the request it was made of.
RecordsAreTheirOwn ==
    \A k \in Keys : records[k] # NoRecord =>
        KeyOf[records[k].by] = k /\ HashOf[records[k].by] = records[k].hash

IInv == MiddlewareTypeOK /\ OneLeaderPerKey /\ HoldsNothingYet /\ NothingOnFile
        /\ RecordsAreTheirOwn /\ OneAnswerOneRequest

-----------------------------------------------------------------------------

\* The invariant holds at the start.
LEMMA InitIInv == MiddlewareInit => IInv
BY DEF MiddlewareInit, IInv, MiddlewareTypeOK, OneLeaderPerKey, Leading, HoldsNothingYet, NothingOnFile,
       RecordsAreTheirOwn, OneAnswerOneRequest, Told, Unanswered

\* A record grows old and never young again.
LEMMA FreshOnlyAges ==
    ASSUME MiddlewareTypeOK, NEW k \in Keys, NEW later \in 0..MaxTime, later >= now,
           records[k] # NoRecord, later - records[k].createdAt < TTL
    PROVE  Fresh(records[k])
BY DEF MiddlewareTypeOK, Record, Fresh

\* Every step keeps the shape of the state.
LEMMA NextTypeOK == MiddlewareTypeOK /\ [MiddlewareNext]_middlewareVars => MiddlewareTypeOK'
<1> SUFFICES ASSUME MiddlewareTypeOK, [MiddlewareNext]_middlewareVars PROVE MiddlewareTypeOK'
  OBVIOUS
<1> USE DEF MiddlewareTypeOK, Record, MoveTo, Hold, Told, Recorded
<1>1. ASSUME NEW r \in Arrivals, Arrive(r) PROVE MiddlewareTypeOK'
  BY <1>1 DEF Arrive
<1>2. ASSUME NEW r \in Arrivals, Look(r) PROVE MiddlewareTypeOK'
  BY <1>2, SMTT(60) DEF Look, Fresh
<1>3. ASSUME NEW r \in Arrivals, Claim(r) PROVE MiddlewareTypeOK'
  BY <1>3 DEF Claim
<1>4. ASSUME NEW r \in Arrivals, Wait(r) PROVE MiddlewareTypeOK'
  BY <1>4 DEF Wait
<1>5. ASSUME NEW r \in Arrivals, Recheck(r) PROVE MiddlewareTypeOK'
  BY <1>5 DEF Recheck, Fresh
<1>6. ASSUME NEW r \in Arrivals, Handle(r) PROVE MiddlewareTypeOK'
  BY <1>6 DEF Handle
<1>7. ASSUME NEW r \in Arrivals, Put(r) PROVE MiddlewareTypeOK'
  BY <1>7 DEF Put
<1>8. ASSUME NEW r \in Arrivals, Release(r) PROVE MiddlewareTypeOK'
  BY <1>8 DEF Release
<1>9. ASSUME NEW r \in Arrivals, Wake(r) PROVE MiddlewareTypeOK'
  BY <1>9 DEF Wake
<1>10. CASE Sweep
  BY <1>10 DEF Sweep
<1>11. CASE Tick
  BY <1>11 DEF Tick
<1>12. CASE Restart
  BY <1>12 DEF Restart
<1>13. CASE UNCHANGED middlewareVars
  BY <1>13 DEF middlewareVars
<1> QED
  BY <1>1, <1>2, <1>3, <1>4, <1>5, <1>6, <1>7, <1>8, <1>9, <1>10, <1>11, <1>12, <1>13
     DEF MiddlewareNext, Resolve

-----------------------------------------------------------------------------
(* The inductive step, a step of an arrival at a time.  Everything but the *)
(* arrival that moves keeps its label and its response.                    *)

\* Every step keeps the invariant.
LEMMA NextIInv == IInv /\ [MiddlewareNext]_middlewareVars => IInv'
<1> SUFFICES ASSUME IInv, [MiddlewareNext]_middlewareVars PROVE IInv'
  OBVIOUS
<1>1. MiddlewareTypeOK /\ MiddlewareTypeOK'
  BY NextTypeOK DEF IInv
<1> USE <1>1 DEF IInv, OneLeaderPerKey, Leading, HoldsNothingYet, NothingOnFile, Unanswered
<1> USE DEF MoveTo, Hold, Told
<1>2. OneLeaderPerKey'
  <2>1. ASSUME NEW r \in Arrivals, Claim(r) PROVE OneLeaderPerKey'
    BY <2>1 DEF Claim, MiddlewareTypeOK
  <2>2. ASSUME NEW r \in Arrivals, Release(r) PROVE OneLeaderPerKey'
    BY <2>2 DEF Release, MiddlewareTypeOK
  <2>3. ASSUME NEW r \in Arrivals, Look(r) \/ Recheck(r) PROVE OneLeaderPerKey'
    BY <2>3 DEF Look, Recheck, Recorded, MiddlewareTypeOK
  <2>4. ASSUME NEW r \in Arrivals, Arrive(r) \/ Wait(r) \/ Handle(r) \/ Put(r) \/ Wake(r)
        PROVE  OneLeaderPerKey'
    BY <2>4 DEF Arrive, Wait, Handle, Put, Wake, MiddlewareTypeOK
  <2>5. CASE Sweep \/ Tick \/ UNCHANGED middlewareVars
    BY <2>5 DEF Sweep, Tick, middlewareVars
  <2>6. CASE Restart
    BY <2>6 DEF Restart, MiddlewareTypeOK
  <2> QED
    BY <2>1, <2>2, <2>3, <2>4, <2>5, <2>6 DEF MiddlewareNext, Resolve
<1>3. HoldsNothingYet'
  <2>1. ASSUME NEW r \in Arrivals, Look(r) \/ Recheck(r) PROVE HoldsNothingYet'
    BY <2>1 DEF Look, Recheck, Recorded, MiddlewareTypeOK
  <2>2. ASSUME NEW r \in Arrivals, Arrive(r) \/ Handle(r) \/ Put(r) PROVE HoldsNothingYet'
    BY <2>2 DEF Arrive, Handle, Put, MiddlewareTypeOK
  <2>3. ASSUME NEW r \in Arrivals, Claim(r) \/ Wait(r) \/ Release(r) \/ Wake(r)
        PROVE  HoldsNothingYet'
    BY <2>3 DEF Claim, Wait, Release, Wake, MiddlewareTypeOK
  <2>4. CASE Sweep \/ Tick \/ UNCHANGED middlewareVars
    BY <2>4 DEF Sweep, Tick, middlewareVars
  <2>5. CASE Restart
    BY <2>5 DEF Restart, MiddlewareTypeOK
  <2> QED
    BY <2>1, <2>2, <2>3, <2>4, <2>5 DEF MiddlewareNext, Resolve
<1>4. NothingOnFile'
  <2>1. ASSUME NEW r \in Arrivals, Recheck(r) PROVE NothingOnFile'
    BY <2>1 DEF Recheck, Recorded, Fresh, MiddlewareTypeOK
  <2>2. ASSUME NEW r \in Arrivals, Put(r) PROVE NothingOnFile'
    \* A record is put for the leader's key only, and it has no other leader.
    <3> SUFFICES ASSUME NEW q \in Arrivals, place'[q] \in {"handle", "put"}
                 PROVE  ~ Fresh(records[KeyOf[q]])'
      OBVIOUS
    <3>1. place[r] = "put" /\ place'[r] = "release" /\ place[q] \in {"handle", "put"} /\ q # r
      BY <2>2 DEF Put, MiddlewareTypeOK
    <3>2. KeyOf[q] # KeyOf[r]
      BY <3>1
    <3>3. records'[KeyOf[q]] = records[KeyOf[q]] /\ now' = now
      BY <2>2, <3>2 DEF Put, MiddlewareTypeOK
    <3> QED
      BY <3>1, <3>3 DEF Fresh
  <2>3. ASSUME NEW r \in Arrivals, Arrive(r) \/ Claim(r) \/ Wait(r) \/ Handle(r) \/ Release(r) \/ Wake(r)
        PROVE  NothingOnFile'
    BY <2>3 DEF Arrive, Claim, Wait, Handle, Release, Wake, Fresh, MiddlewareTypeOK
  <2>4. ASSUME NEW r \in Arrivals, Look(r) PROVE NothingOnFile'
    BY <2>4 DEF Look, Recorded, Fresh, MiddlewareTypeOK
  <2>5. CASE Sweep
    BY <2>5 DEF Sweep, Fresh, MiddlewareTypeOK
  <2>6. CASE Tick
    BY <2>6, FreshOnlyAges DEF Tick, Fresh, MiddlewareTypeOK, Record
  <2>7. CASE Restart \/ UNCHANGED middlewareVars
    BY <2>7 DEF Restart, middlewareVars, Fresh, MiddlewareTypeOK
  <2> QED
    BY <2>1, <2>2, <2>3, <2>4, <2>5, <2>6, <2>7 DEF MiddlewareNext, Resolve
<1>5. RecordsAreTheirOwn'
  <2>1. ASSUME NEW r \in Arrivals, Put(r) PROVE RecordsAreTheirOwn'
    BY <2>1 DEF Put, RecordsAreTheirOwn, MiddlewareTypeOK
  <2>2. ASSUME UNCHANGED records PROVE RecordsAreTheirOwn'
    BY <2>2 DEF RecordsAreTheirOwn
  <2>3. CASE Sweep \/ Restart
    BY <2>3 DEF Sweep, Restart, RecordsAreTheirOwn, MiddlewareTypeOK
  <2> QED
    BY <2>1, <2>2, <2>3
       DEF MiddlewareNext, Resolve, Arrive, Look, Claim, Wait, Recheck, Handle, Release, Wake, Tick, middlewareVars
<1>6. OneAnswerOneRequest'
  <2>1. ASSUME NEW r \in Arrivals, Look(r) \/ Recheck(r) PROVE OneAnswerOneRequest'
    \* What is replayed was recorded under this key for this hash.
    BY <2>1 DEF Look, Recheck, Recorded, Fresh, OneAnswerOneRequest, RecordsAreTheirOwn, MiddlewareTypeOK
  <2>2. ASSUME NEW r \in Arrivals, Arrive(r) \/ Handle(r) \/ Put(r) PROVE OneAnswerOneRequest'
    BY <2>2 DEF Arrive, Handle, Put, OneAnswerOneRequest, MiddlewareTypeOK
  <2>3. ASSUME UNCHANGED told PROVE OneAnswerOneRequest'
    BY <2>3 DEF OneAnswerOneRequest
  <2>4. CASE Restart
    BY <2>4 DEF Restart, OneAnswerOneRequest, MiddlewareTypeOK
  <2> QED
    BY <2>1, <2>2, <2>3, <2>4
       DEF MiddlewareNext, Resolve, Claim, Wait, Release, Wake, Sweep, Tick, middlewareVars
<1> QED
  BY <1>1, <1>2, <1>3, <1>4, <1>5, <1>6 DEF IInv

\* The invariant is one of the specification.
THEOREM Invariant == MiddlewareSpec => []IInv
BY InitIInv, NextIInv, PTL DEF MiddlewareSpec

\* Type correctness of the middleware's state.
THEOREM TypeCorrect == MiddlewareSpec => []MiddlewareTypeOK
<1>1. IInv => MiddlewareTypeOK
  BY DEF IInv
<1> QED
  BY Invariant, <1>1, PTL

\* However many arrivals race for a key, Middleware.execute is between its
\* claim and its finish for one of them at a time.
THEOREM LeaderUnique == MiddlewareSpec => []OneLeaderPerKey
<1>1. IInv => OneLeaderPerKey
  BY DEF IInv
<1> QED
  BY Invariant, <1>1, PTL

\* An answer is given only to a request that asked what was answered.
THEOREM AnswersBelong == MiddlewareSpec => []OneAnswerOneRequest
<1>1. IInv => OneAnswerOneRequest
  BY DEF IInv
<1> QED
  BY Invariant, <1>1, PTL

\* No handler is run for a key whose answer is on file: resolve looks again
\* after its claim, and nobody else can put an answer there in between.
THEOREM AnsweredNotRun == MiddlewareSpec => AnsweredKeyNotRun
<1> DEFINE Step == \A r \in Arrivals :
                     (place[r] = "handle" /\ place'[r] \in {"put", "release"})
                        => ~ Fresh(records[KeyOf[r]])
<1>1. IInv /\ [MiddlewareNext]_middlewareVars => [Step]_middlewareVars
  BY DEF IInv, NothingOnFile
<1> QED
  BY Invariant, <1>1, PTL DEF MiddlewareSpec, AnsweredKeyNotRun

-----------------------------------------------------------------------------
(* The middleware implements its contract: every step is a step of the     *)
(* contract or leaves what it speaks of alone.                             *)

\* What the contract calls the answers on file.
Answers == [k \in Keys |-> IF Fresh(records[k]) THEN records[k] ELSE NoRecord]

\* The middleware starts where the contract starts.
LEMMA InitRefines == MiddlewareInit => Contract!Init
BY DEF MiddlewareInit, Contract!Init, Contract!Nothing, Contract!Told, Told, Fresh

\* Every step of the middleware is a step of the contract, or none of it.
LEMMA NextRefines == IInv /\ IInv' /\ [MiddlewareNext]_middlewareVars => [Contract!Next]_(Contract!vars)
<1> SUFFICES ASSUME IInv, IInv', [MiddlewareNext]_middlewareVars
             PROVE  Contract!Next \/ UNCHANGED <<now, Answers, told>>
  BY DEF Contract!vars, Answers
<1> USE DEF IInv, MiddlewareTypeOK
<1>1. ASSUME UNCHANGED <<now, records, told>>
      PROVE  UNCHANGED <<now, Answers, told>>
  BY <1>1 DEF Answers, Fresh
<1>2. ASSUME NEW r \in Arrivals, Arrive(r)
      PROVE  Contract!Next \/ UNCHANGED <<now, Answers, told>>
  <2>1. CASE UNCHANGED told
    BY <1>1, <1>2, <2>1 DEF Arrive
  <2>2. CASE Hold(r, "refused", r)
    <3>1. Contract!Refuse(r)
      BY <1>2, <2>2
         DEF Arrive, Hold, Told, HoldsNothingYet, Unanswered, Fresh,
             Contract!Refuse, Contract!Waiting, Contract!Nothing, Contract!Tell, Contract!Told
    <3> QED
      BY <3>1 DEF Contract!Next
  <2> QED
    BY <1>2, <2>1, <2>2 DEF Arrive
<1>3. ASSUME NEW r \in Arrivals, Look(r) \/ Recheck(r)
      PROVE  Contract!Next \/ UNCHANGED <<now, Answers, told>>
  <2>0. /\ told[r] = Told("none", r)
        /\ UNCHANGED <<now, records>>
    BY <1>3 DEF Look, Recheck, HoldsNothingYet, Unanswered
  <2>1. CASE UNCHANGED told
    BY <1>1, <2>0, <2>1
  <2>2. CASE Hold(r, "refused", r)
    <3>1. Contract!Refuse(r)
      BY <2>0, <2>2
         DEF Hold, Told, Fresh,
             Contract!Refuse, Contract!Waiting, Contract!Nothing, Contract!Tell, Contract!Told
    <3> QED
      BY <3>1 DEF Contract!Next
  <2>3. CASE /\ Fresh(records[KeyOf[r]])
             /\ IF records[KeyOf[r]].hash = HashOf[r]
                THEN Hold(r, "answer", records[KeyOf[r]].by)
                ELSE Hold(r, "conflict", r)
    <3>1. Answers[KeyOf[r]] = records[KeyOf[r]] /\ records[KeyOf[r]] # NoRecord
      BY <2>3 DEF Answers, Fresh
    <3>2. Contract!Replay(r)
      BY <2>0, <2>3, <3>1
         DEF Hold, Told, Fresh, Answers,
             Contract!Replay, Contract!Waiting, Contract!Nothing, Contract!Tell, Contract!Told
    <3> QED
      BY <3>2 DEF Contract!Next
  <2> QED
    BY <1>3, <2>1, <2>2, <2>3 DEF Look, Recheck, Recorded
<1>4. ASSUME NEW r \in Arrivals, Handle(r)
      PROVE  Contract!Next \/ UNCHANGED <<now, Answers, told>>
  <2>1. CASE UNCHANGED told
    BY <1>1, <1>4, <2>1 DEF Handle
  <2>2. CASE Hold(r, "failed", r)
    <3>1. Answers[KeyOf[r]] = NoRecord /\ told[r] = Told("none", r) /\ UNCHANGED <<now, records>>
      BY <1>4 DEF Handle, NothingOnFile, HoldsNothingYet, Unanswered, Answers
    <3>2. Contract!Perform(r)
      BY <2>2, <3>1
         DEF Hold, Told, Fresh, Answers,
             Contract!Perform, Contract!Waiting, Contract!Nothing, Contract!Tell, Contract!Told
    <3> QED
      BY <3>2 DEF Contract!Next
  <2> QED
    BY <1>4, <2>1, <2>2 DEF Handle
<1>5. ASSUME NEW r \in Arrivals, Put(r)
      PROVE  Contract!Next
  <2> DEFINE record == [hash |-> HashOf[r], by |-> r, createdAt |-> now]
  <2>1. /\ ~ Fresh(records[KeyOf[r]]) /\ told[r] = Told("none", r)
        /\ Hold(r, "answer", r) /\ now' = now
    BY <1>5 DEF Put, NothingOnFile, HoldsNothingYet, Unanswered
  <2>2. \/ Answers' = [Answers EXCEPT ![KeyOf[r]] = record]
        \/ Answers' = Answers
    <3>1. CASE UNCHANGED records
      BY <2>1, <3>1 DEF Answers, Fresh
    <3>2. CASE records' = [records EXCEPT ![KeyOf[r]] = record]
      <4>1. record \in Record /\ record # NoRecord
        BY DEF Record
      <4> QED
        BY <2>1, <3>2, <4>1 DEF Answers, Fresh
    <3> QED
      BY <1>5, <3>1, <3>2 DEF Put
  <2>3. Contract!Perform(r)
    BY <2>1, <2>2
       DEF Hold, Told, Answers,
           Contract!Perform, Contract!Waiting, Contract!Nothing, Contract!Tell, Contract!Told
  <2> QED
    BY <2>3 DEF Contract!Next
<1>6. ASSUME NEW r \in Arrivals, Claim(r) \/ Wait(r) \/ Release(r) \/ Wake(r)
      PROVE  UNCHANGED <<now, Answers, told>>
  BY <1>1, <1>6 DEF Claim, Wait, Release, Wake
<1>7. CASE Sweep
  \* What is swept had stopped answering already.
  <2>1. \A k \in Keys : IF Fresh(records[k]) THEN records'[k] = records[k]
                                             ELSE records'[k] \in {records[k], NoRecord}
    BY <1>7 DEF Sweep, Fresh, Record
  <2> QED
    BY <1>7, <2>1 DEF Sweep, Answers, Fresh
<1>8. CASE Tick
  <2>1. Contract!Tick
    BY <1>8, FreshOnlyAges DEF Tick, Fresh, Record, Contract!Tick, Contract!Kept
  <2> QED
    BY <2>1 DEF Contract!Next
<1>9. CASE Restart
  <2>1. Contract!Restart
    <3>1. Answers' = [k \in Keys |-> NoRecord]
      BY <1>9 DEF Restart, Answers, Fresh
    <3>2. \A r \in Arrivals :
             told'[r] = told[r] \/ (told[r] = Told("none", r) /\ told'[r] = Told("failed", r))
      BY <1>9 DEF Restart, HoldsNothingYet, Told
    <3>3. told' \in [Arrivals -> {told[r] : r \in Arrivals} \cup {Told("failed", r) : r \in Arrivals}]
      BY <1>9 DEF Restart
    <3> QED
      BY <1>9, <3>1, <3>2, <3>3
         DEF Restart, Answers, Told,
             Contract!Restart, Contract!Waiting, Contract!Nothing, Contract!Told
  <2> QED
    BY <2>1 DEF Contract!Next
<1> QED
  BY <1>1, <1>2, <1>3, <1>4, <1>5, <1>6, <1>7, <1>8, <1>9 DEF MiddlewareNext, Resolve, middlewareVars

\* The goroutines, the in-flight table, the store and the reaper together do
\* what the package documentation promises of each request by itself.
THEOREM Implements == MiddlewareSpec => ImplementsContract
BY Invariant, InitRefines, NextRefines, PTL DEF MiddlewareSpec, ImplementsContract, Contract!Spec
=============================================================================
