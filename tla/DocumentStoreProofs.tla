------------------------- MODULE DocumentStoreProofs -------------------------
(***************************************************************************)
(* Proofs about the document store, for any number of callers, documents,  *)
(* drafts and payments: every transaction decides from the row as it       *)
(* stands, its rows explain its header and every payment to the unit, and  *)
(* the store implements the book one mutex would keep.                     *)
(***************************************************************************)
EXTENDS DocumentStore, TotalsProofs, SequenceTheorems, TLAPS

USE DocsAssumption, DraftsAssumption, ApplicationsAssumption, NoDocumentAssumption,
    NoSessionAssumption

-----------------------------------------------------------------------------
(* The rules of a document.                                                *)

\* What a payment settles: the document stays valid, its allocation grows by
\* what the allocation row says, and every payment leaves a row.
LEMMA SettledFacts ==
    ASSUME NEW d \in Document, NEW app \in Applications, MaySettle(d, app)
    PROVE  /\ Settled(d, app) \in Document /\ ValidDocument(Settled(d, app))
           /\ Settled(d, app).allocated >= d.allocated
           /\ AllocationRows(d, app) \in SUBSET Allocation
           /\ CreditRows(d, app) \in SUBSET Credit
           /\ AllocationRows(d, app) \cup CreditRows(d, app) # {}
           /\ AllocationRows(d, app) # {} => Settled(d, app).allocated > 0
           /\ \A row \in AllocationRows(d, app) \cup CreditRows(d, app) :
                 row.doc = app.doc /\ row.payment = app.payment
<1> USE DEF Document, Statuses, MaySettle, ValidDocument
<1>1. app.id \in STRING /\ app.doc \in Docs /\ app.payment \in STRING /\ app.amount \in Int
  OBVIOUS
<1>2. /\ Outstanding(d) = d.total - d.allocated
      /\ Outstanding(d) \in Int /\ Outstanding(d) >= 0
  BY DEF Outstanding
<1>3. /\ Applied(d, app) \in Int /\ Credited(d, app) \in Int
      /\ 0 <= Applied(d, app) /\ Applied(d, app) <= Outstanding(d)
      /\ Applied(d, app) > 0 \/ Credited(d, app) > 0
  BY <1>1, <1>2 DEF Applied, Credited
<1>4. Settled(d, app) \in Document /\ ValidDocument(Settled(d, app))
  <2> DEFINE allocated == d.allocated + Applied(d, app)
             status == StatusFor(d.total, allocated)
  <2>1. allocated \in Int /\ 0 <= allocated /\ allocated <= d.total
    BY <1>2, <1>3
  <2>2. status \in Statuses
    BY <2>1 DEF StatusFor
  <2>3. Settled(d, app) = [d EXCEPT !.allocated = allocated, !.status = status]
    BY DEF Settled
  <2>4. status = StatusFor(d.total, allocated)
    OBVIOUS
  <2> HIDE DEF allocated, status
  <2>5. Settled(d, app) \in Document
    BY <2>1, <2>2, <2>3
  <2>6. ValidDocument(Settled(d, app))
    BY <2>1, <2>3, <2>4
  <2> QED
    BY <2>5, <2>6
<1>5. /\ Settled(d, app).allocated >= d.allocated
      /\ Applied(d, app) > 0 => Settled(d, app).allocated > 0
  BY <1>2, <1>3 DEF Settled
<1>6. AllocationRows(d, app) \in SUBSET Allocation /\ CreditRows(d, app) \in SUBSET Credit
  BY <1>1, <1>3 DEF AllocationRows, CreditRows, Allocation, Credit
<1> QED
  BY <1>3, <1>4, <1>5, <1>6 DEF AllocationRows, CreditRows

\* Voiding a valid document leaves a valid document.
LEMMA VoidedFacts ==
    ASSUME NEW d \in Document, ValidDocument(d)
    PROVE  [d EXCEPT !.status = "void"] \in Document /\ ValidDocument([d EXCEPT !.status = "void"])
BY DEF Document, Statuses, ValidDocument

\* A draft that CheckNew accepts is a valid, open document with lines.
LEMMA DraftFacts ==
    ASSUME NEW draft \in Drafts
    PROVE  /\ draft.id \in Docs /\ draft.document \in Document /\ draft.lines \in Seq(Line)
           /\ draft.document # NoDocument
           /\ CheckNew(draft) => /\ ValidDocument(draft.document) /\ draft.lines # <<>>
                                 /\ draft.document.allocated = 0
BY DEF CheckNew, ValidLines

\* Every request names a document.
LEMMA TargetType == ASSUME NEW r \in Requests PROVE Target(r) \in Docs
BY DEF Requests, Target

\* What a request carries, by what it asks for.
LEMMA RequestFacts ==
    ASSUME NEW r \in Requests
    PROVE  /\ r.op \in {"create", "apply", "void"}
           /\ r.op = "create" => r.draft \in Drafts /\ Target(r) = r.draft.id
           /\ r.op = "apply" => r.app \in Applications /\ Target(r) = r.app.doc
           /\ r.op = "void" => r.doc \in Docs /\ Target(r) = r.doc
BY DEF Requests, Target

-----------------------------------------------------------------------------
(* The inductive invariant.                                                *)

\* A transaction's writes, as far as they have got.
Creating(draft, ls) == [documents |-> draft.document, lines |-> ls, allocations |-> {}, credits |-> {}]
Applying(d, app, as, cs) == [documents |-> Settled(d, app), lines |-> <<>>, allocations |-> as, credits |-> cs]
Voiding(d) == [documents |-> [d EXCEPT !.status = "void"], lines |-> <<>>, allocations |-> {}, credits |-> {}]

\* The first lines of a draft.
Prefix(part, ls) ==
    part \in Seq(Line) /\ Len(part) <= Len(ls) /\ \A i \in 1..Len(part) : part[i] = ls[i]

\* A payment the document in hand may take.
Offered(s) ==
    /\ request[s].op = "apply" /\ read[s] # NoDocument
    /\ MaySettle(read[s], request[s].app)

\* What a session holds and has written is what its request has come to.
Plan(s) ==
    /\ stage[s] \in {"idle", "lock"} => read[s] = NoDocument /\ pending[s] = Nothing
    /\ stage[s] # "idle" => request[s] \in Requests
    /\ stage[s] # "idle" /\ request[s].op = "create" => CheckNew(request[s].draft)
    /\ stage[s] = "decide" => read[s] # NoDocument /\ pending[s] = Nothing
    /\ stage[s] \in {"insert", "lines"} => request[s].op = "create" /\ read[s] = NoDocument
    /\ stage[s] = "insert" => pending[s] = Nothing
    /\ stage[s] = "lines" =>
          /\ pending[s] = Creating(request[s].draft, pending[s].lines)
          /\ Prefix(pending[s].lines, request[s].draft.lines)
          /\ Len(pending[s].lines) < Len(request[s].draft.lines)
    /\ stage[s] \in {"check", "update"} => Offered(s) /\ pending[s] = Nothing
    /\ stage[s] = "allocate" =>
          /\ Offered(s)
          /\ pending[s] = Applying(read[s], request[s].app, {}, {})
    /\ stage[s] = "credit" =>
          /\ Offered(s)
          /\ pending[s] = Applying(read[s], request[s].app,
                                   AllocationRows(read[s], request[s].app), {})
    /\ stage[s] = "commit" =>
          \/ /\ request[s].op = "create" /\ read[s] = NoDocument
             /\ pending[s] = Creating(request[s].draft, request[s].draft.lines)
          \/ /\ Offered(s)
             /\ pending[s] = Applying(read[s], request[s].app,
                                      AllocationRows(read[s], request[s].app),
                                      CreditRows(read[s], request[s].app))
          \/ /\ request[s].op = "void" /\ read[s] # NoDocument /\ read[s].allocated = 0
             /\ pending[s] = Voiding(read[s])

\* The labels at which a transaction has the row of its document to itself.
Holding == {"decide", "lines", "check", "update", "allocate", "credit", "commit"}

\* Who holds a row, who has fenced off a gap, and what neither lets change.
Locked(s) ==
    LET id == Target(request[s]) IN
    /\ stage[s] \in Holding => rowLock[id] = s
    /\ stage[s] = "insert" => id \in gapLock[s] /\ rowLock[id] = NoSession
    /\ stage[s] \in {"insert", "lines"} => documents[id] = NoDocument
    /\ stage[s] = "commit" /\ request[s].op = "create" => documents[id] = NoDocument
    /\ read[s] # NoDocument => stage[s] \in Holding /\ read[s] = documents[id]
    /\ stage[s] \in {"update", "allocate", "credit"} => ~ AlreadyApplied(request[s].app)
    /\ stage[s] = "commit" /\ request[s].op = "apply" => ~ AlreadyApplied(request[s].app)

\* An allocation row hangs from a document that says so.
RowsAreBacked ==
    \A row \in allocations : documents[row.doc] # NoDocument /\ documents[row.doc].allocated > 0

IInv ==
    /\ StoreTypeOK
    /\ \A s \in Sessions : Plan(s) /\ Locked(s)
    /\ RowsAreBacked

\* The invariant holds at the start.
LEMMA InitIInv == StoreInit => IInv
<1> SUFFICES ASSUME StoreInit PROVE IInv
  OBVIOUS
<1>1. StoreTypeOK
  BY DEF StoreInit, StoreTypeOK, Nothing, Collections, StatementLabels
<1>2. \A s \in Sessions : Plan(s) /\ Locked(s)
  BY DEF StoreInit, Plan, Locked, Holding
<1>3. RowsAreBacked
  BY DEF StoreInit, RowsAreBacked
<1> QED
  BY <1>1, <1>2, <1>3 DEF IInv

-----------------------------------------------------------------------------
(* Rolling back.                                                           *)

\* Rolling back keeps the invariant: the session lets go of its own locks and
\* writes, and of nobody else's.
LEMMA AbortIInv ==
    ASSUME IInv, NEW s \in Sessions, NEW answer \in {"ok", "refused", "error"}, Abort(s, answer)
    PROVE  IInv'
<1>1. StoreTypeOK'
  BY DEF IInv, StoreTypeOK, Abort, Free, Nothing, Collections, tables, StatementLabels
<1>2. ASSUME NEW q \in Sessions PROVE Plan(q)'
  BY DEF IInv, StoreTypeOK, Plan, Offered, Abort
<1>3. ASSUME NEW q \in Sessions PROVE Locked(q)'
  <2>1. CASE q = s
    BY <2>1 DEF StoreTypeOK, IInv, Locked, Abort, Holding
  <2>2. CASE q # s
    <3>1. request'[q] = request[q] /\ stage'[q] = stage[q] /\ read'[q] = read[q]
      BY <2>2 DEF IInv, StoreTypeOK, Abort
    <3>2. UNCHANGED <<documents, allocations, credits>>
      BY DEF Abort, tables
    <3>3. AlreadyApplied(request[q].app)' <=> AlreadyApplied(request[q].app)
      BY <3>1, <3>2 DEF AlreadyApplied
    <3>4. gapLock'[q] = gapLock[q]
      BY <2>2 DEF Abort, Free, IInv, StoreTypeOK
    <3>5. Locked(q)
      BY DEF IInv
    <3>6. CASE stage[q] = "idle"
      BY <3>1, <3>6 DEF IInv, Plan, Locked, Holding
    <3>7. CASE stage[q] # "idle"
      <4>1. Target(request[q]) \in Docs
        BY <3>7, TargetType DEF IInv, Plan
      <4>2. /\ rowLock[Target(request[q])] = q => rowLock'[Target(request[q])] = q
            /\ rowLock[Target(request[q])] = NoSession => rowLock'[Target(request[q])] = NoSession
        BY <2>2, <4>1 DEF Abort, Free
      <4> QED
        BY <3>1, <3>2, <3>3, <3>4, <3>5, <4>2 DEF Locked
    <3> QED
      BY <3>6, <3>7
  <2> QED
    BY <2>1, <2>2
<1>4. RowsAreBacked'
  BY DEF IInv, RowsAreBacked, Abort, tables
<1> QED
  BY <1>1, <1>2, <1>3, <1>4 DEF IInv

-----------------------------------------------------------------------------
(* One session steps; the others keep what they hold.                      *)

\* Of what sessions hold, the step touches s alone.
HisAlone(s) ==
    \A q \in Sessions \ {s} :
        /\ request'[q] = request[q] /\ stage'[q] = stage[q]
        /\ read'[q] = read[q] /\ pending'[q] = pending[q]

\* What the step has to leave alone for session q: the document q has locked
\* or found missing, and the rows that would count as an earlier payment.
Spares(q) ==
    LET id == Target(request[q]) IN
    /\ gapLock'[q] = gapLock[q]
    /\ stage[q] \in Holding =>
          /\ rowLock'[id] = q /\ documents'[id] = documents[id]
          /\ \A row \in allocations' \cup credits' :
                row.doc = id => row \in allocations \cup credits
    /\ stage[q] = "insert" => rowLock'[id] = NoSession /\ documents'[id] = documents[id]

\* A session that is spared keeps its part of the invariant.
LEMMA OthersKeep ==
    ASSUME IInv, NEW s \in Sessions, NEW q \in Sessions \ {s}, HisAlone(s), Spares(q)
    PROVE  Plan(q)' /\ Locked(q)'
<1>1. Plan(q) /\ Locked(q)
  BY DEF IInv
<1>2. request'[q] = request[q] /\ stage'[q] = stage[q] /\ read'[q] = read[q] /\ pending'[q] = pending[q]
  BY DEF HisAlone
<1>3. Plan(q)'
  BY <1>1, <1>2 DEF Plan, Offered
<1>4. stage[q] \in {"update", "allocate", "credit"} => request[q].op = "apply"
  BY <1>1 DEF Plan, Offered
<1>5. ASSUME stage[q] \in Holding, request[q].op = "apply", ~ AlreadyApplied(request[q].app)
      PROVE  ~ AlreadyApplied(request[q].app)'
  <2>1. Target(request[q]) = request[q].app.doc
    BY <1>1, <1>5, RequestFacts DEF Plan, Holding
  <2> QED
    BY <1>2, <1>5, <2>1 DEF AlreadyApplied, Spares
<1>6. Locked(q)'
  BY <1>1, <1>2, <1>4, <1>5 DEF Locked, Spares, Holding
<1> QED
  BY <1>3, <1>6

\* Where the step leaves tables and locks alone, only s is left to look at.
LEMMA PrivateStep ==
    ASSUME IInv, NEW s \in Sessions, HisAlone(s), UNCHANGED <<tables, rowLock, gapLock>>,
           StoreTypeOK', Plan(s)', Locked(s)'
    PROVE  IInv'
<1>1. ASSUME NEW q \in Sessions \ {s} PROVE Spares(q)
  <2>1. Locked(q)
    BY DEF IInv
  <2>2. UNCHANGED <<documents, allocations, credits, rowLock, gapLock>>
    BY DEF tables
  <2> QED
    BY <2>1, <2>2 DEF Spares, Locked
<1>2. RowsAreBacked'
  BY DEF IInv, RowsAreBacked, tables
<1> QED
  BY <1>1, <1>2, OthersKeep DEF IInv

\* Writing one field of a transaction's writes leaves the others.
LEMMA WriteField ==
    \A w \in Collections : \A v :
           /\ [w EXCEPT !.documents = v] =
                 [documents |-> v, lines |-> w.lines,
                  allocations |-> w.allocations, credits |-> w.credits]
           /\ [w EXCEPT !.lines = v] =
                 [documents |-> w.documents, lines |-> v,
                  allocations |-> w.allocations, credits |-> w.credits]
           /\ [w EXCEPT !.allocations = v] =
                 [documents |-> w.documents, lines |-> w.lines,
                  allocations |-> v, credits |-> w.credits]
           /\ [w EXCEPT !.credits = v] =
                 [documents |-> w.documents, lines |-> w.lines,
                  allocations |-> w.allocations, credits |-> v]
BY DEF Collections

\* The private steps of Ask, Create, Apply and Void.
LEMMA PrivateSteps ==
    ASSUME IInv, NEW s \in Sessions,
           \/ AskStore(s) \/ InsertLine(s) \/ Settle(s) \/ CheckApplied(s) \/ UpdateSettlement(s)
           \/ InsertAllocation(s) \/ InsertCredit(s) \/ DecideVoid(s)
    PROVE  IInv'
<1>0. /\ StoreTypeOK /\ Plan(s) /\ Locked(s)
      /\ stage[s] # "idle" => request[s] \in Requests /\ Target(request[s]) \in Docs
  BY TargetType DEF IInv, Plan
<1>1. CASE AskStore(s)
  <2>1. HisAlone(s) /\ UNCHANGED <<tables, rowLock, gapLock>>
    BY <1>0, <1>1 DEF AskStore, StoreGoto, HisAlone, StoreTypeOK
  <2>2. StoreTypeOK'
    BY <1>0, <1>1 DEF AskStore, StoreGoto, StoreTypeOK, StatementLabels, tables
  <2>3. Plan(s)' /\ Locked(s)'
    BY <1>0, <1>1 DEF AskStore, StoreGoto, StoreTypeOK, StatementLabels, Plan, Locked, Holding
  <2> QED
    BY <2>1, <2>2, <2>3, PrivateStep
<1>2. CASE InsertLine(s)
  <2> DEFINE draft == request[s].draft
             ls    == draft.lines
             part  == pending[s].lines
             next  == Len(part) + 1
  <2>1. HisAlone(s) /\ UNCHANGED <<tables, rowLock, gapLock>>
    BY <1>0, <1>2 DEF InsertLine, StoreGoto, HisAlone, StoreTypeOK
  <2>2. /\ stage[s] = "lines" /\ request[s].op = "create" /\ draft \in Drafts /\ ls \in Seq(Line)
        /\ pending[s] = Creating(draft, part) /\ Prefix(part, ls) /\ Len(part) < Len(ls)
        /\ request[s] \in Requests /\ CheckNew(draft)
    BY <1>0, <1>2, RequestFacts, DraftFacts DEF InsertLine, Plan
  <2>3. /\ next \in 1..Len(ls) /\ ls[next] \in Line /\ Len(ls) \in Nat
        /\ Prefix(Append(part, ls[next]), ls) /\ Len(Append(part, ls[next])) = next
    <3>1. part \in Seq(Line) /\ Len(part) \in Nat /\ Len(ls) \in Nat
      BY <2>2, LenProperties DEF Prefix
    <3>2. next \in 1..Len(ls) /\ ls[next] \in Line
      BY <2>2, <3>1, ElementOfSeq
    <3>3. /\ Append(part, ls[next]) \in Seq(Line) /\ Len(Append(part, ls[next])) = next
          /\ \A i \in 1..Len(part) : Append(part, ls[next])[i] = part[i]
          /\ Append(part, ls[next])[next] = ls[next]
      BY <3>1, <3>2, AppendProperties
    <3> DEFINE longer == Append(part, ls[next])
    <3>4. longer \in Seq(Line) /\ Len(longer) = next /\ longer[next] = ls[next]
          /\ \A i \in 1..Len(part) : longer[i] = part[i]
      BY <3>3
    <3> HIDE DEF longer
    <3>5. Prefix(longer, ls)
      <4>1. \A i \in 1..next : longer[i] = ls[i]
        BY <2>2, <3>1, <3>4 DEF Prefix
      <4>2. next <= Len(ls)
        BY <3>1, <3>2
      <4> QED
        BY <3>4, <4>1, <4>2 DEF Prefix
    <3> QED
      BY <3>1, <3>2, <3>4, <3>5 DEF longer
  <2>4. pending' = [pending EXCEPT ![s] = Creating(draft, Append(part, ls[next]))]
    <3>1. pending' = [pending EXCEPT ![s] = [pending[s] EXCEPT !.lines = Append(part, ls[next])]]
      BY <1>2 DEF InsertLine
    <3>2. [pending[s] EXCEPT !.lines = Append(part, ls[next])]
             = Creating(draft, Append(part, ls[next]))
      <4>1. pending[s] \in Collections
        BY <1>0 DEF StoreTypeOK
      <4>2. \A more : [pending[s] EXCEPT !.lines = more] =
               [documents |-> pending[s].documents, lines |-> more,
                allocations |-> pending[s].allocations, credits |-> pending[s].credits]
        BY <4>1, WriteField
      <4>3. /\ pending[s].documents = draft.document
            /\ pending[s].allocations = {} /\ pending[s].credits = {}
        BY <2>2 DEF Creating
      <4> QED
        BY <4>2, <4>3 DEF Creating
    <3> QED
      BY <3>1, <3>2
  <2>5. Creating(draft, Append(part, ls[next])) \in Collections
    BY <2>2, <2>3, DraftFacts DEF Creating, Collections, Prefix
  <2>6. StoreTypeOK' /\ pending'[s] = Creating(draft, Append(part, ls[next]))
    <3> DEFINE w == Creating(draft, Append(part, ls[next]))
    <3>1. w \in Collections /\ pending' = [pending EXCEPT ![s] = w]
      BY <2>4, <2>5
    <3> HIDE DEF w
    <3>2. pending' \in [Sessions -> Collections] /\ pending'[s] = w
      BY <1>0, <3>1 DEF StoreTypeOK
    <3>3. stage' \in [Sessions -> StatementLabels]
      BY <1>0, <1>2 DEF InsertLine, StoreGoto, StoreTypeOK, StatementLabels
    <3>4. StoreTypeOK'
      BY <1>0, <2>1, <3>2, <3>3, <1>2 DEF InsertLine, StoreTypeOK, tables
    <3> QED
      BY <3>2, <3>4 DEF w
  <2>7. UNCHANGED <<request, read>> /\ stage'[s] = IF next = Len(ls) THEN "commit" ELSE "lines"
    BY <1>0, <1>2 DEF InsertLine, StoreGoto, StoreTypeOK
  <2>8. next = Len(ls) => Append(part, ls[next]) = ls
    <3> HAVE next = Len(ls)
    <3> QED
      BY <2>2, <2>3, SeqEqual DEF Prefix
  <2>9. Plan(s)'
    <3>1. pending'[s].lines = Append(part, ls[next])
      BY <2>6 DEF Creating
    <3>0. request'[s] = request[s] /\ read'[s] = NoDocument /\ read[s] = NoDocument
      BY <1>0, <2>2, <2>7 DEF Plan
    <3>2. CASE next = Len(ls)
      <4>1. stage'[s] = "commit" /\ pending'[s] = Creating(draft, ls)
        BY <2>6, <2>7, <2>8, <3>2
      <4> QED
        BY <2>2, <3>0, <4>1 DEF Plan
    <3>3. CASE next < Len(ls)
      <4>1. stage'[s] = "lines"
        BY <2>7, <2>3, <3>3
      <4>2. /\ pending'[s] = Creating(draft, pending'[s].lines)
            /\ Prefix(pending'[s].lines, ls) /\ Len(pending'[s].lines) < Len(ls)
        BY <2>3, <2>6, <3>1, <3>3
      <4> QED
        BY <2>2, <3>0, <4>1, <4>2 DEF Plan
    <3> QED
      BY <2>3, <3>2, <3>3
  <2>10. Locked(s)'
    BY <1>0, <1>2, <2>1, <2>2, <2>7 DEF Locked, Plan, Holding, tables
  <2> QED
    BY <2>1, <2>6, <2>9, <2>10, PrivateStep
<1>3. CASE Settle(s)
  <2>1. CASE Abort(s, "refused")
    BY <2>1, AbortIInv
  <2>2. CASE ~ Abort(s, "refused")
    <3>1. /\ stage[s] = "decide" /\ request[s].op = "apply" /\ MaySettle(read[s], request[s].app)
          /\ stage' = [stage EXCEPT ![s] = "check"]
          /\ UNCHANGED <<tables, rowLock, gapLock, request, read, pending, reply>>
      BY <1>3, <2>2 DEF Settle, StoreGoto
    <3>2. HisAlone(s) /\ StoreTypeOK'
      BY <1>0, <3>1 DEF HisAlone, StoreTypeOK, StatementLabels, tables
    <3>3. Plan(s)' /\ Locked(s)'
      BY <1>0, <3>1 DEF Plan, Locked, Offered, StoreTypeOK, Holding, tables
    <3> QED
      BY <3>1, <3>2, <3>3, PrivateStep
  <2> QED
    BY <2>1, <2>2
<1>4. CASE CheckApplied(s)
  <2>1. CASE Abort(s, "refused")
    BY <2>1, AbortIInv
  <2>2. CASE ~ Abort(s, "refused")
    <3>1. /\ stage[s] = "check" /\ ~ AlreadyApplied(request[s].app)
          /\ stage' = [stage EXCEPT ![s] = "update"]
          /\ UNCHANGED <<tables, rowLock, gapLock, request, read, pending, reply>>
      BY <1>4, <2>2 DEF CheckApplied, StoreGoto
    <3>2. HisAlone(s) /\ StoreTypeOK'
      BY <1>0, <3>1 DEF HisAlone, StoreTypeOK, StatementLabels, tables
    <3>3. Plan(s)'
      BY <1>0, <3>1 DEF Plan, Offered, StoreTypeOK
    <3>4. Locked(s)'
      BY <1>0, <3>1 DEF Locked, StoreTypeOK, Holding, tables, AlreadyApplied
    <3> QED
      BY <3>1, <3>2, <3>3, <3>4, PrivateStep
  <2> QED
    BY <2>1, <2>2
<1>5. ASSUME NEW w \in Collections, NEW label \in {"allocate", "credit", "commit"},
             stage[s] \in {"decide", "update", "allocate", "credit"},
             pending' = [pending EXCEPT ![s] = w], stage' = [stage EXCEPT ![s] = label],
             UNCHANGED <<tables, rowLock, gapLock, request, read, reply>>,
             stage[s] = "decide" => request[s].op = "void" /\ label = "commit",
             Plan(s)'
      PROVE  IInv'
  \* A write of Apply or of Void: the locks are what they were.
  <2>1. HisAlone(s) /\ StoreTypeOK'
    BY <1>0, <1>5 DEF HisAlone, StoreTypeOK, StatementLabels, tables
  <2>2. stage[s] # "decide" => request[s].op = "apply"
    BY <1>0, <1>5 DEF Plan, Offered
  <2>3. Locked(s)'
    <3>1. /\ UNCHANGED <<documents, allocations, credits, rowLock, gapLock>>
          /\ request'[s] = request[s] /\ read'[s] = read[s] /\ stage'[s] = label
      BY <1>0, <1>5 DEF tables, StoreTypeOK
    <3>2. AlreadyApplied(request[s].app)' <=> AlreadyApplied(request[s].app)
      BY <3>1 DEF AlreadyApplied
    <3>3. label \in Holding /\ stage[s] \in Holding /\ label # "insert" /\ label # "lines"
      BY <1>5 DEF Holding
    <3>4. request[s].op # "create"
      BY <1>5, <2>2
    <3>5. label \in {"allocate", "credit"} \/ request[s].op = "apply"
             => ~ AlreadyApplied(request[s].app)
      BY <1>0, <1>5 DEF Locked
    <3>6. /\ rowLock[Target(request[s])] = s
          /\ read[s] # NoDocument => read[s] = documents[Target(request[s])]
      BY <1>0, <3>3 DEF Locked
    <3> QED
      BY <3>1, <3>2, <3>3, <3>4, <3>5, <3>6, <2>2 DEF Locked
  <2> QED
    BY <1>5, <2>1, <2>3, PrivateStep
<1>6. CASE UpdateSettlement(s)
  <2> DEFINE w == Applying(read[s], request[s].app, {}, {})
  <2>1. stage[s] = "update" /\ Offered(s) /\ pending[s] = Nothing /\ request[s] \in Requests
    BY <1>0, <1>6 DEF UpdateSettlement, Plan
  <2>2. pending' = [pending EXCEPT ![s] = w]
    <3>1. pending' = [pending EXCEPT ![s] =
                        [pending[s] EXCEPT !.documents = Settled(read[s], request[s].app)]]
      BY <1>6 DEF UpdateSettlement
    <3>2. pending[s] \in Collections
      BY <1>0 DEF StoreTypeOK
    <3>3. pending[s].lines = <<>> /\ pending[s].allocations = {} /\ pending[s].credits = {}
      BY <2>1 DEF Nothing
    <3>4. \A d : [pending[s] EXCEPT !.documents = d]
             = [documents |-> d, lines |-> pending[s].lines,
                allocations |-> pending[s].allocations, credits |-> pending[s].credits]
      BY <3>2, WriteField
    <3>5. [pending[s] EXCEPT !.documents = Settled(read[s], request[s].app)] = w
      BY <3>3, <3>4 DEF Applying
    <3> QED
      BY <3>1, <3>5
  <2>3. w \in Collections
    BY <1>0, <2>1, RequestFacts, SettledFacts DEF Applying, Collections, Offered, StoreTypeOK
  <2>4. Plan(s)'
    BY <1>0, <1>6, <2>1, <2>2 DEF UpdateSettlement, StoreGoto, Plan, Offered, StoreTypeOK
  <2> QED
    BY <1>5, <1>6, <2>1, <2>2, <2>3, <2>4 DEF UpdateSettlement, StoreGoto
<1>7. CASE InsertAllocation(s)
  <2> DEFINE rows == AllocationRows(read[s], request[s].app)
             w    == Applying(read[s], request[s].app, rows, {})
  <2>1. /\ stage[s] = "allocate" /\ Offered(s) /\ request[s] \in Requests
        /\ pending[s] = Applying(read[s], request[s].app, {}, {})
    BY <1>0, <1>7 DEF InsertAllocation, Plan
  <2>2. CASE Clash(rows, allocations)
    BY <1>7, <2>2, AbortIInv DEF InsertAllocation
  <2>3. CASE ~ Clash(rows, allocations)
    <3>1. pending' = [pending EXCEPT ![s] = w]
      <4>1. pending' = [pending EXCEPT ![s] = [pending[s] EXCEPT !.allocations = rows]]
        BY <1>7, <2>3 DEF InsertAllocation
      <4>2. pending[s] \in Collections
        BY <1>0 DEF StoreTypeOK
      <4>3. /\ pending[s].documents = Settled(read[s], request[s].app)
            /\ pending[s].lines = <<>> /\ pending[s].credits = {}
        BY <2>1 DEF Applying
      <4>4. [pending[s] EXCEPT !.allocations = rows]
               = [documents |-> pending[s].documents, lines |-> pending[s].lines,
                  allocations |-> rows, credits |-> pending[s].credits]
        BY <4>2, WriteField
      <4>5. [pending[s] EXCEPT !.allocations = rows] = w
        BY <4>3, <4>4 DEF Applying
      <4> QED
        BY <4>1, <4>5
    <3>2. w \in Collections
      BY <1>0, <2>1, RequestFacts, SettledFacts DEF Applying, Collections, Offered, StoreTypeOK
    <3>3. Plan(s)'
      BY <1>0, <1>7, <2>1, <2>3, <3>1 DEF InsertAllocation, StoreGoto, Plan, Offered, StoreTypeOK
    <3> QED
      BY <1>5, <1>7, <2>1, <2>3, <3>1, <3>2, <3>3 DEF InsertAllocation, StoreGoto
  <2> QED
    BY <2>2, <2>3
<1>8. CASE InsertCredit(s)
  <2> DEFINE made == AllocationRows(read[s], request[s].app)
             rows == CreditRows(read[s], request[s].app)
             w    == Applying(read[s], request[s].app, made, rows)
  <2>1. /\ stage[s] = "credit" /\ Offered(s) /\ request[s] \in Requests
        /\ pending[s] = Applying(read[s], request[s].app, made, {})
    BY <1>0, <1>8 DEF InsertCredit, Plan
  <2>2. CASE Clash(rows, credits)
    BY <1>8, <2>2, AbortIInv DEF InsertCredit
  <2>3. CASE ~ Clash(rows, credits)
    <3>1. pending' = [pending EXCEPT ![s] = w]
      <4>1. pending' = [pending EXCEPT ![s] = [pending[s] EXCEPT !.credits = rows]]
        BY <1>8, <2>3 DEF InsertCredit
      <4>2. pending[s] \in Collections
        BY <1>0 DEF StoreTypeOK
      <4>3. /\ pending[s].documents = Settled(read[s], request[s].app)
            /\ pending[s].lines = <<>> /\ pending[s].allocations = made
        BY <2>1 DEF Applying
      <4>4. [pending[s] EXCEPT !.credits = rows]
               = [documents |-> pending[s].documents, lines |-> pending[s].lines,
                  allocations |-> pending[s].allocations, credits |-> rows]
        BY <4>2, WriteField
      <4>5. [pending[s] EXCEPT !.credits = rows] = w
        BY <4>3, <4>4 DEF Applying
      <4> QED
        BY <4>1, <4>5
    <3>2. w \in Collections
      BY <1>0, <2>1, RequestFacts, SettledFacts DEF Applying, Collections, Offered, StoreTypeOK
    <3>3. Plan(s)'
      BY <1>0, <1>8, <2>1, <2>3, <3>1 DEF InsertCredit, StoreGoto, Plan, Offered, StoreTypeOK
    <3> QED
      BY <1>5, <1>8, <2>1, <2>3, <3>1, <3>2, <3>3 DEF InsertCredit, StoreGoto
  <2> QED
    BY <2>2, <2>3
<1>9. CASE DecideVoid(s)
  <2>1. CASE Abort(s, "refused") \/ Abort(s, "ok")
    BY <2>1, AbortIInv
  <2>2. CASE ~ (Abort(s, "refused") \/ Abort(s, "ok"))
    <3> DEFINE w == Voiding(read[s])
    <3>1. /\ stage[s] = "decide" /\ request[s].op = "void" /\ read[s].allocated = 0
          /\ read[s] # NoDocument /\ pending[s] = Nothing
          /\ pending' = [pending EXCEPT ![s].documents = [read[s] EXCEPT !.status = "void"]]
          /\ stage' = [stage EXCEPT ![s] = "commit"]
          /\ UNCHANGED <<tables, rowLock, gapLock, request, read, reply>>
      BY <1>0, <1>9, <2>2 DEF DecideVoid, StoreGoto, Plan
    <3>2. pending' = [pending EXCEPT ![s] = w]
      <4>1. pending' = [pending EXCEPT ![s] =
                          [pending[s] EXCEPT !.documents = [read[s] EXCEPT !.status = "void"]]]
        BY <3>1
      <4>2. pending[s] \in Collections
        BY <1>0 DEF StoreTypeOK
      <4>3. pending[s].lines = <<>> /\ pending[s].allocations = {} /\ pending[s].credits = {}
        BY <3>1 DEF Nothing
      <4>4. \A d : [pending[s] EXCEPT !.documents = d]
               = [documents |-> d, lines |-> pending[s].lines,
                  allocations |-> pending[s].allocations, credits |-> pending[s].credits]
        BY <4>2, WriteField
      <4> QED
        BY <4>1, <4>3, <4>4 DEF Voiding
    <3>3. read[s] \in Document /\ ValidDocument(read[s])
      BY <1>0, <3>1, RequestFacts DEF StoreTypeOK, Locked, Plan
    <3>4. w \in Collections
      BY <3>3, VoidedFacts DEF Voiding, Collections
    <3>5. Plan(s)'
      BY <1>0, <3>1, <3>2 DEF Plan, StoreTypeOK
    <3> QED
      BY <1>5, <3>1, <3>2, <3>4, <3>5
  <2> QED
    BY <2>1, <2>2
<1> QED
  BY <1>1, <1>2, <1>3, <1>4, <1>6, <1>7, <1>8, <1>9

-----------------------------------------------------------------------------
(* The locked read, the insert it lets through, and the commit.            *)

\* Locking a row: who holds another row is not disturbed, and who waits to
\* insert waits for a document that is not there.
LEMMA LockRowIInv == ASSUME IInv, NEW s \in Sessions, LockRow(s) PROVE IInv'
<1> DEFINE id == Target(request[s])
<1>0. StoreTypeOK /\ Plan(s) /\ Locked(s) /\ stage[s] = "lock" /\ request[s] \in Requests /\ id \in Docs
  BY TargetType DEF IInv, Plan, LockRow
<1>1. /\ documents[id] # NoDocument /\ rowLock[id] = NoSession
      /\ rowLock' = [rowLock EXCEPT ![id] = s] /\ read' = [read EXCEPT ![s] = documents[id]]
      /\ stage' = [stage EXCEPT ![s] = "decide"]
      /\ UNCHANGED <<documents, lines, allocations, credits, gapLock, request, pending, reply>>
  BY DEF LockRow, StoreGoto, tables
<1>2. HisAlone(s)
  BY <1>0, <1>1 DEF HisAlone, StoreTypeOK
<1>3. StoreTypeOK'
  BY <1>0, <1>1 DEF StoreTypeOK, StatementLabels
<1>4. /\ request'[s] = request[s] /\ stage'[s] = "decide" /\ pending'[s] = Nothing
      /\ read'[s] = documents[id] /\ rowLock'[id] = s
  BY <1>0, <1>1 DEF StoreTypeOK, Plan
<1>5. Plan(s)'
  BY <1>0, <1>1, <1>4 DEF Plan
<1>6. Locked(s)'
  BY <1>1, <1>4 DEF Locked, Holding
<1>7. ASSUME NEW q \in Sessions \ {s} PROVE Spares(q)
  <2>1. Locked(q) /\ Plan(q)
    BY DEF IInv
  <2>2. stage[q] # "idle" => Target(request[q]) \in Docs
    BY <2>1, TargetType DEF Plan
  <2>3. stage[q] \in Holding => Target(request[q]) # id
    BY <1>1, <2>1 DEF Locked
  <2>4. stage[q] = "insert" => Target(request[q]) # id
    BY <1>1, <2>1 DEF Locked
  <2> QED
    BY <1>0, <1>1, <2>1, <2>2, <2>3, <2>4 DEF Spares, Locked, Holding, StoreTypeOK
<1>8. RowsAreBacked'
  BY <1>1 DEF IInv, RowsAreBacked
<1> QED
  BY <1>2, <1>3, <1>5, <1>6, <1>7, <1>8, OthersKeep DEF IInv

\* A missing id lies in the gap its locked read fences off.
LEMMA LockGapIInv == ASSUME IInv, NEW s \in Sessions, LockGap(s) PROVE IInv'
<1> DEFINE id == Target(request[s])
<1>0. StoreTypeOK /\ Plan(s) /\ Locked(s) /\ stage[s] = "lock" /\ request[s] \in Requests /\ id \in Docs
  BY TargetType DEF IInv, Plan, LockGap
<1>1. CASE request[s].op # "create"
  BY <1>1, AbortIInv DEF LockGap
<1>2. CASE request[s].op = "create"
  <2>1. /\ documents[id] = NoDocument /\ rowLock[id] = NoSession
        /\ gapLock' = [gapLock EXCEPT ![s] = Gap(id)] /\ stage' = [stage EXCEPT ![s] = "insert"]
        /\ UNCHANGED <<documents, lines, allocations, credits, rowLock, request, read, pending, reply>>
    BY <1>2 DEF LockGap, StoreGoto, tables
  <2>2. Gap(id) \subseteq Docs /\ id \in Gap(id)
    BY <1>0, <2>1 DEF Gap, Present
  <2>3. HisAlone(s) /\ StoreTypeOK'
    BY <1>0, <2>1, <2>2 DEF HisAlone, StoreTypeOK, StatementLabels
  <2>4. Plan(s)' /\ Locked(s)'
    BY <1>0, <1>2, <2>1, <2>2 DEF Plan, Locked, Holding, StoreTypeOK
  <2>5. ASSUME NEW q \in Sessions \ {s} PROVE Spares(q)
    BY <1>0, <2>1 DEF IInv, Spares, Locked, StoreTypeOK
  <2>6. RowsAreBacked'
    BY <2>1 DEF IInv, RowsAreBacked
  <2> QED
    BY <2>3, <2>4, <2>5, <2>6, OthersKeep DEF IInv
<1> QED
  BY <1>1, <1>2

\* The insert goes ahead where nobody else has fenced the gap off, so no other
\* session is about to insert the same document.
LEMMA InsertDocumentIInv == ASSUME IInv, NEW s \in Sessions, InsertDocument(s) PROVE IInv'
<1> DEFINE id    == Target(request[s])
           draft == request[s].draft
           w     == Creating(draft, <<>>)
<1>0. /\ StoreTypeOK /\ Plan(s) /\ Locked(s) /\ stage[s] = "insert"
      /\ request[s] \in Requests /\ request[s].op = "create" /\ id \in Docs
      /\ draft \in Drafts /\ CheckNew(draft) /\ pending[s] = Nothing /\ read[s] = NoDocument
      /\ documents[id] = NoDocument /\ rowLock[id] = NoSession
  BY TargetType, RequestFacts DEF IInv, Plan, Locked, InsertDocument
<1>1. /\ Fencing(s, id) = {}
      /\ rowLock' = [rowLock EXCEPT ![id] = s]
      /\ pending' = [pending EXCEPT ![s] = [pending[s] EXCEPT !.documents = draft.document]]
      /\ stage' = [stage EXCEPT ![s] = "lines"]
      /\ UNCHANGED <<documents, lines, allocations, credits, gapLock, request, read, reply>>
  BY DEF InsertDocument, StoreGoto, tables
<1>2. pending' = [pending EXCEPT ![s] = w]
  <2>1. pending[s] \in Collections
    BY <1>0 DEF StoreTypeOK
  <2>2. pending[s].lines = <<>> /\ pending[s].allocations = {} /\ pending[s].credits = {}
    BY <1>0 DEF Nothing
  <2>3. \A d : [pending[s] EXCEPT !.documents = d]
           = [documents |-> d, lines |-> pending[s].lines,
              allocations |-> pending[s].allocations, credits |-> pending[s].credits]
    BY <2>1, WriteField
  <2> QED
    BY <1>1, <2>2, <2>3 DEF Creating
<1>3. w \in Collections /\ w.lines = <<>>
  BY <1>0, DraftFacts DEF Creating, Collections
<1>4. HisAlone(s) /\ StoreTypeOK'
  <2> HIDE DEF w
  <2>1. pending' \in [Sessions -> Collections]
    BY <1>0, <1>2, <1>3 DEF StoreTypeOK
  <2>2. HisAlone(s)
    BY <1>0, <1>1, <1>2 DEF HisAlone, StoreTypeOK
  <2> QED
    BY <1>0, <1>1, <2>1, <2>2 DEF StoreTypeOK, StatementLabels
<1>5. /\ request'[s] = request[s] /\ stage'[s] = "lines" /\ pending'[s] = w
      /\ read'[s] = NoDocument /\ rowLock'[id] = s
  BY <1>0, <1>1, <1>2 DEF StoreTypeOK
<1>6. Plan(s)'
  <2>1. Prefix(<<>>, draft.lines) /\ Len(<<>>) < Len(draft.lines)
    BY <1>0, DraftFacts, LenProperties, EmptySeq DEF Prefix
  <2>2. pending'[s] = Creating(draft, pending'[s].lines)
    BY <1>3, <1>5
  <2>3. /\ Prefix(pending'[s].lines, draft.lines)
        /\ Len(pending'[s].lines) < Len(draft.lines)
    BY <1>3, <1>5, <2>1
  <2> QED
    BY <1>0, <1>5, <2>2, <2>3 DEF Plan
<1>7. Locked(s)'
  BY <1>0, <1>1, <1>5 DEF Locked, Holding
<1>8. ASSUME NEW q \in Sessions \ {s} PROVE Spares(q)
  <2>1. Locked(q) /\ Plan(q)
    BY DEF IInv
  <2>2. stage[q] # "idle" => Target(request[q]) \in Docs
    BY <2>1, TargetType DEF Plan
  <2>3. stage[q] \in Holding => Target(request[q]) # id
    BY <1>0, <2>1 DEF Locked
  <2>4. stage[q] = "insert" => Target(request[q]) # id
    BY <1>1, <2>1 DEF Locked, Fencing
  <2> QED
    BY <1>0, <1>1, <2>1, <2>2, <2>3, <2>4 DEF Spares, Locked, Holding, StoreTypeOK
<1>9. RowsAreBacked'
  BY <1>1 DEF IInv, RowsAreBacked
<1> QED
  BY <1>4, <1>6, <1>7, <1>8, <1>9, OthersKeep DEF IInv

\* What a transaction has written when it commits: a valid document, rows of
\* that document alone, and nothing taken back of what the document had.
LEMMA CommitFacts ==
    ASSUME IInv, NEW s \in Sessions, stage[s] = "commit"
    PROVE  LET id == Target(request[s])  w == pending[s] IN
           /\ request[s] \in Requests /\ id \in Docs /\ rowLock[id] = s
           /\ w \in Collections /\ w.documents \in Document /\ ValidDocument(w.documents)
           /\ \A row \in w.allocations \cup w.credits : row.doc = id
           /\ w.allocations # {} => w.documents.allocated > 0
           /\ documents[id] # NoDocument => w.documents.allocated >= documents[id].allocated
<1> DEFINE id == Target(request[s])
           w  == pending[s]
           app == request[s].app
<1>0. /\ StoreTypeOK /\ Plan(s) /\ Locked(s) /\ request[s] \in Requests /\ id \in Docs
      /\ rowLock[id] = s /\ w \in Collections
      /\ read[s] # NoDocument => read[s] = documents[id]
  BY TargetType DEF IInv, Plan, Locked, Holding, StoreTypeOK
<1>1. read[s] # NoDocument => read[s] \in Document /\ ValidDocument(read[s])
  BY <1>0 DEF StoreTypeOK
<1>2. CASE request[s].op = "create" /\ w = Creating(request[s].draft, request[s].draft.lines)
  <2>1. request[s].draft \in Drafts /\ CheckNew(request[s].draft)
    BY <1>0, <1>2, RequestFacts DEF Plan
  <2>2. w.documents = request[s].draft.document /\ w.allocations = {} /\ w.credits = {}
    BY <1>2 DEF Creating
  <2>3. documents[id] = NoDocument
    BY <1>0, <1>2 DEF Locked
  <2> QED
    BY <1>0, <2>1, <2>2, <2>3, DraftFacts
<1>3. CASE Offered(s) /\ w = Applying(read[s], app, AllocationRows(read[s], app), CreditRows(read[s], app))
  <2>1. /\ app \in Applications /\ id = app.doc /\ MaySettle(read[s], app)
        /\ read[s] \in Document /\ read[s] = documents[id]
    BY <1>0, <1>1, <1>3, RequestFacts DEF Offered
  <2>2. /\ w.documents = Settled(read[s], app)
        /\ w.allocations = AllocationRows(read[s], app) /\ w.credits = CreditRows(read[s], app)
    BY <1>3 DEF Applying
  <2> QED
    BY <1>0, <2>1, <2>2, SettledFacts
<1>4. CASE read[s] # NoDocument /\ read[s].allocated = 0 /\ w = Voiding(read[s])
  <2>1. read[s] \in Document /\ ValidDocument(read[s]) /\ read[s] = documents[id]
    BY <1>0, <1>1, <1>4
  <2>2. w.documents = [read[s] EXCEPT !.status = "void"] /\ w.allocations = {} /\ w.credits = {}
    BY <1>4 DEF Voiding
  <2>3. [read[s] EXCEPT !.status = "void"].allocated = read[s].allocated
    BY <2>1 DEF Document
  <2>4. w.documents \in Document /\ ValidDocument(w.documents)
    BY <2>1, <2>2, VoidedFacts
  <2>5. w.documents.allocated = 0 /\ documents[id].allocated = 0
    BY <1>4, <2>1, <2>2, <2>3
  <2> QED
    BY <1>0, <2>2, <2>4, <2>5
<1> QED
  BY <1>0, <1>2, <1>3, <1>4 DEF Plan

\* The commit changes the document its session has locked and rows of that
\* document, and lets nothing go that another session holds.
LEMMA CommitIInv == ASSUME IInv, NEW s \in Sessions, CommitTx(s) PROVE IInv'
<1> DEFINE id == Target(request[s])
           w  == pending[s]
<1>1. /\ stage[s] = "commit" /\ UNCHANGED request
      /\ documents' = [documents EXCEPT ![id] = w.documents]
      /\ lines' = IF w.lines = <<>> THEN lines ELSE [lines EXCEPT ![id] = w.lines]
      /\ allocations' = allocations \cup w.allocations /\ credits' = credits \cup w.credits
      /\ rowLock' = [d \in Docs |-> IF rowLock[d] = s THEN NoSession ELSE rowLock[d]]
      /\ gapLock' = [gapLock EXCEPT ![s] = {}]
      /\ stage' = [stage EXCEPT ![s] = "idle"] /\ read' = [read EXCEPT ![s] = NoDocument]
      /\ pending' = [pending EXCEPT ![s] = Nothing]
      /\ \E answer \in {"ok", "error"} : reply' = [reply EXCEPT ![s] = answer]
  BY DEF CommitTx, Free, StoreGoto
<1>2. /\ StoreTypeOK /\ Locked(s)
      /\ request[s] \in Requests /\ id \in Docs /\ rowLock[id] = s
      /\ w \in Collections /\ w.documents \in Document /\ ValidDocument(w.documents)
      /\ \A row \in w.allocations \cup w.credits : row.doc = id
      /\ w.allocations # {} => w.documents.allocated > 0
      /\ documents[id] # NoDocument => w.documents.allocated >= documents[id].allocated
  BY <1>1, CommitFacts DEF IInv
<1>3. HisAlone(s)
  BY <1>1, <1>2 DEF HisAlone, StoreTypeOK
<1>4. StoreTypeOK'
  <2>1. /\ w.lines \in Seq(Line) /\ w.allocations \subseteq Allocation
        /\ w.credits \subseteq Credit
    BY <1>2 DEF Collections
  <2>2. Nothing \in Collections
    BY DEF Nothing, Collections
  <2>3. /\ documents' \in [Docs -> Document \cup {NoDocument}]
        /\ \A d \in Docs : documents'[d] # NoDocument => ValidDocument(documents'[d])
    BY <1>1, <1>2 DEF StoreTypeOK
  <2>4. lines' \in [Docs -> Seq(Line)]
    BY <1>1, <1>2, <2>1 DEF StoreTypeOK
  <2>5. rowLock' \in [Docs -> Sessions \cup {NoSession}] /\ gapLock' \in [Sessions -> SUBSET Docs]
    BY <1>1, <1>2 DEF StoreTypeOK
  <2>6. /\ stage' \in [Sessions -> StatementLabels] /\ read' \in [Sessions -> Document \cup {NoDocument}]
        /\ pending' \in [Sessions -> Collections]
        /\ reply' \in [Sessions -> {"none", "ok", "refused", "error"}]
    BY <1>1, <1>2, <2>2 DEF StoreTypeOK, StatementLabels
  <2>7. allocations' \subseteq Allocation /\ credits' \subseteq Credit
    BY <1>1, <1>2, <2>1 DEF StoreTypeOK
  <2>8. request' \in [Sessions -> Requests \cup {NoRequest}]
    BY <1>1, <1>2 DEF StoreTypeOK
  <2> QED
    BY <2>3, <2>4, <2>5, <2>6, <2>7, <2>8 DEF StoreTypeOK
<1>5. Plan(s)' /\ Locked(s)'
  <2>1. stage'[s] = "idle" /\ read'[s] = NoDocument /\ pending'[s] = Nothing
    BY <1>1, <1>2 DEF StoreTypeOK
  <2> QED
    BY <2>1 DEF Plan, Locked, Holding
<1>6. ASSUME NEW q \in Sessions \ {s} PROVE Spares(q)
  <2>1. Locked(q) /\ Plan(q)
    BY DEF IInv
  <2>2. stage[q] # "idle" => Target(request[q]) \in Docs
    BY <2>1, TargetType DEF Plan
  <2>3. /\ stage[q] \in Holding => Target(request[q]) # id /\ rowLock[Target(request[q])] = q
        /\ stage[q] = "insert" => Target(request[q]) # id /\ rowLock[Target(request[q])] = NoSession
    BY <1>2, <2>1 DEF Locked
  <2>4. gapLock'[q] = gapLock[q]
    BY <1>1, <1>2 DEF StoreTypeOK
  <2>5. \A d \in Docs \ {id} : documents'[d] = documents[d]
    BY <1>1, <1>2 DEF StoreTypeOK
  <2>6. \A d \in Docs : rowLock[d] # s => rowLock'[d] = rowLock[d]
    BY <1>1
  <2>7. \A row \in allocations' \cup credits' : row.doc # id => row \in allocations \cup credits
    BY <1>1, <1>2
  <2>8. stage[q] \in Holding \cup {"insert"} => stage[q] # "idle"
    BY DEF Holding
  <2> DEFINE other == Target(request[q])
  <2> HIDE DEF other, id, w
  <2>9. ASSUME stage[q] \in Holding
        PROVE  /\ rowLock'[other] = q /\ documents'[other] = documents[other]
               /\ \A row \in allocations' \cup credits' :
                     row.doc = other => row \in allocations \cup credits
    <3>1. other \in Docs /\ other # id /\ rowLock[other] = q
      BY <2>2, <2>3, <2>8, <2>9 DEF other
    <3> QED
      BY <2>5, <2>6, <2>7, <3>1
  <2>10. ASSUME stage[q] = "insert"
         PROVE  rowLock'[other] = NoSession /\ documents'[other] = documents[other]
    <3>1. other \in Docs /\ other # id /\ rowLock[other] = NoSession
      BY <2>2, <2>3, <2>8, <2>10 DEF other
    <3> QED
      BY <2>5, <2>6, <3>1
  <2> USE DEF other
  <2> QED
    BY <2>4, <2>9, <2>10 DEF Spares
<1>7. RowsAreBacked'
  <2> SUFFICES ASSUME NEW row \in allocations'
               PROVE  documents'[row.doc] # NoDocument /\ documents'[row.doc].allocated > 0
    BY DEF RowsAreBacked
  <2>1. documents'[id] = w.documents /\ w.documents # NoDocument
    BY <1>1, <1>2 DEF StoreTypeOK
  <2>2. w.documents.allocated \in Int
    BY <1>2 DEF Document
  <2>3. CASE row \in w.allocations
    BY <1>2, <2>1, <2>3
  <2>4. CASE row \in allocations /\ row.doc = id
    <3>1. documents[id] # NoDocument /\ documents[id].allocated > 0
      BY <2>4 DEF IInv, RowsAreBacked
    <3>2. documents[id].allocated \in Int
      BY <1>2, <3>1 DEF StoreTypeOK, Document
    <3> QED
      BY <1>2, <2>1, <2>2, <2>4, <3>1, <3>2
  <2>5. CASE row \in allocations /\ row.doc # id
    <3>1. documents[row.doc] # NoDocument /\ documents[row.doc].allocated > 0
      BY <2>5 DEF IInv, RowsAreBacked
    <3>2. row.doc \in Docs
      BY <1>2, <2>5 DEF StoreTypeOK, Allocation
    <3>3. documents'[row.doc] = documents[row.doc]
      BY <1>1, <1>2, <2>5, <3>2 DEF StoreTypeOK
    <3> QED
      BY <3>1, <3>3
  <2> QED
    BY <1>1, <2>3, <2>4, <2>5
<1> QED
  BY <1>3, <1>4, <1>5, <1>6, <1>7, OthersKeep DEF IInv

\* Every step keeps the invariant.
LEMMA NextIInv == IInv /\ [StoreNext]_storeVars => IInv'
<1> SUFFICES ASSUME IInv, [StoreNext]_storeVars PROVE IInv'
  OBVIOUS
<1>1. CASE UNCHANGED storeVars
  BY <1>1 DEF IInv, StoreTypeOK, Plan, Offered, Locked, AlreadyApplied, RowsAreBacked,
              storeVars, tables, session
<1>2. ASSUME NEW s \in Sessions, AskStore(s) \/ Statement(s) \/ FailTx(s) PROVE IInv'
  <2>1. CASE RefuseExisting(s) \/ DeadlockVictim(s) \/ FailTx(s)
    BY <2>1, AbortIInv DEF RefuseExisting, DeadlockVictim, FailTx
  <2>2. CASE LockRow(s)
    BY <2>2, LockRowIInv
  <2>3. CASE LockGap(s)
    BY <2>3, LockGapIInv
  <2>4. CASE InsertDocument(s)
    BY <2>4, InsertDocumentIInv
  <2>5. CASE CommitTx(s)
    BY <2>5, CommitIInv
  <2>6. CASE \/ AskStore(s) \/ InsertLine(s) \/ Settle(s) \/ CheckApplied(s) \/ UpdateSettlement(s)
             \/ InsertAllocation(s) \/ InsertCredit(s) \/ DecideVoid(s)
    BY <2>6, PrivateSteps
  <2> QED
    BY <1>2, <2>1, <2>2, <2>3, <2>4, <2>5, <2>6 DEF Statement
<1> QED
  BY <1>1, <1>2 DEF StoreNext

\* The invariant holds throughout.
THEOREM Invariant == StoreSpec => []IInv
BY InitIInv, NextIInv, PTL DEF StoreSpec

\* Every variable keeps its shape, and every stored document is one Validate
\* accepts (document.go:177-229), whatever the transactions that ran.
THEOREM TypeCorrect == StoreSpec => []StoreTypeOK
BY Invariant, PTL DEF IInv

\* The row a transaction decided from is the committed one until it commits:
\* SELECT ... FOR UPDATE in Create, Apply and Void.
THEOREM DecidedCurrent == StoreSpec => []DecidedOnCurrentRow
<1>1. IInv => DecidedOnCurrentRow
  BY DEF IInv, Locked, DecidedOnCurrentRow
<1> QED
  BY <1>1, Invariant, PTL

-----------------------------------------------------------------------------
(* What a commit is, seen from outside.                                    *)

\* Every step but a commit leaves the committed tables alone.
LEMMA OnlyCommitShows ==
    ASSUME [StoreNext]_storeVars
    PROVE  UNCHANGED tables \/ \E s \in Sessions : CommitTx(s)
<1>1. \A s \in Sessions :
         AskStore(s) \/ InsertLine(s) \/ Settle(s) \/ CheckApplied(s) \/ UpdateSettlement(s)
           => UNCHANGED tables
  BY DEF AskStore, InsertLine, Settle, CheckApplied, UpdateSettlement, Abort
<1>2. \A s \in Sessions :
         LockRow(s) \/ LockGap(s) \/ RefuseExisting(s) \/ InsertDocument(s) \/ DeadlockVictim(s)
           => UNCHANGED tables
  BY DEF LockRow, LockGap, RefuseExisting, InsertDocument, DeadlockVictim, Abort
<1>3. \A s \in Sessions :
         InsertAllocation(s) \/ InsertCredit(s) \/ DecideVoid(s) \/ FailTx(s) => UNCHANGED tables
  BY Zenon DEF InsertAllocation, InsertCredit, DecideVoid, FailTx, Abort
<1>4. UNCHANGED storeVars => UNCHANGED tables
  BY DEF storeVars
<1> QED
  BY <1>1, <1>2, <1>3, <1>4 DEF StoreNext, Statement

\* A commit is one of three: a draft, a payment, or a void.
LEMMA CommitCases ==
    ASSUME IInv, NEW s \in Sessions, CommitTx(s)
    PROVE  \/ \E draft \in Drafts :
                /\ documents[draft.id] = NoDocument /\ CheckNew(draft)
                /\ documents' = [documents EXCEPT ![draft.id] = draft.document]
                /\ lines' = [lines EXCEPT ![draft.id] = draft.lines]
                /\ UNCHANGED <<allocations, credits>>
           \/ \E app \in Applications :
                LET d == documents[app.doc] IN
                /\ d # NoDocument /\ MaySettle(d, app) /\ ~ AlreadyApplied(app)
                /\ documents' = [documents EXCEPT ![app.doc] = Settled(d, app)]
                /\ allocations' = allocations \cup AllocationRows(d, app)
                /\ credits' = credits \cup CreditRows(d, app)
                /\ UNCHANGED lines
           \/ \E id \in Docs :
                /\ documents[id] # NoDocument /\ documents[id].allocated = 0
                /\ documents' = [documents EXCEPT ![id] = [documents[id] EXCEPT !.status = "void"]]
                /\ UNCHANGED <<lines, allocations, credits>>
<1> DEFINE id  == Target(request[s])
           w   == pending[s]
           app == request[s].app
<1>1. /\ stage[s] = "commit"
      /\ documents' = [documents EXCEPT ![id] = w.documents]
      /\ lines' = IF w.lines = <<>> THEN lines ELSE [lines EXCEPT ![id] = w.lines]
      /\ allocations' = allocations \cup w.allocations /\ credits' = credits \cup w.credits
  BY DEF CommitTx
<1>2. /\ StoreTypeOK /\ Plan(s) /\ Locked(s) /\ request[s] \in Requests /\ id \in Docs
      /\ read[s] # NoDocument => read[s] = documents[id]
  BY <1>1, TargetType DEF IInv, Plan, Locked
<1>3. CASE request[s].op = "create" /\ w = Creating(request[s].draft, request[s].draft.lines)
  <2>1. /\ request[s].draft \in Drafts /\ CheckNew(request[s].draft)
        /\ id = request[s].draft.id /\ documents[id] = NoDocument
        /\ request[s].draft.lines # <<>>
    BY <1>1, <1>2, <1>3, RequestFacts, DraftFacts DEF Plan, Locked
  <2>2. /\ w.documents = request[s].draft.document /\ w.lines = request[s].draft.lines
        /\ w.allocations = {} /\ w.credits = {}
    BY <1>3 DEF Creating
  <2>3. /\ lines' = [lines EXCEPT ![id] = request[s].draft.lines]
        /\ UNCHANGED <<allocations, credits>>
    BY <1>1, <2>1, <2>2
  <2> QED
    BY <1>1, <2>1, <2>2, <2>3
<1>4. CASE Offered(s) /\ w = Applying(read[s], app, AllocationRows(read[s], app), CreditRows(read[s], app))
  <2>1. /\ app \in Applications /\ id = app.doc /\ MaySettle(read[s], app)
        /\ read[s] # NoDocument /\ read[s] = documents[id] /\ ~ AlreadyApplied(app)
    BY <1>1, <1>2, <1>4, RequestFacts DEF Offered, Locked
  <2>2. /\ w.documents = Settled(read[s], app) /\ w.lines = <<>>
        /\ w.allocations = AllocationRows(read[s], app) /\ w.credits = CreditRows(read[s], app)
    BY <1>4 DEF Applying
  <2>3. /\ UNCHANGED lines
        /\ documents' = [documents EXCEPT ![app.doc] = Settled(documents[app.doc], app)]
        /\ allocations' = allocations \cup AllocationRows(documents[app.doc], app)
        /\ credits' = credits \cup CreditRows(documents[app.doc], app)
    BY <1>1, <2>1, <2>2
  <2> QED
    BY <2>1, <2>3
<1>5. CASE read[s] # NoDocument /\ read[s].allocated = 0 /\ w = Voiding(read[s])
  <2>1. read[s] = documents[id]
    BY <1>2, <1>5
  <2>2. /\ w.documents = [read[s] EXCEPT !.status = "void"] /\ w.lines = <<>>
        /\ w.allocations = {} /\ w.credits = {}
    BY <1>5 DEF Voiding
  <2>3. /\ UNCHANGED <<lines, allocations, credits>>
        /\ documents' = [documents EXCEPT ![id] = [documents[id] EXCEPT !.status = "void"]]
    BY <1>1, <2>1, <2>2
  <2> QED
    BY <1>2, <1>5, <2>1, <2>3
<1> QED
  BY <1>1, <1>2, <1>3, <1>4, <1>5 DEF Plan

\* No commit takes anything back: rows stay, an allocation only grows, and a
\* void document is never settled or reopened.
THEOREM TakesNothingBack == StoreSpec => NothingIsTakenBack
<1>1. IInv /\ [StoreNext]_storeVars => [NothingTakenBack]_storeVars
  <2> SUFFICES ASSUME IInv, [StoreNext]_storeVars PROVE NothingTakenBack
    OBVIOUS
  <2>0. StoreTypeOK
    BY DEF IInv
  <2>1. CASE UNCHANGED tables
    BY <2>0, <2>1 DEF StoreTypeOK, NothingTakenBack, tables, Document
  <2>2. ASSUME NEW s \in Sessions, CommitTx(s) PROVE NothingTakenBack
    <3>1. ASSUME NEW draft \in Drafts,
                 documents[draft.id] = NoDocument,
                 documents' = [documents EXCEPT ![draft.id] = draft.document],
                 lines' = [lines EXCEPT ![draft.id] = draft.lines],
                 UNCHANGED <<allocations, credits>>
          PROVE  NothingTakenBack
      BY <2>0, <3>1 DEF StoreTypeOK, NothingTakenBack, Document
    <3>2. ASSUME NEW app \in Applications,
                 documents[app.doc] # NoDocument, MaySettle(documents[app.doc], app),
                 documents' = [documents EXCEPT ![app.doc] = Settled(documents[app.doc], app)],
                 allocations' = allocations \cup AllocationRows(documents[app.doc], app),
                 credits' = credits \cup CreditRows(documents[app.doc], app),
                 UNCHANGED lines
          PROVE  NothingTakenBack
      <4> DEFINE d == documents[app.doc]
                 e == Settled(d, app)
      <4>1. app.doc \in Docs /\ d \in Document /\ d.status # "void"
        BY <2>0, <3>2 DEF StoreTypeOK, MaySettle
      <4>2. e \in Document /\ e.allocated >= d.allocated /\ e.total = d.total
        BY <3>2, <4>1, SettledFacts DEF Settled, Document
      <4>3. documents' = [documents EXCEPT ![app.doc] = e]
        BY <3>2
      <4>4. allocations \subseteq allocations' /\ credits \subseteq credits'
        BY <3>2
      <4> HIDE DEF e
      <4>5. documents'[app.doc] = e /\ e # NoDocument
        BY <2>0, <4>1, <4>2, <4>3 DEF StoreTypeOK
      <4>6. \A o \in Docs \ {app.doc} : documents'[o] = documents[o]
        BY <2>0, <4>3 DEF StoreTypeOK
      <4>7. \A o \in Docs : documents[o] # NoDocument => documents[o].allocated \in Int
        BY <2>0 DEF StoreTypeOK, Document
      <4> QED
        BY <3>2, <4>1, <4>2, <4>4, <4>5, <4>6, <4>7 DEF NothingTakenBack
    <3>3. ASSUME NEW id \in Docs, documents[id] # NoDocument,
                 documents' = [documents EXCEPT ![id] = [documents[id] EXCEPT !.status = "void"]],
                 UNCHANGED <<lines, allocations, credits>>
          PROVE  NothingTakenBack
      <4> DEFINE d == documents[id]
      <4>1. d \in Document
        BY <2>0, <3>3 DEF StoreTypeOK
      <4>2. /\ [d EXCEPT !.status = "void"] \in Document
            /\ [d EXCEPT !.status = "void"].total = d.total
            /\ [d EXCEPT !.status = "void"].allocated = d.allocated
            /\ d.status = "void" => [d EXCEPT !.status = "void"] = d
        BY <4>1 DEF Document, Statuses
      <4>3. documents'[id] = [d EXCEPT !.status = "void"]
        BY <2>0, <3>3 DEF StoreTypeOK
      <4>4. /\ documents'[id] \in Document /\ documents'[id].total = d.total
            /\ documents'[id].allocated = d.allocated
            /\ d.status = "void" => documents'[id] = d
        BY <4>2, <4>3
      <4>5. \A o \in Docs \ {id} : documents'[o] = documents[o]
        BY <2>0, <3>3 DEF StoreTypeOK
      <4>6. \A o \in Docs : documents[o] # NoDocument => documents[o].allocated \in Int
        BY <2>0 DEF StoreTypeOK, Document
      <4> QED
        BY <3>3, <4>4, <4>5, <4>6 DEF NothingTakenBack
    <3> QED
      BY <2>2, <3>1, <3>2, <3>3, CommitCases
  <2> QED
    BY <2>1, <2>2, OnlyCommitShows
<1> QED
  BY <1>1, Invariant, PTL DEF StoreSpec, NothingIsTakenBack

-----------------------------------------------------------------------------
(* The rows and the money.                                                 *)

\* The amounts of rows.
RowAmount == [row \in Allocation \cup Credit |-> row.amount]

\* What the rows of a table come to is a sum over them.
LEMMA AmountOver ==
    ASSUME NEW rows \in SUBSET (Allocation \cup Credit)
    PROVE  Amount(rows) = Over(RowAmount, rows)
<1>1. [row \in rows |-> row.amount] = [row \in rows |-> RowAmount[row]]
  BY DEF RowAmount
<1> QED
  BY <1>1 DEF Amount, Over

\* The amount of a row is an integer.
LEMMA RowAmountInt == \A row \in Allocation \cup Credit : RowAmount[row] = row.amount /\ RowAmount[row] \in Int
BY DEF RowAmount, Allocation, Credit

\* The rows a payment leaves are worth the payment, and the document's
\* allocated amount grows by the worth of the first kind.
LEMMA RowsWorth ==
    ASSUME NEW d \in Document, NEW app \in Applications, MaySettle(d, app)
    PROVE  /\ IsFiniteSet(AllocationRows(d, app)) /\ IsFiniteSet(CreditRows(d, app))
           /\ Amount(AllocationRows(d, app)) = Applied(d, app)
           /\ Amount(AllocationRows(d, app)) + Amount(CreditRows(d, app)) = app.amount
           /\ Settled(d, app).allocated = d.allocated + Applied(d, app)
           /\ Applied(d, app) \in Int
           /\ Settled(d, app).currency = d.currency /\ Settled(d, app).status # "void"
           /\ Settled(d, app).allocated > 0
<1>1. /\ app.amount \in Int /\ app.amount > 0 /\ d.status # "void"
      /\ d.total \in Int /\ d.allocated \in Int /\ 0 <= d.allocated /\ d.allocated <= d.total /\ d.total > 0
  BY DEF MaySettle, ValidDocument, Document
<1>2. Outstanding(d) = d.total - d.allocated
  BY <1>1 DEF Outstanding
<1>3. /\ Applied(d, app) \in Int /\ Applied(d, app) >= 0
      /\ Credited(d, app) \in Int /\ Credited(d, app) >= 0
      /\ Applied(d, app) + Credited(d, app) = app.amount
      /\ d.allocated + Applied(d, app) > 0
  BY <1>1, <1>2 DEF Applied, Credited
<1>4. /\ AllocationRows(d, app) \subseteq Allocation \cup Credit
      /\ CreditRows(d, app) \subseteq Allocation \cup Credit
  BY SettledFacts
<1>5. ASSUME NEW row \in Allocation \cup Credit
      PROVE  Amount({row}) = row.amount /\ IsFiniteSet({row})
  <2>1. {row} \in SUBSET (Allocation \cup Credit)
    OBVIOUS
  <2>2. Amount({row}) = Over(RowAmount, {row})
    BY <2>1, AmountOver
  <2>3. Over(RowAmount, {row}) = RowAmount[row]
    BY RowAmountInt, OverOne
  <2> QED
    BY <2>2, <2>3, RowAmountInt, FS_Singleton, Zenon
<1>6. Amount({}) = 0 /\ IsFiniteSet({})
  BY AmountOver, OverEmpty, FS_EmptySet
<1>7. IsFiniteSet(AllocationRows(d, app)) /\ Amount(AllocationRows(d, app)) = Applied(d, app)
  <2>1. CASE Applied(d, app) > 0
    <3> DEFINE row == [id |-> app.id, doc |-> app.doc, payment |-> app.payment,
                       amount |-> Applied(d, app)]
    <3>1. AllocationRows(d, app) = {row} /\ row.amount = Applied(d, app)
      BY <2>1 DEF AllocationRows
    <3> HIDE DEF row
    <3> QED
      BY <1>4, <1>5, <3>1
  <2>2. CASE Applied(d, app) = 0
    BY <1>6, <2>2 DEF AllocationRows
  <2> QED
    BY <1>3, <2>1, <2>2
<1>8. IsFiniteSet(CreditRows(d, app)) /\ Amount(CreditRows(d, app)) = Credited(d, app)
  <2>1. CASE Credited(d, app) > 0
    <3> DEFINE row == [id |-> app.id, doc |-> app.doc, payment |-> app.payment,
                       partner |-> d.partner, amount |-> Credited(d, app)]
    <3>1. CreditRows(d, app) = {row} /\ row.amount = Credited(d, app)
      BY <2>1 DEF CreditRows
    <3> HIDE DEF row
    <3> QED
      BY <1>4, <1>5, <3>1
  <2>2. CASE Credited(d, app) = 0
    BY <1>6, <2>2 DEF CreditRows
  <2> QED
    BY <1>3, <2>1, <2>2
<1>9. /\ Settled(d, app).allocated = d.allocated + Applied(d, app)
      /\ Settled(d, app).currency = d.currency /\ Settled(d, app).status # "void"
  BY <1>3 DEF Settled, Document, StatusFor
<1> QED
  BY <1>3, <1>7, <1>8, <1>9

\* What the book says of a document, its rows and its lines.  A document
\* without an allocation has no row of either kind: a credit is what is left
\* over once the document is paid.
Stands(d) ==
    IF documents[d] = NoDocument
    THEN lines[d] = <<>> /\ Of(allocations \cup credits, d) = {}
    ELSE /\ documents[d].allocated = Amount(Of(allocations, d))
         /\ ValidLines(lines[d], documents[d].currency)
         /\ documents[d].status = "void" => documents[d].allocated = 0
         /\ documents[d].allocated = 0 => Of(allocations \cup credits, d) = {}

Explained == IsFiniteSet(allocations) /\ \A d \in Docs : Stands(d)

\* The rows of an offered payment.
Mine(rows, app) == {row \in rows : row.doc = app.doc /\ row.payment = app.payment}

\* A caller told "ok" is no longer at work, and left a row.
Accounted(app) ==
    /\ Mine(allocations, app) \cup Mine(credits, app) # {}
    /\ Amount(Mine(allocations, app)) + Amount(Mine(credits, app)) = app.amount

Acknowledged ==
    \A s \in Sessions :
        (reply[s] = "ok" /\ request[s].op = "apply") =>
            stage[s] = "idle" /\ Accounted(request[s].app)

\* A new document is explained by its lines, and changes no other.
LEMMA CreateExplained ==
    ASSUME IInv, Explained, NEW draft \in Drafts, documents[draft.id] = NoDocument, CheckNew(draft),
           documents' = [documents EXCEPT ![draft.id] = draft.document],
           lines' = [lines EXCEPT ![draft.id] = draft.lines],
           UNCHANGED <<allocations, credits>>
    PROVE  Explained'
<1>1. /\ draft.id \in Docs /\ draft.document # NoDocument /\ draft.document.allocated = 0
      /\ draft.document.status # "void" /\ ValidLines(draft.lines, draft.document.currency)
  BY DraftFacts DEF CheckNew
<1>2. documents \in [Docs -> Document \cup {NoDocument}] /\ lines \in [Docs -> Seq(Line)]
  BY DEF IInv, StoreTypeOK
<1>3. Of(allocations \cup credits, draft.id) = {} /\ Amount(Of(allocations, draft.id)) = 0
  <2>1. Of(allocations \cup credits, draft.id) = {}
    BY <1>1 DEF Explained, Stands
  <2>2. Of(allocations, draft.id) = {}
    BY <2>1 DEF Of
  <2> QED
    BY <2>1, <2>2, AmountOver, OverEmpty
<1>4. \A d \in Docs : /\ d # draft.id => documents'[d] = documents[d] /\ lines'[d] = lines[d]
                      /\ d = draft.id => documents'[d] = draft.document /\ lines'[d] = draft.lines
  BY <1>1, <1>2
<1>5. \A d \in Docs : Of(allocations', d) = Of(allocations, d)
                      /\ Of(allocations' \cup credits', d) = Of(allocations \cup credits, d)
  OBVIOUS
<1>6. IsFiniteSet(allocations)'
  BY DEF Explained
<1>7. ASSUME NEW d \in Docs, d # draft.id PROVE Stands(d)'
  <2>1. documents'[d] = documents[d] /\ lines'[d] = lines[d] /\ Stands(d)
    BY <1>4, <1>7 DEF Explained
  <2> QED
    BY <2>1, <1>5, Zenon DEF Stands
<1>8. Stands(draft.id)'
  <2>1. /\ documents'[draft.id] = draft.document /\ lines'[draft.id] = draft.lines
        /\ Of(allocations', draft.id) = Of(allocations, draft.id)
        /\ Of(allocations' \cup credits', draft.id) = {}
    BY <1>1, <1>3, <1>4, <1>5
  <2> QED
    BY <1>1, <1>3, <2>1 DEF Stands
<1> QED
  BY <1>6, <1>7, <1>8 DEF Explained

\* A payment adds to a document what its allocation row is worth.
LEMMA ApplyExplained ==
    ASSUME IInv, Explained, NEW app \in Applications, documents[app.doc] # NoDocument,
           MaySettle(documents[app.doc], app), ~ AlreadyApplied(app),
           documents' = [documents EXCEPT ![app.doc] = Settled(documents[app.doc], app)],
           allocations' = allocations \cup AllocationRows(documents[app.doc], app),
           credits' = credits \cup CreditRows(documents[app.doc], app),
           UNCHANGED lines
    PROVE  Explained'
<1> DEFINE id == app.doc
           was == documents[id]
           new == AllocationRows(was, app)
           now == Settled(was, app)
<1>1. /\ documents \in [Docs -> Document \cup {NoDocument}]
      /\ allocations \subseteq Allocation /\ id \in Docs /\ was \in Document
  BY DEF IInv, StoreTypeOK
<1>2. /\ IsFiniteSet(new) /\ Amount(new) = Applied(was, app) /\ Applied(was, app) \in Int
      /\ now.allocated = was.allocated + Applied(was, app) /\ now.allocated > 0
      /\ now.currency = was.currency /\ now.status # "void"
  BY <1>1, RowsWorth
<1>3. /\ new \in SUBSET Allocation /\ now # NoDocument
      /\ \A row \in new \cup CreditRows(was, app) : row.doc = id /\ row.payment = app.payment
  BY <1>1, SettledFacts
<1>4. /\ \A d \in Docs \ {id} : documents'[d] = documents[d]
      /\ documents'[id] = now
  BY <1>1
<1>5. ASSUME NEW d \in Docs \ {id}
      PROVE  Of(allocations', d) = Of(allocations, d) /\ Of(allocations' \cup credits', d) = Of(allocations \cup credits, d)
  BY <1>3 DEF Of
<1>6. IsFiniteSet(allocations)'
  BY <1>2, FS_Union DEF Explained
<1>7. now.allocated = Amount(Of(allocations', id))
  <2> DEFINE old == Of(allocations, id)
  <2>1. Of(allocations', id) = old \cup new /\ old \cap new = {}
    BY <1>3 DEF Of, AlreadyApplied
  <2>2. old \in SUBSET (Allocation \cup Credit) /\ new \in SUBSET (Allocation \cup Credit)
    BY <1>1, <1>3 DEF Of
  <2>3. was.allocated = Amount(old)
    BY <1>1 DEF Explained, Stands
  <2>4. IsFiniteSet(old)
    BY FS_Subset DEF Explained, Of
  <2> HIDE DEF old, new, now, was
  <2>5. old \cup new \in SUBSET (Allocation \cup Credit)
    BY <2>2
  <2>6. Amount(old \cup new) = Over(RowAmount, old \cup new)
    BY <2>5, AmountOver
  <2>7. Over(RowAmount, old \cup new) = Over(RowAmount, old) + Over(RowAmount, new)
    BY <1>2, <2>1, <2>2, <2>4, OverSplit, RowAmountInt
  <2>8. Over(RowAmount, old) = Amount(old) /\ Over(RowAmount, new) = Amount(new)
    BY <2>2, AmountOver
  <2>9. Amount(Of(allocations', id)) = Amount(old) + Amount(new)
    BY <2>1, <2>6, <2>7, <2>8, Zenon
  <2> QED
    BY <1>2, <2>3, <2>9
<1> HIDE DEF id, was, new, now
<1>8. lines' = lines
  OBVIOUS
<1>9. ASSUME NEW d \in Docs, d # id PROVE Stands(d)'
  <2>1. documents'[d] = documents[d] /\ lines'[d] = lines[d] /\ Stands(d)
    BY <1>4, <1>8, <1>9 DEF Explained
  <2> QED
    BY <1>5, <1>9, <2>1, Zenon DEF Stands
<1>10. Stands(id)'
  <2>1. Stands(id) /\ was # NoDocument
    BY <1>1 DEF Explained, was, id
  <2>2. ValidLines(lines'[id], now.currency)
    BY <1>2, <1>8, <2>1, Zenon DEF Stands, was
  <2> QED
    BY <1>2, <1>3, <1>4, <1>7, <2>2 DEF Stands
<1> QED
  BY <1>6, <1>9, <1>10 DEF Explained

\* Voiding a document that nothing was allocated to leaves it without rows.
LEMMA VoidExplained ==
    ASSUME IInv, Explained, NEW id \in Docs, documents[id] # NoDocument, documents[id].allocated = 0,
           documents' = [documents EXCEPT ![id] = [documents[id] EXCEPT !.status = "void"]],
           UNCHANGED <<lines, allocations, credits>>
    PROVE  Explained'
<1>1. documents \in [Docs -> Document \cup {NoDocument}] /\ documents[id] \in Document
  BY DEF IInv, StoreTypeOK
<1> DEFINE voided == [documents[id] EXCEPT !.status = "void"]
<1>2. voided # NoDocument /\ voided.allocated = 0 /\ voided.currency = documents[id].currency
  BY <1>1 DEF Document, Statuses
<1>3. (\A d \in Docs \ {id} : documents'[d] = documents[d]) /\ documents'[id] = voided
  BY <1>1
<1> HIDE DEF voided
<1> QED
  BY <1>2, <1>3 DEF Explained, Stands

\* Every step keeps the documents explained.
LEMMA StepExplained == IInv /\ Explained /\ [StoreNext]_storeVars => Explained'
<1> SUFFICES ASSUME IInv, Explained, [StoreNext]_storeVars PROVE Explained'
  OBVIOUS
<1>1. CASE UNCHANGED tables
  BY <1>1 DEF tables, Explained, Stands
<1>2. ASSUME NEW s \in Sessions, CommitTx(s) PROVE Explained'
  BY <1>2, CommitCases, CreateExplained, ApplyExplained, VoidExplained
<1> QED
  BY <1>1, <1>2, OnlyCommitShows

\* The invariant about rows and money, at every state.
LEMMA AlwaysExplained == StoreSpec => []Explained
<1>1. StoreInit => Explained
  BY FS_EmptySet DEF StoreInit, Explained, Stands, Of
<1> QED
  BY <1>1, StepExplained, Invariant, PTL DEF StoreSpec

\* The header of every document agrees with its rows and lines, through any
\* interleaving of creates, payments, voids, failures and deadlocks.
THEOREM HeaderExplained == StoreSpec => []RowsExplainHeader
<1>1. Explained => RowsExplainHeader
  BY DEF Explained, Stands, RowsExplainHeader
<1> QED
  BY <1>1, AlwaysExplained, PTL

\* Committing a payment accounts for it to the unit.
LEMMA CommitAccounts ==
    ASSUME IInv, NEW s \in Sessions, CommitTx(s), request[s].op = "apply"
    PROVE  Accounted(request[s].app)'
<1> DEFINE app == request[s].app
           d   == read[s]
           new == AllocationRows(d, app)
           left == CreditRows(d, app)
<1>1. /\ stage[s] = "commit" /\ allocations' = allocations \cup pending[s].allocations
      /\ credits' = credits \cup pending[s].credits /\ request' = request
  BY DEF CommitTx
<1>2. /\ Offered(s) /\ pending[s] = Applying(d, app, new, left)
      /\ ~ AlreadyApplied(app) /\ request[s] \in Requests
  BY <1>1 DEF IInv, Plan, Locked
<1>3. app \in Applications /\ d \in Document /\ MaySettle(d, app)
  BY <1>2, RequestFacts DEF Offered, IInv, StoreTypeOK
<1>4. allocations' = allocations \cup new /\ credits' = credits \cup left
  BY <1>1, <1>2 DEF Applying
<1>5. /\ new \cup left # {} /\ Amount(new) + Amount(left) = app.amount
      /\ \A row \in new \cup left : row.doc = app.doc /\ row.payment = app.payment
  BY <1>3, SettledFacts, RowsWorth
<1>6. Mine(allocations', app) = new /\ Mine(credits', app) = left
  BY <1>2, <1>4, <1>5 DEF Mine, AlreadyApplied
<1>7. request'[s].app = app
  BY <1>1
<1> HIDE DEF app, new, left
<1> QED
  BY <1>5, <1>6, <1>7 DEF Accounted

\* Whoever else commits, a payment that is accounted for stays so.
LEMMA StaysAccounted ==
    ASSUME IInv, [StoreNext]_storeVars, NEW app, Accounted(app)
    PROVE  /\ Mine(allocations', app) = Mine(allocations, app)
           /\ Mine(credits', app) = Mine(credits, app)
<1>1. CASE UNCHANGED tables
  BY <1>1 DEF tables
<1>2. CASE UNCHANGED <<allocations, credits>>
  BY <1>2
<1>3. ASSUME NEW paid \in Applications, MaySettle(documents[paid.doc], paid), ~ AlreadyApplied(paid),
             documents[paid.doc] # NoDocument,
             allocations' = allocations \cup AllocationRows(documents[paid.doc], paid),
             credits' = credits \cup CreditRows(documents[paid.doc], paid)
      PROVE  /\ Mine(allocations', app) = Mine(allocations, app)
             /\ Mine(credits', app) = Mine(credits, app)
  <2>1. ~ (paid.doc = app.doc /\ paid.payment = app.payment)
    BY <1>3 DEF Accounted, Mine, AlreadyApplied
  <2>2. documents[paid.doc] \in Document
    BY <1>3 DEF IInv, StoreTypeOK
  <2>3. \A row \in AllocationRows(documents[paid.doc], paid) \cup CreditRows(documents[paid.doc], paid) :
           row.doc = paid.doc /\ row.payment = paid.payment
    BY <1>3, <2>2, SettledFacts
  <2> QED
    BY <1>3, <2>1, <2>3 DEF Mine
<1> QED
  BY <1>1, <1>2, <1>3, OnlyCommitShows, CommitCases

\* What a step answers, it answers one caller; and "ok" to a payment is the
\* answer of a commit alone.
LEMMA OneAnswer ==
    ASSUME IInv, Acknowledged, [StoreNext]_storeVars, NEW q \in Sessions,
           reply'[q] = "ok", request'[q].op = "apply"
    PROVE  \/ CommitTx(q) /\ stage'[q] = "idle" /\ request' = request
           \/ reply[q] = "ok" /\ request'[q] = request[q] /\ stage'[q] = stage[q]
<1>1. StoreTypeOK /\ (reply[q] = "ok" /\ request[q].op = "apply" => stage[q] = "idle")
  BY DEF IInv, Acknowledged
<1>2. CASE UNCHANGED storeVars
  BY <1>2 DEF storeVars, session
<1>3. ASSUME NEW s \in Sessions, s # q, AskStore(s) \/ Statement(s) \/ FailTx(s)
      PROVE  reply[q] = "ok" /\ request'[q] = request[q] /\ stage'[q] = stage[q]
  BY <1>1, <1>3 DEF StoreTypeOK, AskStore, Statement, FailTx, LockRow, LockGap, RefuseExisting, InsertDocument,
     InsertLine, DeadlockVictim, Settle, CheckApplied, UpdateSettlement, InsertAllocation,
     InsertCredit, DecideVoid, CommitTx, Abort, StoreGoto
<1>4. ASSUME NEW s \in Sessions, NEW answer, Abort(s, answer) PROVE request'[s].op = "none"
  BY <1>1, <1>4 DEF StoreTypeOK, Abort, NoRequest
<1>5. CASE AskStore(q)
  BY <1>1, <1>5 DEF StoreTypeOK, AskStore
<1>6. CASE FailTx(q) \/ RefuseExisting(q) \/ DeadlockVictim(q)
  BY <1>4, <1>6 DEF FailTx, RefuseExisting, DeadlockVictim
<1>7. CASE Statement(q) /\ ~ CommitTx(q) /\ ~ RefuseExisting(q) /\ ~ DeadlockVictim(q)
  <2>1. stage[q] # "idle"
    BY <1>7 DEF Statement, LockRow, LockGap, InsertDocument, InsertLine, Settle, CheckApplied,
       UpdateSettlement, InsertAllocation, InsertCredit, DecideVoid
  <2>2. (\E answer \in {"ok", "refused", "error"} : Abort(q, answer)) \/ (reply' = reply /\ request' = request)
    BY <1>7 DEF Statement, LockRow, LockGap, InsertDocument, InsertLine, Settle, CheckApplied,
       UpdateSettlement, InsertAllocation, InsertCredit, DecideVoid
  <2> QED
    BY <1>1, <1>4, <2>1, <2>2
<1>8. CASE CommitTx(q)
  BY <1>1, <1>8 DEF StoreTypeOK, CommitTx, StoreGoto
<1> QED
  BY <1>2, <1>3, <1>5, <1>6, <1>7, <1>8 DEF StoreNext, Statement

\* Every step keeps what was acknowledged accounted for.
LEMMA StepAcknowledged == IInv /\ Acknowledged /\ [StoreNext]_storeVars => Acknowledged'
<1> SUFFICES ASSUME IInv, Acknowledged, [StoreNext]_storeVars, NEW q \in Sessions,
                    reply'[q] = "ok", request'[q].op = "apply"
             PROVE  stage'[q] = "idle" /\ Accounted(request[q].app)'
  BY DEF Acknowledged
<1>1. CASE CommitTx(q) /\ stage'[q] = "idle" /\ request' = request
  BY <1>1, CommitAccounts
<1>2. CASE reply[q] = "ok" /\ request'[q] = request[q] /\ stage'[q] = stage[q]
  <2> DEFINE app == request[q].app
  <2>1. stage[q] = "idle" /\ Accounted(app) /\ request'[q].app = app
    BY <1>2 DEF Acknowledged
  <2>2. Mine(allocations', app) = Mine(allocations, app) /\ Mine(credits', app) = Mine(credits, app)
    BY <2>1, StaysAccounted
  <2> HIDE DEF app
  <2>3. Accounted(app)
    BY <2>1
  <2> QED
    BY <1>2, <2>1, <2>2, <2>3 DEF Accounted
<1> QED
  BY <1>1, <1>2, OneAnswer

\* A caller told its payment was applied finds every unit of it and no unit
\* twice, whoever applied, retried, failed or voided beside it.
THEOREM PaymentAccounted == StoreSpec => []AcknowledgedIsAccounted
<1>1. StoreInit => Acknowledged
  BY DEF StoreInit, Acknowledged
<1>2. Acknowledged => AcknowledgedIsAccounted
  BY DEF Acknowledged, Accounted, Mine, AcknowledgedIsAccounted
<1> QED
  BY <1>1, <1>2, StepAcknowledged, Invariant, PTL DEF StoreSpec

-----------------------------------------------------------------------------
(* The refinement.                                                         *)

\* The book judges and settles a document by the rules the store uses.
LEMMA SameRules ==
    /\ \A draft : Book!CheckNew(draft) <=> CheckNew(draft)
    /\ \A d, app : /\ Book!MaySettle(d, app) <=> MaySettle(d, app)
                   /\ Book!Settled(d, app) = Settled(d, app)
                   /\ Book!AllocationRows(d, app) = AllocationRows(d, app)
                   /\ Book!CreditRows(d, app) = CreditRows(d, app)
<1>1. \A f : Book!Total(f) = Total(f)
  BY DEF Book!Total, Total, Book!SumFunction, SumFunction,
         Book!SumFunctionOnSet, SumFunctionOnSet,
         Book!FoldFunctionOnSet, FoldFunctionOnSet,
         Book!MapThenFoldSet, MapThenFoldSet
<1>2. \A d : Book!ValidDocument(d) <=> ValidDocument(d)
  BY DEF Book!ValidDocument, ValidDocument, Book!StatusFor, StatusFor
<1>3. \A d, app : Book!Applied(d, app) = Applied(d, app)
  BY DEF Book!Applied, Applied, Book!Outstanding, Outstanding
<1>4. \A draft : Book!CheckNew(draft) <=> CheckNew(draft)
  BY <1>1, <1>2 DEF Book!CheckNew, CheckNew, Book!ValidLines, ValidLines,
                    Book!ValidLine, ValidLine
<1>5. \A d, app : Book!MaySettle(d, app) <=> MaySettle(d, app)
  BY <1>2 DEF Book!MaySettle, MaySettle
<1>6. \A d, app : Book!Settled(d, app) = Settled(d, app)
  BY DEF Book!Settled, Settled, Book!Applied, Applied, Book!Outstanding, Outstanding,
         Book!StatusFor, StatusFor
<1>7. \A d, app : Book!AllocationRows(d, app) = AllocationRows(d, app)
  BY <1>3 DEF Book!AllocationRows, AllocationRows
<1>8. \A d, app : Book!CreditRows(d, app) = CreditRows(d, app)
  BY <1>3 DEF Book!CreditRows, CreditRows, Book!Credited, Credited
<1> QED
  BY <1>4, <1>5, <1>6, <1>7, <1>8

\* The rows of a payment stand for the one pair the book records.
LEMMA SettledPair ==
    ASSUME NEW d \in Document, NEW app \in Applications, MaySettle(d, app)
    PROVE  Pairs((allocations \cup AllocationRows(d, app)) \cup (credits \cup CreditRows(d, app)))
              = Pairs(allocations \cup credits) \cup {<<app.doc, app.payment>>}
<1> DEFINE rows == AllocationRows(d, app) \cup CreditRows(d, app)
<1>1. rows # {} /\ \A row \in rows : row.doc = app.doc /\ row.payment = app.payment
  BY SettledFacts
<1>2. Pairs(rows) = {<<app.doc, app.payment>>}
  BY <1>1 DEF Pairs
<1>3. Pairs((allocations \cup AllocationRows(d, app)) \cup (credits \cup CreditRows(d, app)))
         = Pairs(allocations \cup credits) \cup Pairs(rows)
  BY DEF Pairs
<1> QED
  BY <1>2, <1>3

\* The empty tables are the empty book.
LEMMA InitRefines == StoreInit => Book!Init
BY DEF StoreInit, Book!Init, Pairs

\* Every step is a step of the book or shows nothing.
LEMMA StepRefines == IInv /\ [StoreNext]_storeVars => [Book!Next]_(Book!vars)
<1> SUFFICES ASSUME IInv, [StoreNext]_storeVars PROVE [Book!Next]_(Book!vars)
  OBVIOUS
<1>0. StoreTypeOK /\ RowsAreBacked
  BY DEF IInv
<1>1. CASE UNCHANGED tables
  BY <1>1 DEF tables, Book!vars, Pairs
<1>2. ASSUME NEW draft \in Drafts,
             documents[draft.id] = NoDocument, CheckNew(draft),
             documents' = [documents EXCEPT ![draft.id] = draft.document],
             lines' = [lines EXCEPT ![draft.id] = draft.lines],
             UNCHANGED <<allocations, credits>>
      PROVE  Book!Create(draft)
  BY <1>2, SameRules DEF Book!Create, Pairs
<1>3. ASSUME NEW app \in Applications,
             documents[app.doc] # NoDocument, MaySettle(documents[app.doc], app),
             ~ AlreadyApplied(app),
             documents' = [documents EXCEPT ![app.doc] = Settled(documents[app.doc], app)],
             allocations' = allocations \cup AllocationRows(documents[app.doc], app),
             credits' = credits \cup CreditRows(documents[app.doc], app),
             UNCHANGED lines
      PROVE  Book!Apply(app)
  <2>1. documents[app.doc] \in Document
    BY <1>0, <1>3 DEF StoreTypeOK
  <2>2. <<app.doc, app.payment>> \notin Pairs(allocations \cup credits)
    BY <1>3 DEF AlreadyApplied, Pairs
  <2>3. Pairs(allocations' \cup credits')
           = Pairs(allocations \cup credits) \cup {<<app.doc, app.payment>>}
    BY <1>3, <2>1, SettledPair
  <2> QED
    BY <1>3, <2>2, <2>3, SameRules DEF Book!Apply, Pairs
<1>4. ASSUME NEW id \in Docs, documents[id] # NoDocument, documents[id].allocated = 0,
             documents' = [documents EXCEPT ![id] = [documents[id] EXCEPT !.status = "void"]],
             UNCHANGED <<lines, allocations, credits>>
      PROVE  Book!Void(id)
  <2>1. \A row \in allocations : row.doc # id
    BY <1>0, <1>4 DEF RowsAreBacked
  <2> QED
    BY <1>4, <2>1 DEF Book!Void, Pairs
<1>5. ASSUME NEW s \in Sessions, CommitTx(s) PROVE Book!Next
  BY <1>2, <1>3, <1>4, <1>5, CommitCases DEF Book!Next
<1> QED
  BY <1>1, <1>5, OnlyCommitShows

\* documentstore.Store is a document.Repository: transactions that overlap in
\* any way leave what one mutex-held book would leave, one operation per commit.
THEOREM Implements == StoreSpec => ImplementsBook
BY InitRefines, StepRefines, Invariant, PTL DEF StoreSpec, ImplementsBook, Book!Spec
=============================================================================
