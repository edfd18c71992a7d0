---------------------------- MODULE DocumentStore ----------------------------
(***************************************************************************)
(* documentstore.Store: the document book over MariaDB.  Callers run       *)
(* Create, Apply and Void at the same time, each in a transaction of its   *)
(* own, and every statement of a transaction is a step.  The document row  *)
(* is read FOR UPDATE before anything is decided.                          *)
(*                                                                         *)
(* InnoDB is modelled from how the store uses it: an exclusive row lock    *)
(* held to the end of the transaction, a gap lock when the row asked for   *)
(* is not there (gap locks do not exclude one another, they only hold      *)
(* inserts off), unique keys, writes nobody else sees before the commit,   *)
(* and a deadlock victim rolled back.                                      *)
(***************************************************************************)
EXTENDS DocumentRules

CONSTANTS
    Sessions,       \* callers, one transaction each at a time
    NoSession

ASSUME NoSessionAssumption == NoSession \notin Sessions

VARIABLES
    documents,      \* id -> the committed row, or NoDocument
    lines,          \* id -> its committed lines
    allocations,    \* committed rows
    credits,        \* committed rows
    rowLock,        \* id -> the session holding its row, or NoSession
    gapLock,        \* session -> the missing ids its locked read fenced off
    request,        \* session -> what its caller asked for
    stage,          \* session -> the statement it runs next
    read,           \* session -> the row its locked read returned
    pending,        \* session -> its uncommitted writes
    reply           \* session -> what its caller was told last

tables  == <<documents, lines, allocations, credits>>
session == <<request, stage, read, pending, reply>>
storeVars == <<tables, rowLock, gapLock, session>>

Requests ==
         [op : {"create"}, draft : Drafts]
    \cup [op : {"apply"}, app : Applications]
    \cup [op : {"void"}, doc : Docs]

NoRequest == [op |-> "none"]

StatementLabels == {"idle", "lock", "decide", "insert", "lines", "check", "update",
                    "allocate", "credit", "commit"}

Target(r) == CASE r.op = "create" -> r.draft.id
               [] r.op = "apply"  -> r.app.doc
               [] r.op = "void"   -> r.doc

Nothing == [documents |-> NoDocument, lines |-> <<>>,
            allocations |-> {}, credits |-> {}]

StoreInit ==
    /\ documents = [d \in Docs |-> NoDocument]
    /\ lines = [d \in Docs |-> <<>>]
    /\ allocations = {} /\ credits = {}
    /\ rowLock = [d \in Docs |-> NoSession]
    /\ gapLock = [s \in Sessions |-> {}]
    /\ request = [s \in Sessions |-> NoRequest]
    /\ stage   = [s \in Sessions |-> "idle"]
    /\ read    = [s \in Sessions |-> NoDocument]
    /\ pending = [s \in Sessions |-> Nothing]
    /\ reply   = [s \in Sessions |-> "none"]

-----------------------------------------------------------------------------
(* InnoDB.                                                                 *)

\* Ids with a row, a row another transaction has not committed included.
Present == {d \in Docs : documents[d] # NoDocument \/ rowLock[d] # NoSession}

\* The gap between two neighbouring keys that a missing id lies in.
Gap(id) == {e \in Docs \ Present : \A k \in Present : (k < id) <=> (k < e)}

\* Whose gap lock an insert of this id waits for.
Fencing(s, id) == {t \in Sessions \ {s} : id \in gapLock[t]}

\* Mutant: a gap lock outlives its transaction.
FreeRows(s) ==
    /\ rowLock' = [d \in Docs |-> IF rowLock[d] = s THEN NoSession ELSE rowLock[d]]
    /\ UNCHANGED gapLock

Free(s) ==
    /\ rowLock' = [d \in Docs |-> IF rowLock[d] = s THEN NoSession ELSE rowLock[d]]
    /\ gapLock' = [gapLock EXCEPT ![s] = {}]

\* The deferred Rollback, and the answer the caller gets.
Abort(s, answer) ==
    /\ Free(s)
    /\ stage' = [stage EXCEPT ![s] = "idle"]
    /\ read' = [read EXCEPT ![s] = NoDocument]
    /\ pending' = [pending EXCEPT ![s] = Nothing]
    /\ request' = [request EXCEPT ![s] = NoRequest]
    /\ reply' = [reply EXCEPT ![s] = answer]
    /\ UNCHANGED tables

StoreGoto(s, label) == stage' = [stage EXCEPT ![s] = label]

-----------------------------------------------------------------------------
(* A caller asks.  Create refuses a bad draft before it opens a            *)
(* transaction.                                                            *)

AskStore(s) ==
    /\ stage[s] = "idle"
    /\ \E r \in Requests :
         /\ LET refused == r.op = "create" /\ ~ CheckNew(r.draft) IN
            /\ request' = [request EXCEPT ![s] = IF refused THEN NoRequest ELSE r]
            /\ reply' = [reply EXCEPT ![s] = IF refused THEN "refused" ELSE "none"]
            /\ StoreGoto(s, IF refused THEN "idle" ELSE "lock")
    /\ UNCHANGED <<tables, rowLock, gapLock, read, pending>>

\* Mutant: a plain SELECT, which neither waits nor locks.
ReadRow(s) ==
    LET id == Target(request[s]) IN
    /\ stage[s] = "lock"
    /\ documents[id] # NoDocument
    /\ read' = [read EXCEPT ![s] = documents[id]]
    /\ StoreGoto(s, "decide")
    /\ UNCHANGED <<tables, rowLock, gapLock, request, pending, reply>>

\* SELECT ... FOR UPDATE finds the row: latest committed, and locked.
LockRow(s) ==
    LET id == Target(request[s]) IN
    /\ stage[s] = "lock"
    /\ documents[id] # NoDocument /\ rowLock[id] = NoSession
    /\ rowLock' = [rowLock EXCEPT ![id] = s]
    /\ read' = [read EXCEPT ![s] = documents[id]]
    /\ StoreGoto(s, "decide")
    /\ UNCHANGED <<tables, gapLock, request, pending, reply>>

\* It finds none, and locks the gap.  Only Create goes on from here; Apply
\* and Void answer ErrUnknownDocument and roll back.
LockGap(s) ==
    LET id == Target(request[s]) IN
    /\ stage[s] = "lock"
    /\ documents[id] = NoDocument /\ rowLock[id] = NoSession
    /\ IF request[s].op = "create"
       THEN /\ gapLock' = [gapLock EXCEPT ![s] = Gap(id)]
            /\ StoreGoto(s, "insert")
            /\ UNCHANGED <<tables, rowLock, request, read, pending, reply>>
       ELSE Abort(s, "refused")

-----------------------------------------------------------------------------
(* Create                                                                  *)

RefuseExisting(s) ==
    /\ stage[s] = "decide" /\ request[s].op = "create"
    /\ Abort(s, "refused")

InsertDocument(s) ==
    LET id == Target(request[s]) IN
    /\ stage[s] = "insert"
    /\ Fencing(s, id) = {}
    /\ rowLock' = [rowLock EXCEPT ![id] = s]
    /\ pending' = [pending EXCEPT ![s].documents = request[s].draft.document]
    /\ StoreGoto(s, "lines")
    /\ UNCHANGED <<tables, gapLock, request, read, reply>>

InsertLine(s) ==
    LET ls == request[s].draft.lines
        next == Len(pending[s].lines) + 1
    IN
    /\ stage[s] = "lines"
    /\ pending' = [pending EXCEPT ![s].lines = Append(@, ls[next])]
    /\ StoreGoto(s, IF next = Len(ls) THEN "commit" ELSE "lines")
    /\ UNCHANGED <<tables, rowLock, gapLock, request, read, reply>>

\* Two inserts that each wait for the other's gap lock: InnoDB rolls one back.
DeadlockVictim(s) ==
    /\ stage[s] = "insert"
    /\ \E t \in Fencing(s, Target(request[s])) :
         stage[t] = "insert" /\ s \in Fencing(t, Target(request[t]))
    /\ Abort(s, "error")

-----------------------------------------------------------------------------
(* Apply                                                                   *)

\* Mutant: a payment may be offered again.
NeverApplied(app) == FALSE

\* The two counts behind alreadyApplied.  They are the transaction's first
\* plain reads, so they see what was committed when they ran, and they ran
\* after the row was locked.
AlreadyApplied(app) ==
    \E row \in allocations \cup credits :
        row.doc = app.doc /\ row.payment = app.payment

Settle(s) ==
    LET app == request[s].app IN
    /\ stage[s] = "decide" /\ request[s].op = "apply"
    /\ IF MaySettle(read[s], app)
       THEN /\ StoreGoto(s, "check")
            /\ UNCHANGED <<tables, rowLock, gapLock, request, read, pending, reply>>
       ELSE Abort(s, "refused")

CheckApplied(s) ==
    /\ stage[s] = "check"
    /\ IF AlreadyApplied(request[s].app)
       THEN Abort(s, "refused")
       ELSE /\ StoreGoto(s, "update")
            /\ UNCHANGED <<tables, rowLock, gapLock, request, read, pending, reply>>

UpdateSettlement(s) ==
    /\ stage[s] = "update"
    /\ pending' = [pending EXCEPT ![s].documents = Settled(read[s], request[s].app)]
    /\ StoreGoto(s, "allocate")
    /\ UNCHANGED <<tables, rowLock, gapLock, request, read, reply>>

\* A unique key: an insert waits for another transaction's uncommitted row
\* and fails on a committed one.  Both tables are keyed by the application
\* and by the (document, payment) pair.
Collides(row, other) ==
    row.id = other.id \/ (row.doc = other.doc /\ row.payment = other.payment)

Clash(rows, others) == \E row \in rows, other \in others : Collides(row, other)

InsertAllocation(s) ==
    LET rows == AllocationRows(read[s], request[s].app) IN
    /\ stage[s] = "allocate"
    /\ \A t \in Sessions \ {s} : ~ Clash(rows, pending[t].allocations)
    /\ IF Clash(rows, allocations)
       THEN Abort(s, "error")
       ELSE /\ pending' = [pending EXCEPT ![s].allocations = rows]
            /\ StoreGoto(s, "credit")
            /\ UNCHANGED <<tables, rowLock, gapLock, request, read, reply>>

InsertCredit(s) ==
    LET rows == CreditRows(read[s], request[s].app) IN
    /\ stage[s] = "credit"
    /\ \A t \in Sessions \ {s} : ~ Clash(rows, pending[t].credits)
    /\ IF Clash(rows, credits)
       THEN Abort(s, "error")
       ELSE /\ pending' = [pending EXCEPT ![s].credits = rows]
            /\ StoreGoto(s, "commit")
            /\ UNCHANGED <<tables, rowLock, gapLock, request, read, reply>>

-----------------------------------------------------------------------------
(* Void                                                                    *)

\* Mutant: a document is voided whatever has been allocated to it.
DecideVoidAny(s) ==
    /\ stage[s] = "decide" /\ request[s].op = "void"
    /\ pending' = [pending EXCEPT ![s].documents = [read[s] EXCEPT !.status = "void"]]
    /\ StoreGoto(s, "commit")
    /\ UNCHANGED <<tables, rowLock, gapLock, request, read, reply>>

DecideVoid(s) ==
    /\ stage[s] = "decide" /\ request[s].op = "void"
    /\ CASE read[s].allocated # 0 -> Abort(s, "refused")
         [] read[s].allocated = 0 /\ read[s].status = "void" -> Abort(s, "ok")
         [] OTHER -> /\ pending' = [pending EXCEPT ![s].documents = [read[s] EXCEPT !.status = "void"]]
                     /\ StoreGoto(s, "commit")
                     /\ UNCHANGED <<tables, rowLock, gapLock, request, read, reply>>

-----------------------------------------------------------------------------
(* The end of a transaction.                                               *)

\* Everything becomes visible at once and the locks go.  The answer may be
\* lost on its way back: the caller is told of an error, the work stands.
CommitTx(s) ==
    LET id == Target(request[s])  w == pending[s] IN
    /\ stage[s] = "commit"
    /\ documents' = [documents EXCEPT ![id] = w.documents]
    /\ lines' = IF w.lines = <<>> THEN lines ELSE [lines EXCEPT ![id] = w.lines]
    /\ allocations' = allocations \cup w.allocations
    /\ credits' = credits \cup w.credits
    /\ Free(s)
    /\ \E answer \in {"ok", "error"} : reply' = [reply EXCEPT ![s] = answer]
    /\ StoreGoto(s, "idle")
    /\ read' = [read EXCEPT ![s] = NoDocument]
    /\ pending' = [pending EXCEPT ![s] = Nothing]
    /\ UNCHANGED request

\* A statement fails, the context is cancelled, the lock wait times out or
\* the connection drops, anywhere in the transaction.
FailTx(s) ==
    /\ stage[s] # "idle"
    /\ Abort(s, "error")

Statement(s) ==
    \/ LockRow(s) \/ LockGap(s)
    \/ RefuseExisting(s) \/ InsertDocument(s) \/ InsertLine(s) \/ DeadlockVictim(s)
    \/ Settle(s) \/ CheckApplied(s) \/ UpdateSettlement(s)
    \/ InsertAllocation(s) \/ InsertCredit(s)
    \/ DecideVoid(s)
    \/ CommitTx(s)

StoreNext == \E s \in Sessions : AskStore(s) \/ Statement(s) \/ FailTx(s)

StoreSpec == StoreInit /\ [][StoreNext]_storeVars

\* InnoDB grants a waited-for lock in turn, so a statement that can run again
\* and again runs; nothing is assumed of callers, and nothing of failures.
StoreFairSpec == StoreSpec /\ \A s \in Sessions : SF_storeVars(Statement(s))

-----------------------------------------------------------------------------
(* Properties.                                                             *)

Collections == [documents   : Document \cup {NoDocument},
                lines       : Seq(Line),
                allocations : SUBSET Allocation,
                credits     : SUBSET Credit]

\* Every variable keeps its shape, and a stored document is one Validate
\* accepts: allocated between nothing and the total, status to match.
StoreTypeOK ==
    /\ documents \in [Docs -> Document \cup {NoDocument}]
    /\ \A d \in Docs : documents[d] # NoDocument => ValidDocument(documents[d])
    /\ lines \in [Docs -> Seq(Line)]
    /\ allocations \subseteq Allocation /\ credits \subseteq Credit
    /\ rowLock \in [Docs -> Sessions \cup {NoSession}]
    /\ gapLock \in [Sessions -> SUBSET Docs]
    /\ request \in [Sessions -> Requests \cup {NoRequest}]
    /\ stage \in [Sessions -> StatementLabels]
    /\ read \in [Sessions -> Document \cup {NoDocument}]
    /\ pending \in [Sessions -> Collections]
    /\ reply \in [Sessions -> {"none", "ok", "refused", "error"}]

Amount(rows) == Total([row \in rows |-> row.amount])

Of(rows, id) == {row \in rows : row.doc = id}

\* The header agrees with the rows behind it: what a document says has been
\* allocated is the sum of its allocation rows, a document stands with all its
\* lines or not at all, and nothing hangs from a document that is not there.
RowsExplainHeader ==
    \A d \in Docs :
        IF documents[d] = NoDocument
        THEN lines[d] = <<>> /\ Of(allocations \cup credits, d) = {}
        ELSE /\ documents[d].allocated = Amount(Of(allocations, d))
             /\ ValidLines(lines[d], documents[d].currency)
             /\ documents[d].status = "void" => Of(allocations \cup credits, d) = {}

\* A caller told its payment was applied can find every unit of it, as money
\* the document absorbed or as a credit, and no unit twice: whoever else
\* applied, retried or failed in the meantime.
AcknowledgedIsAccounted ==
    \A s \in Sessions :
        (reply[s] = "ok" /\ request[s].op = "apply") =>
            LET app == request[s].app
                Mine(rows) == {row \in rows : row.doc = app.doc /\ row.payment = app.payment}
            IN  Amount(Mine(allocations)) + Amount(Mine(credits)) = app.amount

\* What a transaction decides from is still the committed row when it writes:
\* between the locked read and the commit nobody else moved the document.
DecidedOnCurrentRow ==
    \A s \in Sessions :
        read[s] # NoDocument => read[s] = documents[Target(request[s])]

\* No step takes back what was settled: rows stay, a document keeps its id,
\* total and lines, its allocated amount never falls, and void is for good.
NothingTakenBack ==
    /\ allocations \subseteq allocations' /\ credits \subseteq credits'
    /\ \A d \in Docs : documents[d] # NoDocument =>
          /\ documents'[d] # NoDocument
          /\ documents'[d].total = documents[d].total /\ lines'[d] = lines[d]
          /\ documents'[d].allocated >= documents[d].allocated
          /\ documents[d].status = "void" => documents'[d] = documents[d]

NothingIsTakenBack == [][NothingTakenBack]_storeVars

\* MemoryRepository keeps the applied pairs in a map; here they are the rows.
Pairs(rows) == {<<row.doc, row.payment>> : row \in rows}

Book == INSTANCE DocumentBook WITH applications <- Pairs(allocations \cup credits)

\* Concurrent transactions over the tables behave as the mutex-held book does:
\* every commit is one of its operations, and nothing else shows.
ImplementsBook == Book!Spec

\* Every caller gets an answer: no lock is waited for for ever, and a deadlock
\* is broken.
EveryTxAnswered == \A s \in Sessions : []<>(stage[s] = "idle")
=============================================================================
