------------------------------ MODULE Settlement ------------------------------
(***************************************************************************)
(* The practice desk's documents: domain/document, its store documentrepo  *)
(* and Client.Settle, which reads a partner's documents, reads what has    *)
(* been allocated to them, plans, and writes the plan in one transaction.  *)
(*                                                                         *)
(* What stands behind the plan is the trigger                              *)
(* allocations_do_not_exceed_document.  InnoDB runs the SELECT of a        *)
(* trigger as a locking read of the INSERT it belongs to: it waits for an  *)
(* uncommitted row of the document, and keeps its lock until the           *)
(* transaction ends.                                                       *)
(***************************************************************************)
EXTENDS Totals, Integers, FiniteSets

CONSTANTS
    Papers,         \* documents that may be recorded
    Receipts,       \* payments: partner, voucher and amount
    Clerks,         \* callers at work at once
    MaxAttempts     \* bound: settlements a behaviour begins

Kinds == {"sales invoice", "purchase invoice", "credit note"}

\* References are ranked; 0 is none.
Paper == [partner : STRING, kind : STRING, reference : Nat, day : Nat, amount : Int]

ASSUME PapersAssumption == Papers \subseteq Paper
ASSUME ReceiptsAssumption == Receipts \subseteq [partner : STRING, voucher : STRING, amount : Int]

VARIABLES
    issued,         \* the documents table
    allocated,      \* committed allocations, each with what its call had read
    settling,       \* what each clerk is at
    attempts        \* settlements begun

settlementVars == <<issued, allocated, settling, attempts>>

AtDesk == [pc |-> "idle"]

SettlementInit ==
    /\ issued = {} /\ allocated = {} /\ attempts = 0
    /\ settling = [c \in Clerks |-> AtDesk]

-----------------------------------------------------------------------------
(* domain/document. *)

ValidPaper(d) == d.partner # "" /\ d.kind \in Kinds /\ d.reference # 0 /\ d.amount >= 0

Older(d, e) == d.day < e.day \/ (d.day = e.day /\ d.reference < e.reference)

\* Mutant: the newest document first.
Younger(d, e) == Older(e, d)

OldestFirst(d, e) == Older(d, e)

Allocating(d, amount) == [paper |-> d, amount |-> amount]

\* The orders a stable sort may leave papers in: two of the same day and
\* reference, of different kinds, stand as the query returned them.
Orderings(papers) ==
    {order \in [1 .. Cardinality(papers) -> papers] :
        \A i, j \in DOMAIN order : i < j =>
            order[i] # order[j] /\ ~OldestFirst(order[j], order[i])}

\* What a document takes of the money that is left.
Applied(left, owed) == IF owed <= 0 THEN 0 ELSE IF left < owed THEN left ELSE owed

\* PlanAllocation: each document in turn takes what it still owes, as long as
\* there is money left.  A row of the plan is known by the document's place.
PlanAllocation(payment, owed, order) ==
    LET due == [i \in DOMAIN order |-> owed[order[i]]]
        remaining[i \in 0 .. Cardinality(DOMAIN owed)] ==
            IF i = 0 THEN payment ELSE remaining[i - 1] - Applied(remaining[i - 1], due[i])
        amount == [i \in DOMAIN order |-> Applied(remaining[i - 1], due[i])]
    IN  [i \in {j \in DOMAIN order : amount[j] > 0} |-> Allocating(order[i], amount[i])]

-----------------------------------------------------------------------------
(* documentrepo. *)

\* One paper of a kind and reference for each partner.
Recorded(d) ==
    \E e \in issued : e.partner = d.partner /\ e.kind = d.kind /\ e.reference = d.reference

IssueDocument(d) ==
    /\ ValidPaper(d) /\ ~Recorded(d)
    /\ issued' = issued \cup {d}
    /\ UNCHANGED <<allocated, settling, attempts>>

SettledOn(d, rows) == Total([r \in {s \in rows : s.paper = d} |-> r.amount])

Step(c, step) == settling' = [settling EXCEPT ![c] = step]

\* Settle reads the documents of a partner, of every kind.
ReadPapers(c, payment) ==
    /\ settling[c] = AtDesk /\ attempts < MaxAttempts
    /\ Step(c, [pc |-> "owed", payment |-> payment, call |-> attempts + 1,
                 papers |-> {d \in issued : d.partner = payment.partner}])
    /\ attempts' = attempts + 1
    /\ UNCHANGED <<issued, allocated>>

\* Then what has been allocated to them, and plans over the difference.
ReadOwed(c) ==
    LET now == settling[c]
        owed == [d \in now.papers |-> d.amount - SettledOn(d, allocated)]
    IN  /\ now.pc = "owed"
        /\ now.payment.amount > 0
        /\ \E order \in Orderings(now.papers) :
            LET plan == PlanAllocation(now.payment.amount, owed, order) IN
            Step(c, IF DOMAIN plan = {} THEN AtDesk
                    ELSE [pc |-> "check", payment |-> now.payment, papers |-> now.papers,
                          plan |-> plan, waiting |-> DOMAIN plan, call |-> now.call,
                          written |-> {}, sharing |-> {}])
        /\ UNCHANGED <<issued, allocated, attempts>>

InTransaction(c) == settling[c].pc \in {"check", "insert", "commit"}

\* The row of the plan that comes next, with what its call had read.
FirstPlace(places) == CHOOSE i \in places : \A j \in places : i <= j
NextRow(c) ==
    LET now == settling[c]
        next == now.plan[FirstPlace(now.waiting)]
    IN  [paper |-> next.paper, amount |-> next.amount, voucher |-> now.payment.voucher,
         seen |-> now.papers, plan |-> now.plan, call |-> now.call]

\* What the trigger adds up: committed rows, and those of its own transaction.
Allowed(c, row) ==
    SettledOn(row.paper, allocated \cup settling[c].written) + row.amount <= row.paper.amount

\* Mutant: the trigger reads a snapshot, which waits for nobody and locks nothing.
CheckRowUnlocked(c) ==
    /\ settling[c].pc = "check"
    /\ Allowed(c, NextRow(c))
    /\ Step(c, [settling[c] EXCEPT !.pc = "insert"])
    /\ UNCHANGED <<issued, allocated, attempts>>

\* The trigger's reading waits for rows of the document that are not committed.
CheckRow(c) ==
    LET row == NextRow(c) IN
    /\ settling[c].pc = "check"
    /\ \A o \in Clerks \ {c} : InTransaction(o) => ~\E r \in settling[o].written : r.paper = row.paper
    /\ Allowed(c, row)
    /\ Step(c, [settling[c] EXCEPT !.pc = "insert", !.sharing = @ \cup {row.paper}])
    /\ UNCHANGED <<issued, allocated, attempts>>

\* uq_allocations: a payment is allocated to a document once.
Repeated(row) == \E r \in allocated : r.paper = row.paper /\ r.voucher = row.voucher

\* The row itself waits for readers of the document; two readers wait for one
\* another, and one of them fails.
InsertRow(c) ==
    LET row == NextRow(c)
        waiting == settling[c].waiting \ {FirstPlace(settling[c].waiting)}
    IN  /\ settling[c].pc = "insert"
        /\ \A o \in Clerks \ {c} : InTransaction(o) => row.paper \notin settling[o].sharing
        /\ ~Repeated(row)
        /\ Step(c, [settling[c] EXCEPT !.pc = IF waiting = {} THEN "commit" ELSE "check",
                                      !.written = @ \cup {row}, !.waiting = waiting])
        /\ UNCHANGED <<issued, allocated, attempts>>

CommitPlan(c) ==
    /\ settling[c].pc = "commit"
    /\ allocated' = allocated \cup settling[c].written
    /\ Step(c, AtDesk)
    /\ UNCHANGED <<issued, attempts>>

\* The trigger or the unique key refuses, a deadlock, an error, a crash.
SettleFails(c) ==
    /\ settling[c] # AtDesk
    /\ Step(c, AtDesk)
    /\ UNCHANGED <<issued, allocated, attempts>>

SettlementNext ==
    \/ \E d \in Papers : IssueDocument(d)
    \/ \E c \in Clerks :
        \/ \E payment \in Receipts : ReadPapers(c, payment)
        \/ ReadOwed(c) \/ CheckRow(c) \/ InsertRow(c) \/ CommitPlan(c) \/ SettleFails(c)

SettlementSpec == SettlementInit /\ [][SettlementNext]_settlementVars

-----------------------------------------------------------------------------
(* Properties. *)

\* 30_allocations_do_not_exceed_document.sql: however many payments plan over
\* the same reading of what is owed, no document is settled beyond its amount.
NothingOverSettled == \A d \in issued : SettledOn(d, allocated) <= d.amount

\* documentrepo.Allocate, PlanAllocation: what a payment settled is the whole of
\* its plan, and every document it had read that is older than one it settled
\* is settled in full, whatever was paid beside it since.
OldestSettledFirst ==
    \A r \in allocated :
        /\ \A i \in DOMAIN r.plan :
            \E s \in allocated : s.call = r.call /\ Allocating(s.paper, s.amount) = r.plan[i]
        /\ \A d \in r.seen : Older(d, r.paper) => SettledOn(d, allocated) = d.amount
===============================================================================
