---------------------------- MODULE DocumentBook ----------------------------
(***************************************************************************)
(* What a document book promises: document.Repository, as the mutex-held   *)
(* document.MemoryRepository keeps it.  A document is created open with    *)
(* balanced lines, payments are applied to it, and it may be voided while  *)
(* nothing has been allocated.  Every operation is one atomic step.        *)
(***************************************************************************)
EXTENDS DocumentRules

VARIABLES
    documents,      \* id -> document, or NoDocument
    lines,          \* id -> the lines it was created with
    allocations,    \* rows: a payment applied to a document
    credits,        \* rows: what a payment left over
    applications    \* the (document, payment) pairs already applied

vars == <<documents, lines, allocations, credits, applications>>

-----------------------------------------------------------------------------

Init ==
    /\ documents = [d \in Docs |-> NoDocument]
    /\ lines = [d \in Docs |-> <<>>]
    /\ allocations = {} /\ credits = {} /\ applications = {}

Create(draft) ==
    /\ documents[draft.id] = NoDocument
    /\ CheckNew(draft)
    /\ documents' = [documents EXCEPT ![draft.id] = draft.document]
    /\ lines' = [lines EXCEPT ![draft.id] = draft.lines]
    /\ UNCHANGED <<allocations, credits, applications>>

Apply(app) ==
    LET d == documents[app.doc] IN
    /\ d # NoDocument
    /\ <<app.doc, app.payment>> \notin applications
    /\ MaySettle(d, app)
    /\ documents' = [documents EXCEPT ![app.doc] = Settled(d, app)]
    /\ applications' = applications \cup {<<app.doc, app.payment>>}
    /\ allocations' = allocations \cup AllocationRows(d, app)
    /\ credits' = credits \cup CreditRows(d, app)
    /\ UNCHANGED lines

Void(id) ==
    /\ documents[id] # NoDocument
    /\ documents[id].allocated = 0
    /\ \A row \in allocations : row.doc # id
    /\ documents' = [documents EXCEPT ![id].status = "void"]
    /\ UNCHANGED <<lines, allocations, credits, applications>>

Next ==
    \/ \E draft \in Drafts : Create(draft)
    \/ \E app \in Applications : Apply(app)
    \/ \E id \in Docs : Void(id)

Spec == Init /\ [][Next]_vars
=============================================================================
