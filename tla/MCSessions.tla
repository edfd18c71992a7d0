----------------------------- MODULE MCSessions -----------------------------
(***************************************************************************)
(* What callers meet on the way into the books, checked in one run: the    *)
(* idempotency middleware, the document store's transactions, or the       *)
(* posting ledger's.  A behaviour exercises one of them; the three share   *)
(* no state.                                                               *)
(***************************************************************************)
EXTENDS MCIdempotency, MCDocumentStore, MCPostingLedger

VARIABLE exercise

sessionVars == <<middlewareVars, storeVars, vars, exercise>>

Arriving(A) == exercise = "middleware" /\ A /\ UNCHANGED <<storeVars, vars, exercise>>
Storing(A)  == exercise = "documents" /\ A /\ UNCHANGED <<middlewareVars, vars, exercise>>
Entering(A) == exercise = "postings" /\ A /\ UNCHANGED <<middlewareVars, storeVars, exercise>>

SessionsInit ==
    /\ MiddlewareInit /\ StoreInit /\ Init
    /\ exercise \in {"middleware", "documents", "postings"}

SessionsNext == Arriving(MiddlewareNext) \/ Storing(StoreNext) \/ Entering(Next)

\* The fairness of the three: every goroutine goes on, and every session's
\* statements are served in the end.  The callers of the two stores are the
\* same sessions, and only one of the stores is exercised: one condition says
\* what MiddlewareFairSpec, StoreFairSpec and FairSpec say.
ASSUME SameSessions == Callers = Sessions
SessionsFairness ==
    /\ \A r \in Arrivals : WF_middlewareVars(Arriving(Resolve(r)))
    /\ \A s \in Sessions : SF_<<storeVars, vars>>(Storing(Statement(s)) \/ Entering(Step(s)))

SessionsSpec == SessionsInit /\ [][SessionsNext]_sessionVars /\ SessionsFairness
=============================================================================
