---------------------------- MODULE PostingLedger ----------------------------
(***************************************************************************)
(* ledger.Service.Post over postingrepo.Store, glrepo.VoucherStore and     *)
(* stockrepo.Store: the one way an entry reaches a client's books, with    *)
(* several callers posting at once and the calendar being shut under them. *)
(*                                                                         *)
(* A posting asks the period lock, loads the client's rules, takes a       *)
(* number for each voucher in a transaction of its own, and then writes    *)
(* voucher, request key, cost voucher, stock movements and document in one *)
(* transaction.  Sales price the goods they take before any of that, and   *)
(* the bare stock desk (practice.ReceiveStock, IssueStock) reads a         *)
(* position and appends a movement with no transaction around the two.     *)
(*                                                                         *)
(* InnoDB is modelled from how the adapters use it: a transaction's plain  *)
(* reads see what was committed when it first read, its writes show at the *)
(* commit, unique keys wait for and then refuse a second writer, and       *)
(* INSERT IGNORE on a row that is there shares its lock.                   *)
(***************************************************************************)
EXTENDS StockPosition, FiniteSets

CONSTANTS
    Callers,
    Days,           \* posting dates: each a month and a locked range of its own
    Lockable,       \* bound: the days a period may be locked over
    Closable,       \* bound: the days whose month may be closed
    Books,          \* number books
    Postings,       \* the postings a caller may ask for
    Moves,          \* the bare stock movements a caller may ask for
    OpeningLog,     \* the movements on file when the model starts
    OpeningSeq,     \* the counters on file when it starts: 0 for no row
    None,           \* no cost voucher, no document, no key
    MaxCalls        \* bound: how many calls are made in all

ASSUME DaysAssumption == Lockable \subseteq Days /\ Closable \subseteq Days
ASSUME OpeningSeqAssumption == OpeningSeq \in [Books -> Nat]
ASSUME NoneAssumption == None \notin STRING /\ None \notin Books /\ None \notin Callers
ASSUME MaxCallsAssumption == MaxCalls \in Nat

\* A voucher as the ledger sees it: valid if it balances on accounts of the chart.
Voucher == [id : STRING, book : Books, day : Days, valid : BOOLEAN]
Issued   == [item : STRING, quantity : Int]
Received == [item : STRING, quantity : Int, cost : Int]

ASSUME PostingsAssumption ==
    Postings \subseteq [op : {"post"}, voucher : Voucher, cost : Voucher \cup {None},
                        key : STRING \cup {None},
                        document : {"invoice", "invalid", None},
                        issues : Seq(Issued), receipts : Seq(Received)]
\* The desk receives one item or issues one.
ASSUME MovesAssumption ==
    /\ Moves \subseteq [op : {"move"}, voucher : [id : {None}],
                        issues : Seq(Issued), receipts : Seq(Received)]
    /\ \A r \in Moves : Len(r.issues) + Len(r.receipts) = 1

\* What is on file was moved at the stock desk: no entry on these books moved it.
ASSUME OpeningLogAssumption ==
    OpeningLog \in Seq([item : STRING, kind : {"issue", "receipt"}, quantity : Int, cost : Int,
                        voucher : {None}, owner : {None}])

VARIABLES
    locked,         \* days a locked period covers: never unlocked
    closed,         \* days a closed month covers: may be reopened
    nextSeq,        \* book -> its counter, 0 while the book has no row
    vouchers,       \* committed vouchers
    keys,           \* committed request keys, each with its voucher
    documented,     \* committed documents, by voucher
    log,            \* stock movements in insertion order, uncommitted ones too
    pc,             \* caller -> what it does next
    call,           \* caller -> what it was asked
    costs,          \* caller -> what the issues were priced at
    view,           \* caller -> the committed movements it last decided from
    rules,          \* caller -> the closed days it loaded
    numbers,        \* caller -> the numbers it has taken
    calls           \* how many calls have been made

books    == <<vouchers, keys, documented>>
calendar == <<locked, closed>>
held     == <<call, costs, view, rules, numbers>>
vars == <<calendar, nextSeq, books, log, pc, held, calls>>

NoCall == [op |-> "none"]

Init ==
    /\ locked = {} /\ closed = {}
    /\ nextSeq = OpeningSeq
    /\ vouchers = {} /\ keys = {} /\ documented = {}
    /\ log = [i \in DOMAIN OpeningLog |-> OpeningLog[i]]
    /\ pc = [c \in Callers |-> "idle"]
    /\ call = [c \in Callers |-> NoCall]
    /\ costs = [c \in Callers |-> <<>>]
    /\ view = [c \in Callers |-> <<>>]
    /\ rules = [c \in Callers |-> {}]
    /\ numbers = [c \in Callers |-> <<>>]
    /\ calls = 0

-----------------------------------------------------------------------------
(* What a caller sees and writes.                                          *)

Goto(c, label) == pc' = [pc EXCEPT ![c] = label]

\* The rows of a list that are among some, in their order: SelectSeq with a
\* set for its test, which a proof can speak of.
Among(rows, some) ==
    LET kept[n \in 0 .. Len(rows)] ==
            IF n = 0 THEN <<>>
            ELSE IF rows[n] \in some THEN Append(kept[n - 1], rows[n])
            ELSE kept[n - 1]
    IN  kept[Len(rows)]

Rows == {log[i] : i \in DOMAIN log}

\* A movement belongs to the transaction that inserted it until it commits.
Owned(owner) == Among(log, {m \in Rows : m.owner = owner})
Committed == Owned(None)

\* The vouchers of a posting in the order they are admitted: the entry, and
\* the cost of what it moved, which is numbered in its own book.
Vouchers(p) == IF p.cost = None THEN <<p.voucher>> ELSE <<p.voucher, p.cost>>

\* Back to the caller: the deferred Rollback takes the transaction's rows
\* with it.  A number already taken stays taken.
Answer(c) ==
    /\ Goto(c, "idle")
    /\ call' = [call EXCEPT ![c] = NoCall]
    /\ costs' = [costs EXCEPT ![c] = <<>>]
    /\ view' = [view EXCEPT ![c] = <<>>]
    /\ rules' = [rules EXCEPT ![c] = {}]
    /\ numbers' = [numbers EXCEPT ![c] = <<>>]

Refuse(c) ==
    /\ Answer(c)
    /\ log' = Among(log, {m \in Rows : m.owner # c})
    /\ UNCHANGED <<nextSeq, books>>

\* A step that keeps what the caller holds and what the tables hold.
Proceed(c, label) ==
    /\ Goto(c, label)
    /\ UNCHANGED <<nextSeq, books, log, held>>

-----------------------------------------------------------------------------
(* The call, and what it is priced at.                                     *)

Ask(c) ==
    /\ pc[c] = "idle" /\ calls < MaxCalls
    /\ calls' = calls + 1
    /\ \E r \in Postings \cup Moves : call' = [call EXCEPT ![c] = r]
    /\ Goto(c, "price")
    /\ UNCHANGED <<calendar, nextSeq, books, log, costs, view, rules, numbers>>

\* CostOfIssue, a line at a time, each against the position as it stands then
\* and not against the other lines; the caller has looked since the first.
Price(c) ==
    LET r == call[c]
        next == Len(costs[c]) + 1
        line == r.issues[next]
        position == PositionIn(Committed, line.item)
        priced == IF next \in DOMAIN r.issues
                  THEN Append(costs[c], CostOf(position, line.quantity))
                  ELSE costs[c]
    IN
    /\ pc[c] = "price"
    /\ IF next \in DOMAIN r.issues => CanIssue(position, line.quantity)
       THEN /\ costs' = [costs EXCEPT ![c] = priced]
            /\ view' = [view EXCEPT ![c] = IF costs[c] = <<>> THEN Committed ELSE @]
            /\ Goto(c, IF Len(priced) < Len(r.issues) THEN "price"
                       ELSE IF r.op = "move" THEN "record" ELSE "locks")
            /\ UNCHANGED <<nextSeq, books, log, call, rules, numbers>>
       ELSE Refuse(c)

-----------------------------------------------------------------------------
(* Service.Post: the lock, the rules, the numbers.                         *)

\* Mutant: a posting on a locked day is held back, not refused.
CheckLockBlocks(c) ==
    pc[c] = "locks" /\ call[c].voucher.day \notin locked /\ Proceed(c, "costlock")

\* CheckLocked, for the entry and then for its cost, before a number is taken.
CheckLock(c) ==
    /\ pc[c] = "locks"
    /\ IF call[c].voucher.day \in locked
       THEN Refuse(c)
       ELSE Proceed(c, "costlock")

\* Mutant: only the entry's date is asked about.
CheckNoCostLock(c) == pc[c] = "costlock" /\ Proceed(c, "rules")

CheckCostLock(c) ==
    /\ pc[c] = "costlock"
    /\ IF call[c].cost # None /\ call[c].cost.day \in locked
       THEN Refuse(c)
       ELSE Proceed(c, "rules")

LoadRules(c) ==
    /\ pc[c] = "rules"
    /\ rules' = [rules EXCEPT ![c] = closed]
    /\ Goto(c, "admit")
    /\ UNCHANGED <<nextSeq, books, log, call, costs, view, numbers>>

\* The voucher whose turn it is: the entry first, then its cost.
Admitting(c) ==
    Vouchers(call[c])[IF pc[c] = "advance" THEN Len(numbers[c]) ELSE Len(numbers[c]) + 1]

\* ValidatePostable: it balances on accounts of the chart, in an open month.
Postable(c) == Admitting(c).valid /\ Admitting(c).day \notin rules[c]

Admit(c) ==
    /\ pc[c] = "admit"
    /\ IF Postable(c)
       THEN Proceed(c, "ensure")
       ELSE Refuse(c)

\* Who shares the lock on a counter, and who has it to itself.
Sharing(b)  == {c \in Callers : pc[c] \in {"reserve", "advance"} /\ Admitting(c).book = b}
Holding(b)  == {c \in Sharing(b) : pc[c] = "advance"}

\* INSERT IGNORE: the first one on a book inserts the row and keeps others out.
EnsureSequence(c) ==
    LET b == Admitting(c).book IN
    /\ pc[c] = "ensure"
    /\ IF nextSeq[b] = 0 THEN Sharing(b) = {} ELSE Holding(b) = {}
    /\ Proceed(c, "reserve")

\* Mutant: SELECT without FOR UPDATE.
ReserveUnlocked(c) ==
    LET b == Admitting(c).book IN
    /\ pc[c] = "reserve"
    /\ numbers' = [numbers EXCEPT ![c] = Append(@, IF nextSeq[b] = 0 THEN 1 ELSE nextSeq[b])]
    /\ Goto(c, "advance")
    /\ UNCHANGED <<nextSeq, books, log, call, costs, view, rules>>

\* Mutant: the counter is seeded with nothing, not with one.
ReserveFromNothing(c) ==
    LET b == Admitting(c).book IN
    /\ pc[c] = "reserve"
    /\ Sharing(b) = {c}
    /\ numbers' = [numbers EXCEPT ![c] = Append(@, nextSeq[b])]
    /\ Goto(c, "advance")
    /\ UNCHANGED <<nextSeq, books, log, call, costs, view, rules>>

\* SELECT ... FOR UPDATE waits for everybody else who shares the row, and reads.
ReserveSequence(c) ==
    LET b == Admitting(c).book
        next == IF nextSeq[b] = 0 THEN 1 ELSE nextSeq[b]
    IN
    /\ pc[c] = "reserve"
    /\ Sharing(b) = {c}
    /\ numbers' = [numbers EXCEPT ![c] = Append(@, next)]
    /\ Goto(c, "advance")
    /\ UNCHANGED <<nextSeq, books, log, call, costs, view, rules>>

\* Two callers that share the row and each want it: one is rolled back.
SequenceDeadlock(c) ==
    LET b == Admitting(c).book IN
    /\ pc[c] = "reserve"
    /\ \E other \in Sharing(b) \ {c} : pc[other] = "reserve"
    /\ Refuse(c)

\* The counter moves on and the number is the caller's, whatever comes next.
AdvanceSequence(c) ==
    LET taken == numbers[c] IN
    /\ pc[c] = "advance"
    /\ nextSeq' = [nextSeq EXCEPT ![Admitting(c).book] = taken[Len(taken)] + 1]
    /\ Goto(c, IF Len(taken) < Len(Vouchers(call[c])) THEN "admit" ELSE "check")
    /\ UNCHANGED <<books, log, held>>

-----------------------------------------------------------------------------
(* postingrepo.Save: one transaction.                                      *)

\* The movements a call writes, issues before receipts.
Movements(c) ==
    LET r == call[c]
        Row(kind, line, cost) == [item |-> line.item, kind |-> kind,
                                  quantity |-> line.quantity, cost |-> cost,
                                  voucher |-> r.voucher.id, owner |-> c]
    IN  [i \in DOMAIN r.issues   |-> Row("issue", r.issues[i], costs[c][i])]
     \o [i \in DOMAIN r.receipts |-> Row("receipt", r.receipts[i], r.receipts[i].cost)]

\* checkStock: the running position, line after line, over one snapshot; an
\* issue must still cost what it was priced at, to the dong.
StockAllows(c) ==
    \A i \in DOMAIN Movements(c) :
        LET m == Movements(c)[i]
            before == PositionIn(Committed \o SubSeq(Movements(c), 1, i - 1), m.item)
        IN  IF m.kind = "issue"
            THEN CanIssue(before, m.quantity)
            ELSE CanReceive(before, m.quantity, m.cost)

\* Mutant: each line is costed against the position on file, not the running one.
StockCostStandsEach(c) ==
    \A i \in DOMAIN Movements(c) :
        LET m == Movements(c)[i] IN
        m.kind = "issue" => m.cost = CostOf(PositionIn(Committed, m.item), m.quantity)

StockCostStands(c) ==
    \A i \in DOMAIN Movements(c) :
        LET m == Movements(c)[i]
            before == PositionIn(Committed \o SubSeq(Movements(c), 1, i - 1), m.item)
        IN  m.kind = "issue" => m.cost = CostOf(before, m.quantity)

CheckStock(c) ==
    /\ pc[c] = "check"
    /\ IF StockAllows(c) /\ StockCostStands(c)
       THEN /\ view' = [view EXCEPT ![c] = Committed]
            /\ Goto(c, "voucher")
            /\ UNCHANGED <<nextSeq, books, log, call, costs, rules, numbers>>
       ELSE Refuse(c)

\* The i-th voucher this caller writes, under the number it took for it.
Written(c, i) ==
    LET v == Vouchers(call[c])[i] IN
    [id |-> v.id, book |-> v.book, day |-> v.day, seq |-> numbers[c][i],
     of |-> call[c].voucher.id]

\* The ids a transaction has inserted and not yet committed.
Inserted(c) ==
    CASE pc[c] \in {"key", "cost"} -> {Written(c, 1).id}
      [] pc[c] \in {"stock", "document", "commit"} ->
            {Written(c, i).id : i \in DOMAIN Vouchers(call[c])}
      [] OTHER -> {}

\* SaveWithin: header, lines and MarkVoucherPosted.  The id is the primary
\* key and the place in the book is unique.
SaveVoucher(c, i, next) ==
    LET v == Written(c, i) IN
    /\ \A other \in Callers \ {c} : v.id \notin Inserted(other)
    /\ IF \E w \in vouchers : w.id = v.id \/ (w.book = v.book /\ w.seq = v.seq)
       THEN Refuse(c)
       ELSE Proceed(c, next)

SaveEntry(c) == pc[c] = "voucher" /\ SaveVoucher(c, 1, "key")

\* Mutant: the request key is stored, and nothing makes it unique.
SaveKeyUnasked(c) == pc[c] = "key" /\ Proceed(c, "cost")

\* The key is unique: a second writer waits for the first, and is a duplicate
\* once the first has committed.
SaveKey(c) ==
    LET key == call[c].key IN
    /\ pc[c] = "key"
    /\ key = None \/ \A other \in Callers \ {c} :
                        pc[other] \in {"cost", "stock", "document", "commit"}
                            => call[other].key # key
    /\ IF key # None /\ \E k \in keys : k.key = key
       THEN Refuse(c)
       ELSE Proceed(c, "cost")

\* The cost voucher carries no key: the key names the request.
SaveCost(c) ==
    /\ pc[c] = "cost"
    /\ IF call[c].cost = None THEN Proceed(c, "stock") ELSE SaveVoucher(c, 2, "stock")

\* Mutant: the movements are written outside the transaction.
WriteMovementNow(c) ==
    /\ pc[c] = "stock"
    /\ log' = log \o [i \in DOMAIN Movements(c) |-> [Movements(c)[i] EXCEPT !.owner = None]]
    /\ Goto(c, "document")
    /\ UNCHANGED <<nextSeq, books, held>>

\* Each movement is one INSERT, and takes its place in the log there and then.
WriteMovement(c) ==
    LET written == Len(Owned(c)) IN
    /\ pc[c] = "stock"
    /\ IF written < Len(Movements(c))
       THEN /\ log' = Append(log, Movements(c)[written + 1])
            /\ UNCHANGED pc
       ELSE /\ Goto(c, "document")
            /\ UNCHANGED log
    /\ UNCHANGED <<nextSeq, books, held>>

\* An invalid document refuses the posting after everything else is written.
RecordDocument(c) ==
    /\ pc[c] = "document"
    /\ IF call[c].document = "invalid" THEN Refuse(c) ELSE Proceed(c, "commit")

\* Whether the caller hears of it or not, the posting stands.
Commit(c) ==
    LET r == call[c] IN
    /\ pc[c] = "commit"
    /\ vouchers' = vouchers \cup {Written(c, i) : i \in DOMAIN Vouchers(r)}
    /\ keys' = IF r.key = None THEN keys
               ELSE keys \cup {[key |-> r.key, voucher |-> r.voucher.id]}
    /\ documented' = IF r.document = None THEN documented ELSE documented \cup {r.voucher.id}
    /\ log' = [i \in DOMAIN log |->
                 IF log[i].owner = c THEN [log[i] EXCEPT !.owner = None] ELSE log[i]]
    /\ Answer(c)
    /\ UNCHANGED nextSeq

-----------------------------------------------------------------------------
\* practice.ReceiveStock and IssueStock: one autocommitted INSERT, on what was
\* read before it.
RecordMovement(c) ==
    LET rows == [i \in DOMAIN Movements(c) |-> [Movements(c)[i] EXCEPT !.owner = None]]
        receipts == call[c].receipts
    IN
    /\ pc[c] = "record"
    /\ IF \A i \in DOMAIN receipts :
            CanReceive(PositionIn(view[c], receipts[i].item),
                       receipts[i].quantity, receipts[i].cost)
       THEN /\ log' = log \o rows
            /\ Answer(c)
            /\ UNCHANGED <<nextSeq, books>>
       ELSE Refuse(c)

\* A statement fails, a connection drops, or the program stops there.
Fail(c) ==
    /\ pc[c] # "idle"
    /\ Refuse(c)

\* The calendar is shut, and a month reopened, by somebody else.
LockPeriod(d) == d \notin locked /\ locked' = locked \cup {d} /\ UNCHANGED closed
CloseMonth(d) == d \notin closed /\ closed' = closed \cup {d} /\ UNCHANGED locked
ReopenMonth(d) == d \in closed /\ closed' = closed \ {d} /\ UNCHANGED locked

Calendar ==
    /\ \/ \E d \in Lockable : LockPeriod(d)
       \/ \E d \in Closable : CloseMonth(d) \/ ReopenMonth(d)
    /\ UNCHANGED <<nextSeq, books, log, pc, held, calls>>

Step(c) ==
    /\ \/ Price(c)
       \/ CheckLock(c) \/ CheckCostLock(c) \/ LoadRules(c) \/ Admit(c)
       \/ EnsureSequence(c) \/ ReserveSequence(c) \/ SequenceDeadlock(c) \/ AdvanceSequence(c)
       \/ CheckStock(c) \/ SaveEntry(c) \/ SaveKey(c) \/ SaveCost(c)
       \/ WriteMovement(c) \/ RecordDocument(c) \/ Commit(c) \/ RecordMovement(c)
    /\ UNCHANGED <<calendar, calls>>

Next ==
    \/ \E c \in Callers : Ask(c) \/ Step(c) \/ (Fail(c) /\ UNCHANGED <<calendar, calls>>)
    \/ Calendar

Spec == Init /\ [][Next]_vars

\* A statement that can run again and again runs: InnoDB grants locks in turn.
FairSpec == Spec /\ \A c \in Callers : SF_vars(Step(c))

-----------------------------------------------------------------------------
(* Properties.                                                             *)

Labels == {"idle", "price", "locks", "costlock", "rules", "admit", "ensure", "reserve", "advance",
           "check", "voucher", "key", "cost", "stock", "document", "commit", "record"}

\* Every variable keeps its shape, and a place in a book's run is never zero.
TypeOK ==
    /\ locked \subseteq Days /\ closed \subseteq Days
    /\ nextSeq \in [Books -> Nat]
    /\ \A v \in vouchers : v.book \in Books /\ v.day \in Days /\ v.seq \in Nat \ {0}
    /\ \A k \in keys : \E p \in Postings : k = [key |-> p.key, voucher |-> p.voucher.id]
    /\ documented \subseteq {p.voucher.id : p \in Postings}
    /\ pc \in [Callers -> Labels]
    /\ call \in [Callers -> Postings \cup Moves \cup {NoCall}]
    /\ rules \in [Callers -> SUBSET Days]
    /\ numbers \in [Callers -> Seq(Nat \ {0})]
    /\ calls \in 0..MaxCalls

\* The places a caller has taken and not yet filled.
Places(c) == {<<Vouchers(call[c])[i].book, numbers[c][i]>> : i \in DOMAIN numbers[c]}

Filled == {<<v.book, v.seq>> : v \in vouchers}

\* A place in a book's run is handed out once: two callers never hold the same
\* one, none is handed out that a voucher has, and no two vouchers share one.
NumbersHandedOutOnce ==
    /\ \A c, d \in Callers : c # d => Places(c) \cap Places(d) = {}
    /\ \A c \in Callers : Places(c) \cap Filled = {}
    /\ \A v, w \in vouchers : v.book = w.book /\ v.seq = w.seq => v = w

\* The committed movements of a voucher, as lines of a posting.
MovedBy(id) == Among(Committed, {m \in Rows : m.voucher = id})

\* The entries on file: each is named by its own voucher, and so is its cost.
EntryIds == {v.of : v \in vouchers}

\* What a list of lines takes or brings, without what it cost.
Quantities(ls) == [i \in DOMAIN ls |-> [item |-> ls[i].item, quantity |-> ls[i].quantity]]

\* The books hold whole postings and nothing else, whatever failed or ran
\* beside them: where there is an entry there are both its vouchers, its
\* request key, its document and every movement of stock, and where there is
\* any of these there is the entry.
WholePostings ==
    /\ \A entry \in EntryIds : \E p \in Postings :
         /\ p.voucher.id = entry
         /\ {Vouchers(p)[i].id : i \in DOMAIN Vouchers(p)} = {w.id : w \in {x \in vouchers : x.of = entry}}
         /\ p.key # None => [key |-> p.key, voucher |-> entry] \in keys
         /\ p.document # None => entry \in documented
         /\ Quantities(MovedBy(entry)) = Quantities(p.issues) \o Quantities(p.receipts)
    /\ {k.voucher : k \in keys} \subseteq EntryIds /\ documented \subseteq EntryIds
    /\ \A m \in Rows :
         IF m.owner = None
         THEN m.voucher \in EntryIds \cup {None}
         ELSE m.voucher = call[m.owner].voucher.id

\* One request, one entry: however often a request is resubmitted, and under
\* whatever voucher id, one voucher answers it.
OneEntryPerRequest == \A k, l \in keys : k.key = l.key => k = l

\* A posting that has asked the lock about a day and been let through.
PastTheLock(c, d) ==
    /\ pc[c] \notin {"idle", "price", "locks", "record"}
    /\ \/ call[c].voucher.day = d
       \/ pc[c] # "costlock" /\ call[c].cost # None /\ call[c].cost.day = d

\* Once a day is locked, the postings that can still reach it are the ones
\* that had been let through by then, and no others; when they have ended the
\* day does not change again, by a cost voucher no more than by an entry.
LockedDaysFreeze ==
    [][\A d \in locked :
         LET letThrough == {c \in Callers : PastTheLock(c, d)} IN
         /\ \A c \in Callers : PastTheLock(c, d)' => c \in letThrough
         /\ letThrough = {} => {v \in vouchers' : v.day = d} = {v \in vouchers : v.day = d}]_vars

Items == {m.item : m \in Rows}

\* A position that could be read stops being readable only where a movement
\* committed since its writer looked: alone, a posting never overdraws an item
\* and never records a cost the replay disagrees with.
OnlyOverlapSpoilsStock ==
    [][\A item \in Items :
         (PositionIn(Committed, item).readable /\ ~ PositionIn(Committed', item).readable)
            => \E c \in Callers : /\ pc[c] \in {"commit", "record"} /\ pc'[c] = "idle"
                                  /\ view[c] # Committed]_vars

\* No call waits for ever: counters, keys and ids that are waited for are
\* let go, and a deadlock on a counter is broken.
EveryCallAnswered == \A c \in Callers : []<>(pc[c] = "idle")

(* What comments in the code say, and the runs refute.                     *)

\* stockrepo.PositionWithin: a posting re-checks its cost inside its own
\* transaction, "so two postings cannot both take the same stock at the same
\* average".  Then every position could always be read.
EveryPositionReadable == \A item \in Items : PositionIn(Committed, item).readable

\* Package period: "the lock that stops entries being posted into them".
NothingEntersLockedPeriod == [][\A v \in vouchers' \ vouchers : v.day \notin locked]_vars

\* postingrepo.ErrStockMoved: the cost "no longer matches the position it was
\* resolved from".  Then a posting whose stock has not moved still costs what
\* it was priced at.
StockMovedMeansMoved ==
    \A c \in Callers :
        (pc[c] = "check" /\ view[c] = Committed /\ StockAllows(c)) => StockCostStands(c)
=============================================================================
