----------------------------- MODULE PeriodClose -----------------------------
(***************************************************************************)
(* close.Service.ClosePeriod over its ports: the calendar, the ledger it   *)
(* reads and posts to, the document book and the report book.              *)
(*                                                                         *)
(* Operators close periods, stop at any step and try again, race each      *)
(* other, and share the books with a desk that keeps posting, with a       *)
(* calendar that is being extended and with documents being settled.  The  *)
(* poster is ledger.Service over the MariaDB adapters: it asks the lock,   *)
(* and then writes the voucher and after it the request key, one           *)
(* transaction, either of which may be taken already.                      *)
(***************************************************************************)
EXTENDS Calendar, ClosingEntries, Sequences

CONSTANTS
    Operators,
    Opening,        \* the periods on file when the model starts
    Additions,      \* bound: the periods that may be added to them
    VoucherIds,     \* the ids operators give their closing vouchers
    Commands,       \* bound: what an operator may ask for
    FactSets,       \* assets and receivables by period; one of them is the client's
    Entries,        \* what the desk may post: [day, lines]
    OpenDocuments,  \* the documents unsettled at the start: [id, period]
    None,
    MaxAttempts,    \* bound: how many times a close is begun
    MaxEntries      \* bound: how many entries the desk posts

PeriodIds == {p.id : p \in Opening \cup Additions}
Command == [period : PeriodIds, voucher : VoucherIds, force : BOOLEAN]
Movements == [Accounts -> Int]

ASSUME CommandsAssumption == Commands \subseteq Command
ASSUME OpeningAssumption ==
    /\ Opening \subseteq Period /\ Additions \subseteq Period
    /\ \A p \in Opening : ValidPeriod(p)
    /\ Sequence(Opening)
ASSUME EntriesAssumption ==
    Entries \subseteq [day : Int, lines : Movements] /\ \A e \in Entries : Total(e.lines) = 0

\* What a client's books hold for a close: its fixed assets and what it is owed.
Asset == [id : STRING, cost : Int, residual : Int, life : Int, accumulated : Int,
          expense : Accounts \cup {""}, accumulation : Accounts \cup {""}]
Receivable == [id : STRING, due : Int, amount : Int]

ASSUME FactsAssumption ==
    \A f \in FactSets :
        /\ f \in [PeriodIds -> [assets : SUBSET Asset, receivables : SUBSET Receivable]]
        /\ \A id \in PeriodIds : IsFiniteSet(f[id].assets) /\ IsFiniteSet(f[id].receivables)

ASSUME NoneAssumption ==
    None \notin PeriodIds /\ None \notin VoucherIds /\ None \notin Entries /\ None \notin Int

ASSUME BoundsAssumption == MaxAttempts \in Nat /\ MaxEntries \in Nat

VARIABLES
    periods,        \* the calendar
    locked,         \* the ids of its locked periods
    log,            \* committed vouchers in the order they were committed; "through" is
                    \* what passed through the result account besides the net lines
    reports,        \* period -> the report on file, or None
    unsettled,      \* the documents still owed
    facts,          \* period -> what it provides for
    desk,           \* the entry the desk has been let through the lock with
    pc,             \* operator -> what it does next
    attempt,        \* operator -> what it was asked, and what it has read
    closer,         \* for the properties: period -> what its locker had read
    attempts        \* how many closes have been begun

books == <<periods, locked, log, reports, unsettled, facts>>
vars == <<books, desk, pc, attempt, closer, attempts>>

\* What an operator knows before it has read anything.
Idle == [period |-> None, voucher |-> None, force |-> FALSE, seen |-> {}, open |-> {},
         held |-> [a \in ProfitAndLoss |-> 0], read |-> 0, lines |-> Blank, through |-> 0,
         profit |-> 0, provided |-> 0, recorded |-> FALSE]

Init ==
    /\ periods = Opening /\ locked = {}
    /\ log = <<>>
    /\ reports = [p \in PeriodIds |-> None]
    /\ unsettled = OpenDocuments
    /\ facts \in FactSets
    /\ desk = None
    /\ pc = [o \in Operators |-> "idle"]
    /\ attempt = [o \in Operators |-> Idle]
    /\ closer = [p \in PeriodIds |-> None]
    /\ attempts = 0

-----------------------------------------------------------------------------
(* What the ledger answers.                                                *)

Posted == {log[i] : i \in DOMAIN log}

\* An account's net movement over the vouchers of a period among given ones.
Moved(p, indices, a) == Total([i \in {j \in indices : Covers(p, log[j].day)} |-> log[i].lines[a]])

\* Ledger.Balances: the period's movements, each in its account's own sense.
Balances(p) ==
    [a \in ProfitAndLoss |->
        IF AccountType[a] = "revenue" THEN -Moved(p, DOMAIN log, a) ELSE Moved(p, DOMAIN log, a)]

IdTaken(id)   == \E v \in Posted : v.id = id
KeyTaken(key) == \E v \in Posted : v.key = key

-----------------------------------------------------------------------------
(* An attempt.                                                             *)

Goto(o, label) == pc' = [pc EXCEPT ![o] = label]

Stop(o) ==
    /\ Goto(o, "idle")
    /\ attempt' = [attempt EXCEPT ![o] = Idle]

The(o) == CHOOSE p \in attempt[o].seen : p.id = attempt[o].period

Begin(o) ==
    /\ pc[o] = "idle" /\ attempts < MaxAttempts
    /\ \E c \in Commands :
        attempt' = [attempt EXCEPT ![o].period = c.period, ![o].voucher = c.voucher,
                                   ![o].force = c.force]
    /\ Goto(o, "calendar")
    /\ attempts' = attempts + 1
    /\ UNCHANGED <<books, desk, closer>>

\* Mutant: one earlier period that is locked is enough.
MayCloseAfterOne(calendar, shut, id) ==
    /\ id \notin shut
    /\ \A p \in calendar :
        p.id = id /\ Before(calendar, p) # {} => \E q \in Before(calendar, p) : q.id \in shut

\* Periods close in order: an earlier one that is open stops the close.
MayClose(calendar, shut, id) ==
    /\ id \notin shut
    /\ \A p \in calendar : p.id = id => \A q \in Before(calendar, p) : q.id \in shut

ReadCalendar(o) ==
    /\ pc[o] = "calendar"
    /\ IF (\E p \in periods : p.id = attempt[o].period) /\ MayClose(periods, locked, attempt[o].period)
       THEN attempt' = [attempt EXCEPT ![o].seen = periods] /\ Goto(o, "documents")
       ELSE Stop(o)
    /\ UNCHANGED <<books, desk, closer, attempts>>

\* OpenInPeriod, which a forced close gets past.
ReadDocuments(o) ==
    LET open == {d \in unsettled : d.period = attempt[o].period} IN
    /\ pc[o] = "documents"
    /\ IF open = {} \/ attempt[o].force
       THEN attempt' = [attempt EXCEPT ![o].open = open] /\ Goto(o, "balances")
       ELSE Stop(o)
    /\ UNCHANGED <<books, desk, closer, attempts>>

\* The balances, what the period provides for, and the entries for both.
ReadBalances(o) ==
    LET p == The(o)
        held == Balances(p)
        charges == Provided(p, facts[p.id])
    IN
    /\ pc[o] = "balances"
    /\ IF CanProvide(p, facts[p.id]) /\ CanClear(WithProvisions(held, charges))
       THEN /\ attempt' = [attempt EXCEPT
                ![o].held = held, ![o].read = Len(log),
                ![o].lines = ClosingVoucher(held, charges),
                ![o].through = ThroughResult(WithProvisions(held, charges)),
                ![o].profit = NetProfit(WithProvisions(held, charges)),
                ![o].provided = Charged(charges)]
            /\ Goto(o, "report")
       ELSE Stop(o)
    /\ UNCHANGED <<books, desk, closer, attempts>>

Empty(lines) == lines = Blank

\* The snapshot of this attempt, before the ledger has numbered its voucher.
Snapshot(o) == [voucher |-> attempt[o].voucher, numbered |-> FALSE,
                profit |-> attempt[o].profit, provided |-> attempt[o].provided,
                forced |-> attempt[o].force, open |-> attempt[o].open]

\* Reports.Get: an earlier attempt's snapshot stays on file.
ReadReport(o) ==
    LET recorded == reports[attempt[o].period] # None IN
    /\ pc[o] = "report"
    /\ attempt' = [attempt EXCEPT ![o].recorded = recorded]
    /\ Goto(o, CASE ~recorded -> "save"
                 [] recorded /\ Empty(attempt[o].lines) -> "lock"
                 [] OTHER -> "post")
    /\ UNCHANGED <<books, desk, closer, attempts>>

Record(o, report) == reports' = [reports EXCEPT ![attempt[o].period] = report]

SaveReport(o) ==
    /\ pc[o] = "save"
    /\ Record(o, Snapshot(o))
    /\ Goto(o, IF Empty(attempt[o].lines) THEN "lock" ELSE "post")
    /\ UNCHANGED <<periods, locked, log, unsettled, facts, desk, attempt, closer, attempts>>

\* The poster asks the lock for the closing date before anything else.
CheckLocked(o) ==
    /\ pc[o] = "post"
    /\ IF MayPost(periods, locked, The(o).last)
       THEN Goto(o, "write") /\ UNCHANGED attempt
       ELSE Stop(o)
    /\ UNCHANGED <<books, desk, closer, attempts>>

\* Mutant: the request key is not asked for.
WrittenUnkeyed(id, key) == ~IdTaken(id)

\* The period names the request, so that one set of entries is posted for it.
\* A voucher id that is taken is refused first, and is no duplicate request.
Written(id, key) == ~IdTaken(id) /\ ~KeyTaken(key)
Duplicate(id, key) == ~IdTaken(id) /\ KeyTaken(key)

PostEntries(o) ==
    LET a == attempt[o] IN
    /\ pc[o] = "write"
    /\ \/ /\ Written(a.voucher, a.period)
          /\ log' = Append(log, [id |-> a.voucher, key |-> a.period, day |-> The(o).last,
                                 lines |-> a.lines, through |-> a.through, read |-> a.read])
          /\ Goto(o, "number") /\ UNCHANGED attempt
       \/ /\ Duplicate(a.voucher, a.period) /\ a.recorded /\ NothingLeft(a.held)
          /\ Goto(o, "lock") /\ UNCHANGED <<log, attempt>>
       \/ /\ ~Written(a.voucher, a.period)
          /\ ~(Duplicate(a.voucher, a.period) /\ a.recorded /\ NothingLeft(a.held))
          /\ Stop(o) /\ UNCHANGED log
    /\ UNCHANGED <<periods, locked, reports, unsettled, facts, desk, closer, attempts>>

\* Mutant: the number is written onto the snapshot that is on file.
SaveNumberOnFile(o) ==
    /\ pc[o] = "number"
    /\ Record(o, [reports[attempt[o].period] EXCEPT !.voucher = attempt[o].voucher, !.numbered = TRUE])
    /\ Goto(o, "lock")
    /\ UNCHANGED <<periods, locked, log, unsettled, facts, desk, attempt, closer, attempts>>

\* Written again once the ledger has numbered the voucher.
SaveNumber(o) ==
    /\ pc[o] = "number"
    /\ Record(o, [Snapshot(o) EXCEPT !.numbered = TRUE])
    /\ Goto(o, "lock")
    /\ UNCHANGED <<periods, locked, log, unsettled, facts, desk, attempt, closer, attempts>>

Lock(o) ==
    LET a == attempt[o] IN
    /\ pc[o] = "lock"
    /\ IF a.period \in locked
       THEN UNCHANGED <<locked, closer>>
       ELSE /\ locked' = locked \cup {a.period}
            /\ closer' = [closer EXCEPT ![a.period] = [read |-> a.read, seen |-> a.seen]]
    /\ Stop(o)
    /\ UNCHANGED <<periods, log, reports, unsettled, facts, desk, attempts>>

\* Any call may fail, and an operator may stop anywhere: what was written stays.
Fail(o) ==
    /\ pc[o] # "idle"
    /\ Stop(o)
    /\ UNCHANGED <<books, desk, closer, attempts>>

-----------------------------------------------------------------------------
(* The rest of the practice.                                               *)

DeskPosted == Cardinality({i \in DOMAIN log : log[i].key = None})

\* An entry of the desk's, past the lock, and then written or given up.
DeskAsks(e) ==
    /\ desk = None /\ DeskPosted < MaxEntries
    /\ MayPost(periods, locked, e.day)
    /\ desk' = e
    /\ UNCHANGED <<books, pc, attempt, closer, attempts>>

DeskWrites ==
    /\ desk # None
    /\ \/ log' = Append(log, [id |-> "entry", key |-> None, day |-> desk.day,
                              lines |-> desk.lines, through |-> 0, read |-> 0])
       \/ UNCHANGED log
    /\ desk' = None
    /\ UNCHANGED <<periods, locked, reports, unsettled, facts, pc, attempt, closer, attempts>>

\* Store.Create: the calendar is read for update and checked with the new
\* period in it.
CreatePeriod(p) ==
    /\ CanAdd(periods, p)
    /\ periods' = periods \cup {p}
    /\ UNCHANGED <<locked, log, reports, unsettled, facts, desk, pc, attempt, closer, attempts>>

Settle(d) ==
    /\ d \in unsettled
    /\ unsettled' = unsettled \ {d}
    /\ UNCHANGED <<periods, locked, log, reports, facts, desk, pc, attempt, closer, attempts>>

Next ==
    \/ \E o \in Operators :
        \/ Begin(o) \/ ReadCalendar(o) \/ ReadDocuments(o) \/ ReadBalances(o) \/ ReadReport(o)
        \/ SaveReport(o) \/ CheckLocked(o) \/ PostEntries(o) \/ SaveNumber(o) \/ Lock(o)
        \/ Fail(o)
    \/ \E e \in Entries : DeskAsks(e)
    \/ DeskWrites
    \/ \E p \in Additions \ periods : CreatePeriod(p)
    \/ \E d \in OpenDocuments : Settle(d)

Spec == Init /\ [][Next]_vars

-----------------------------------------------------------------------------
(* Properties.                                                             *)

Report == [voucher : VoucherIds, numbered : BOOLEAN, profit : Int, provided : Int,
           forced : BOOLEAN, open : SUBSET OpenDocuments]

\* Every variable keeps its type: in particular a calendar that several add to
\* stays a sequence, and no report or voucher is written half.
TypeOK ==
    /\ Opening \subseteq periods /\ periods \subseteq Opening \cup Additions
    /\ Sequence(periods)
    /\ locked \subseteq {p.id : p \in periods}
    /\ log \in Seq([id : VoucherIds \cup {"entry"}, key : PeriodIds \cup {None}, day : Int,
                    lines : Movements, through : Nat, read : Nat])
    /\ reports \in [PeriodIds -> Report \cup {None}]
    /\ unsettled \subseteq OpenDocuments
    /\ desk \in Entries \cup {None}
    /\ pc \in [Operators -> {"idle", "calendar", "documents", "balances", "report", "save",
                             "post", "write", "number", "lock"}]
    /\ attempts \in 0 .. MaxAttempts

\* However many attempts race or are made again, under whatever voucher ids,
\* one set of closing entries is posted for a period: depreciation is charged
\* once and the profit is carried once (close.go:487-492).
ClosedOnce ==
    \A i, j \in DOMAIN log : log[i].key # None /\ log[i].key = log[j].key => i = j

Closings(id) == {i \in DOMAIN log : log[i].key = id}

\* How much of the log the entries that closed a period were built from, or
\* what the operator that locked it without entries had read.
Since(id) == IF Closings(id) # {} THEN log[CHOOSE i \in Closings(id) : TRUE].read ELSE closer[id].read

\* Once a period is closed its revenue, expense and result accounts hold
\* exactly what was posted into it after the balances were read: whatever the
\* signs, the provisions and the retries, the close leaves nothing of its own
\* and nothing it had seen (entries.go:81, provisions.go:689).
OnlyLateEntriesStand ==
    \A p \in periods :
        Closings(p.id) # {} \/ p.id \in locked =>
            LET late == {i \in DOMAIN log : log[i].key = None /\ i > Since(p.id)} IN
            \A a \in ProfitAndLoss : Moved(p, DOMAIN log, a) = Moved(p, late, a)

Carried(id) == -Total([i \in Closings(id) |-> log[i].lines[Retained]])

\* What the closing entries of a period charged for provisions.
ChargedBy(id) ==
    -Total([ia \in Closings(id) \X (Accounts \ (ProfitAndLoss \cup {Retained}))
               |-> log[ia[1]].lines[ia[2]]])

\* A report that names its entries states what they did: the profit it gives
\* is the one retained earnings received, and its provisions the amount that
\* went into the accumulation accounts, whoever else was closing the period
\* (close.go:502-509).
NumberedReportIsTrue ==
    \A id \in PeriodIds :
        reports[id] # None /\ reports[id].numbered =>
            /\ \E i \in Closings(id) : log[i].id = reports[id].voucher
            /\ Carried(id) = reports[id].profit
            /\ ChargedBy(id) = reports[id].provided

\* A period is locked only behind the ones that come before it in the calendar
\* its close was decided from, and they stay locked (close.go:365-380).
ClosedInOrder ==
    \A p \in periods :
        p.id \in locked => \A q \in Before(closer[p.id].seen, p) : q.id \in locked
===============================================================================
