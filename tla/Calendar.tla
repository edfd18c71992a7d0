------------------------------- MODULE Calendar -------------------------------
(***************************************************************************)
(* period.Calendar and period.Guard: stretches of days that follow each    *)
(* other without a gap, each open or locked.  A calendar is a set of       *)
(* periods; its order is that of the days.                                 *)
(***************************************************************************)
EXTENDS Integers

Period == [id : STRING, first : Int, last : Int]

ValidPeriod(p) == p.id # "" /\ p.first <= p.last

\* Both ends count.
Covers(p, day) == p.first <= day /\ day <= p.last

\* checkSequence: no repeated id, no shared day, and nothing uncovered between
\* the first day and the last.
Sequence(periods) ==
    /\ \A p, q \in periods : p # q => p.id # q.id /\ (p.last < q.first \/ q.last < p.first)
    /\ \A p \in periods :
        (\E q \in periods : p.last < q.first) => \E q \in periods : q.first = p.last + 1

\* Mutant: only the days are compared, and a gap goes unnoticed.
CanAddApart(periods, p) ==
    ValidPeriod(p) /\ \A q \in periods : q.id # p.id /\ (p.last < q.first \/ q.last < p.first)

\* Calendar.Add, over the whole set: a period may join at either end.
CanAdd(periods, p) == ValidPeriod(p) /\ Sequence(periods \cup {p})

\* The periods that start before p and do not end inside it.
Before(periods, p) == {q \in periods : q.first < p.first /\ ~Covers(p, q.last)}

\* Guard.CheckLocked: a day no period covers may be posted to.
MayPost(periods, locked, day) ==
    \A p \in periods : Covers(p, day) => p.id \notin locked
===============================================================================
