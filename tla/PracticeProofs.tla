---------------------------- MODULE PracticeProofs ----------------------------
(***************************************************************************)
(* Theorems about what a practice keeps, for every set of clients,         *)
(* requests, papers, payments and people at work.                          *)
(*                                                                         *)
(* The client registry and the scope of a request.  What the registry      *)
(* holds is in one written form (RegistryKept), or the look for another    *)
(* holder of a tax code would miss one.  Whoever holds the lock was found  *)
(* new when it was taken and nobody writes until it is let go, so it still *)
(* is (LockedIsNew).  A request in progress is of a client that is         *)
(* registered, since no client leaves (ServesKnown).                       *)
(*                                                                         *)
(* The practice desk's settlements: no document is settled beyond its      *)
(* amount, and a payment settles the oldest documents first.  Both rest on *)
(* what InnoDB's locks leave true between the reading of the trigger and   *)
(* the row it lets in: a document with rows that are not committed is      *)
(* shared with nobody else.                                                *)
(*                                                                         *)
(* The web interface over a client's books: vouchers, documents,           *)
(* settlements and pages explain one another (WebIInv).  A write is whole  *)
(* under the books' mutex, so BooksStand is kept write by write; that a    *)
(* key posts once needs to know where each key is (KeysStand).             *)
(***************************************************************************)
EXTENDS ClientScope, Settlement, WebPages, TotalsProofs, FunctionTheorems

-----------------------------------------------------------------------------
(* Clients and requests.                                                   *)

Registering ==
    [pc : {"none"}] \cup [pc : {"provision", "register"}, client : Client]

\* Clients by id, in one written form, each with its chart.
Entered ==
    /\ registered = [id \in DOMAIN registered |-> registered[id]]
    /\ \A id \in DOMAIN registered :
        /\ registered[id] \in Client
        /\ registered[id].tax.written = "bare"
        /\ id \in DOMAIN charts

\* No tax code twice.
Unshared ==
    \A id, other \in DOMAIN registered :
        id # other /\ registered[id].tax.code # "" => registered[id].tax # registered[other].tax

RegistryKept == Entered /\ Unshared

ChartsHold ==
    /\ charts = [id \in DOMAIN charts |-> charts[id]]
    /\ \A id \in DOMAIN charts : ValidChart(charts[id])

LockedIsNew ==
    /\ registering \in Registering
    /\ registering.pc # "none" =>
        /\ registering.client.tax.written = "bare"
        /\ registering.client.id \notin DOMAIN registered
        /\ ~Taken(registering.client)
    /\ registering.pc = "register" => registering.client.id \in DOMAIN charts

ServesKnown ==
    /\ serving \in [Operators -> [pc : {"none"}] \cup [pc : {"handle"}, scope : STRING, call : Calls]]
    /\ \A o \in Operators : serving[o] # Nobody =>
        serving[o].scope = serving[o].call.client /\ serving[o].scope \in DOMAIN registered

RowsKept ==
    /\ \A r \in rows : r.client \in DOMAIN registered /\ r.asked = r.client /\ r.owner \in {"", r.client}
    /\ \A r, q \in rows : r.client = q.client /\ r.id = q.id => r = q

IInv == RegistryKept /\ ChartsHold /\ LockedIsNew /\ ServesKnown /\ RowsKept

-----------------------------------------------------------------------------

\* Normalising a form leaves a client, its id and the digits of its tax code.
LEMMA NormalizedIsClient ==
    ASSUME NEW form \in Client
    PROVE  /\ Normalized(form) \in Client
           /\ Normalized(form).tax.written = "bare"
BY DEF Normalized, Client, TaxID

\* A step that leaves its variables alone leaves a part of the invariant alone.
LEMMA RegistryFrame ==
    ASSUME RegistryKept, UNCHANGED <<registered, charts>> PROVE RegistryKept'
<1>1. Entered'
    BY DEF RegistryKept, Entered
<1>2. Unshared'
    BY DEF RegistryKept, Unshared
<1> QED BY <1>1, <1>2 DEF RegistryKept

\* So it is for the charts,
LEMMA ChartsFrame == ASSUME ChartsHold, UNCHANGED charts PROVE ChartsHold'
BY DEF ChartsHold

\* for whoever holds the lock,
LEMMA LockedFrame ==
    ASSUME LockedIsNew, UNCHANGED <<registered, registering, charts>> PROVE LockedIsNew'
BY DEF LockedIsNew, Taken

\* and for the requests in progress, since no client leaves.
LEMMA ServesFrame ==
    ASSUME ServesKnown, UNCHANGED serving, DOMAIN registered \subseteq DOMAIN registered'
    PROVE  ServesKnown'
BY DEF ServesKnown

\* A client that joins disturbs no row.
LEMMA RowsFrame ==
    ASSUME RowsKept, UNCHANGED rows, DOMAIN registered \subseteq DOMAIN registered'
    PROVE  RowsKept'
BY DEF RowsKept

\* The lock lets go.
LEMMA LetGo == ASSUME registering' = Nobody PROVE LockedIsNew'
BY DEF LockedIsNew, Registering, Nobody

\* An empty registry holds everything asked of it.
LEMMA InitKept == ClientInit => IInv
<1> SUFFICES ASSUME ClientInit PROVE IInv
    OBVIOUS
<1> USE DEF ClientInit, Nobody
<1>1. RegistryKept /\ ChartsHold
    BY DEF RegistryKept, Entered, Unshared, ChartsHold
<1>2. LockedIsNew
    BY DEF LockedIsNew, Registering
<1>3. ServesKnown
    BY DEF ServesKnown
<1>4. RowsKept
    BY DEF RowsKept
<1> QED BY <1>1, <1>2, <1>3, <1>4 DEF IInv

-----------------------------------------------------------------------------
(* The registry's steps.                                                   *)

\* Create finds the id and the tax code free, and takes the lock.
LEMMA StartCreateKeeps ==
    ASSUME IInv, NEW form \in Forms, StartCreate(form)
    PROVE  IInv'
<1> DEFINE c == Normalized(form)
<1>1. c \in Client /\ c.tax.written = "bare"
    BY NormalizedIsClient, FormsAssumption
<1>2. /\ ~Known(c.id) /\ ~Taken(c)
      /\ registering' = [pc |-> "provision", client |-> c]
      /\ UNCHANGED <<registered, charts, rows, serving>>
    BY DEF StartCreate
<1> HIDE DEF c
<1>3. RegistryKept' /\ ChartsHold' /\ ServesKnown' /\ RowsKept'
    BY <1>2, RegistryFrame, ChartsFrame, ServesFrame, RowsFrame DEF IInv
<1>4. LockedIsNew'
    BY <1>1, <1>2 DEF LockedIsNew, Registering, Known, Taken
<1> QED BY <1>3, <1>4 DEF IInv

\* The books are set up while the lock is held: what was found free still is.
LEMMA ProvisionKeeps ==
    ASSUME IInv, Provision
    PROVE  IInv'
<1>1. /\ registering \in [pc : {"provision", "register"}, client : Client]
      /\ UNCHANGED <<registered, rows, serving>>
    BY DEF IInv, LockedIsNew, Registering, Provision
<1>2. PICK c \in Client : c = registering.client
    BY <1>1
<1>3. /\ registering' \in Registering
      /\ registering'.client = c
    BY <1>1, <1>2 DEF Registering, Provision
<1>4. /\ charts' = [k \in DOMAIN charts \cup {c.id} |-> IF k = c.id THEN DefaultChart ELSE charts[k]]
      /\ ValidChart(DefaultChart)
    BY <1>2 DEF Provision, SaveChart, Holding
<1>5. RegistryKept'
  <2>1. Entered'
    BY <1>1, <1>4 DEF IInv, RegistryKept, Entered
  <2>2. Unshared'
    BY <1>1 DEF IInv, RegistryKept, Unshared
  <2> QED BY <2>1, <2>2 DEF RegistryKept
<1>6. ServesKnown' /\ RowsKept'
    BY <1>1, ServesFrame, RowsFrame DEF IInv
<1>7. ChartsHold'
    BY <1>4 DEF IInv, ChartsHold
<1>8. LockedIsNew'
  <2>1. c.tax.written = "bare" /\ c.id \notin DOMAIN registered /\ ~Taken(c)
    BY <1>1, <1>2 DEF IInv, LockedIsNew
  <2>2. ~Taken(c)'
    BY <2>1, <1>1 DEF Taken
  <2> QED BY <2>1, <2>2, <1>1, <1>3, <1>4 DEF LockedIsNew, Taken
<1> QED BY <1>5, <1>6, <1>7, <1>8 DEF IInv

\* Books that could not be set up leave the registry as it was.
LEMMA ProvisionFailsKeeps ==
    ASSUME IInv, ProvisionFails
    PROVE  IInv'
<1>1. registering' = Nobody /\ UNCHANGED <<registered, charts, rows, serving>>
    BY DEF ProvisionFails
<1>2. RegistryKept' /\ ChartsHold' /\ ServesKnown' /\ RowsKept'
    BY <1>1, RegistryFrame, ChartsFrame, ServesFrame, RowsFrame DEF IInv
<1> QED BY <1>1, <1>2, LetGo DEF IInv

\* The client joins with its chart, under an id and a tax code still free.
LEMMA RegisterKeeps ==
    ASSUME IInv, Register
    PROVE  IInv'
<1> DEFINE c == registering.client
<1>1. /\ c \in Client /\ c.tax.written = "bare"
      /\ c.id \notin DOMAIN registered /\ ~Taken(c)
      /\ c.id \in DOMAIN charts
    BY DEF IInv, LockedIsNew, Registering, Register
<1>2. /\ registered' = [k \in DOMAIN registered \cup {c.id} |-> IF k = c.id THEN c ELSE registered[k]]
      /\ registering' = Nobody
      /\ UNCHANGED <<charts, rows, serving>>
    BY DEF Register, Holding
<1> HIDE DEF c
<1>3. RegistryKept'
  <2>1. /\ registered' = [id \in DOMAIN registered' |-> registered'[id]]
        /\ \A id \in DOMAIN registered' :
            /\ registered'[id] \in Client
            /\ registered'[id].tax.written = "bare"
            /\ id \in DOMAIN charts'
    BY <1>1, <1>2 DEF IInv, RegistryKept, Entered, Unshared
  <2>2. \A id \in DOMAIN registered : c.tax.code # "" => registered[id].tax # c.tax
    BY <1>1 DEF Taken
  <2>3. ASSUME NEW id \in DOMAIN registered', NEW other \in DOMAIN registered',
               id # other, registered'[id].tax.code # ""
        PROVE  registered'[id].tax # registered'[other].tax
    BY <2>2, <2>3, <1>2 DEF IInv, RegistryKept, Entered, Unshared
  <2> QED BY <2>1, <2>3 DEF RegistryKept, Entered, Unshared
<1>4. ChartsHold' /\ RowsKept' /\ ServesKnown'
    BY <1>2, ChartsFrame, RowsFrame, ServesFrame DEF IInv
<1>5. LockedIsNew'
    BY <1>2, LetGo
<1> QED BY <1>3, <1>4, <1>5 DEF IInv

\* An update finds the tax code free, of every client but the one it writes.
LEMMA UpdateKeeps ==
    ASSUME IInv, NEW form \in Forms, Update(form)
    PROVE  IInv'
<1> DEFINE c == Normalized(form)
           d == [c EXCEPT !.active = registered[c.id].active]
<1>1. c \in Client /\ c.tax.written = "bare"
    BY NormalizedIsClient, FormsAssumption
<1>2. /\ registering = Nobody /\ c.id \in DOMAIN registered /\ ~Taken(c)
      /\ registered' = [registered EXCEPT ![c.id] = d]
      /\ UNCHANGED <<registering, charts, rows, serving>>
    BY DEF Update, Known, Unlocked
<1> HIDE DEF c
<1>3. d \in Client /\ d.tax = c.tax
    BY <1>1, <1>2 DEF IInv, RegistryKept, Entered, Client
<1> HIDE DEF d
<1>4. RegistryKept'
  <2>1. DOMAIN registered' = DOMAIN registered
    BY <1>2
  <2>2. \A id \in DOMAIN registered : registered'[id] = IF id = c.id THEN d ELSE registered[id]
    BY <1>2 DEF IInv, RegistryKept, Entered, Unshared
  <2>3. \A id \in DOMAIN registered' :
            /\ registered'[id] \in Client
            /\ registered'[id].tax.written = "bare"
            /\ id \in DOMAIN charts'
    BY <2>1, <2>2, <1>1, <1>2, <1>3 DEF IInv, RegistryKept, Entered, Unshared
  <2>4. registered' = [id \in DOMAIN registered' |-> registered'[id]]
    BY <1>2 DEF IInv, RegistryKept, Entered, Unshared
  <2>5. \A id \in DOMAIN registered : id # c.id /\ c.tax.code # "" => registered[id].tax # c.tax
    BY <1>2 DEF Taken
  <2>6. ASSUME NEW id \in DOMAIN registered', NEW other \in DOMAIN registered',
               id # other, registered'[id].tax.code # ""
        PROVE  registered'[id].tax # registered'[other].tax
    <3>1. CASE id = c.id
      BY <3>1, <2>1, <2>2, <2>5, <2>6, <1>3
    <3>2. CASE other = c.id
      BY <3>2, <2>1, <2>2, <2>5, <2>6, <1>3
    <3>3. CASE id # c.id /\ other # c.id
      BY <3>3, <2>1, <2>2, <2>6 DEF IInv, RegistryKept, Unshared
    <3> QED BY <3>1, <3>2, <3>3
  <2> QED BY <2>3, <2>4, <2>6 DEF RegistryKept, Entered, Unshared
<1>5. ChartsHold' /\ RowsKept' /\ ServesKnown'
    BY <1>2, ChartsFrame, RowsFrame, ServesFrame DEF IInv
<1>6. LockedIsNew'
    BY <1>2, LetGo
<1> QED BY <1>4, <1>5, <1>6 DEF IInv

\* Closing or opening a client leaves its id and its tax code alone.
LEMMA SetActiveKeeps ==
    ASSUME IInv, NEW id \in DOMAIN registered, NEW active \in BOOLEAN, SetActive(id, active)
    PROVE  IInv'
<1> DEFINE d == [registered[id] EXCEPT !.active = active]
<1>1. /\ registering = Nobody
      /\ registered' = [registered EXCEPT ![id] = d]
      /\ UNCHANGED <<registering, charts, rows, serving>>
    BY DEF SetActive, Unlocked
<1>2. d \in Client /\ d.tax = registered[id].tax
    BY DEF IInv, RegistryKept, Entered, Client
<1> HIDE DEF d
<1>3. RegistryKept'
  <2>1. DOMAIN registered' = DOMAIN registered
    BY <1>1
  <2>2. \A i \in DOMAIN registered :
            /\ registered'[i] \in Client
            /\ registered'[i].tax = registered[i].tax
    BY <1>1, <1>2 DEF IInv, RegistryKept, Entered, Unshared
  <2>3. registered' = [i \in DOMAIN registered' |-> registered'[i]]
    BY <1>1 DEF IInv, RegistryKept, Entered, Unshared
  <2>4. \A i \in DOMAIN registered' :
            registered'[i].tax.written = "bare" /\ i \in DOMAIN charts'
    BY <2>1, <2>2, <1>1 DEF IInv, RegistryKept, Entered, Unshared
  <2>5. \A i, j \in DOMAIN registered' :
            i # j /\ registered'[i].tax.code # "" => registered'[i].tax # registered'[j].tax
    BY <2>1, <2>2 DEF IInv, RegistryKept, Unshared
  <2> QED BY <2>1, <2>2, <2>3, <2>4, <2>5 DEF RegistryKept, Entered, Unshared
<1>4. ChartsHold' /\ RowsKept' /\ ServesKnown'
    BY <1>1, ChartsFrame, RowsFrame, ServesFrame DEF IInv
<1>5. LockedIsNew'
    BY <1>1, LetGo
<1> QED BY <1>3, <1>4, <1>5 DEF IInv

-----------------------------------------------------------------------------
(* The requests' steps.                                                    *)

\* A request is admitted for a registered client only.
LEMMA AdmitKeeps ==
    ASSUME IInv, NEW o \in Operators, NEW call \in Calls, Admit(o, call)
    PROVE  IInv'
<1>1. /\ call.client \in DOMAIN registered
      /\ serving' = [serving EXCEPT ![o] = [pc |-> "handle", scope |-> call.client, call |-> call]]
      /\ UNCHANGED <<registered, registering, charts, rows>>
    BY DEF Admit, Known
<1>2. call.client \in STRING
    BY CallsAssumption DEF Call
<1>3. RegistryKept' /\ ChartsHold' /\ LockedIsNew' /\ RowsKept'
    BY <1>1, RegistryFrame, ChartsFrame, LockedFrame, RowsFrame DEF IInv
<1>4. ServesKnown'
    BY <1>1, <1>2 DEF IInv, ServesKnown, Nobody
<1> QED BY <1>3, <1>4 DEF IInv

\* An answered request leaves the registry and the other requests alone.
LEMMA AnswerKeeps ==
    ASSUME IInv, NEW o \in Operators, Answer(o), UNCHANGED <<registered, registering, charts>>
    PROVE  RegistryKept' /\ ChartsHold' /\ LockedIsNew' /\ ServesKnown'
<1>1. RegistryKept' /\ ChartsHold' /\ LockedIsNew'
    BY RegistryFrame, ChartsFrame, LockedFrame DEF IInv
<1>2. ServesKnown'
    BY DEF IInv, ServesKnown, Answer, Nobody
<1> QED BY <1>1, <1>2

\* A row is filed under the scope it was asked for, where no row has its id.
LEMMA PutKeeps ==
    ASSUME IInv, NEW o \in Operators, Put(o)
    PROVE  IInv'
<1> DEFINE scope == serving[o].scope
           call  == serving[o].call
           row   == [client |-> scope, id |-> call.id, number |-> call.number,
                     asked |-> call.client, owner |-> call.owner]
<1>1. /\ serving[o] # Nobody
      /\ Answer(o)
      /\ UNCHANGED <<registered, registering, charts>>
    BY DEF Put
<1>2. scope = call.client /\ scope \in DOMAIN registered
    BY <1>1 DEF IInv, ServesKnown
<1>3. \/ rows' = rows
      \/ /\ rows' = rows \cup {row}
         /\ call.owner \in {"", scope}
         /\ \A r \in rows : r.client = scope => r.id # call.id
    BY DEF Put, Owns, RowsIn
<1>4. RowsKept'
  <2>1. CASE rows' = rows
    BY <2>1, <1>1 DEF IInv, RowsKept
  <2>2. CASE /\ rows' = rows \cup {row}
             /\ call.owner \in {"", scope}
             /\ \A r \in rows : r.client = scope => r.id # call.id
    <3>1. /\ row.client = scope /\ row.id = call.id
          /\ row.asked = scope /\ row.owner \in {"", scope}
      BY <2>2, <1>2
    <3> HIDE DEF row, scope, call
    <3>2. \A r \in rows' : r.client \in DOMAIN registered' /\ r.asked = r.client /\ r.owner \in {"", r.client}
      BY <2>2, <3>1, <1>1, <1>2 DEF IInv, RowsKept
    <3>3. \A r, q \in rows' : r.client = q.client /\ r.id = q.id => r = q
      <4>1. \A r, q \in rows : r.client = q.client /\ r.id = q.id => r = q
        BY DEF IInv, RowsKept
      <4>2. \A r \in rows : ~(r.client = row.client /\ r.id = row.id)
        BY <2>2, <3>1
      <4> QED BY <4>1, <4>2, <2>2
    <3> QED BY <3>2, <3>3 DEF RowsKept
  <2> QED BY <1>3, <2>1, <2>2
<1> QED BY <1>1, <1>4, AnswerKeeps DEF IInv

\* Fewer rows break nothing.
LEMMA DeleteKeeps ==
    ASSUME IInv, NEW o \in Operators, Delete(o)
    PROVE  IInv'
<1>1. rows' \subseteq rows /\ Answer(o) /\ UNCHANGED <<registered, registering, charts>>
    BY DEF Delete
<1>2. RowsKept'
    BY <1>1 DEF IInv, RowsKept
<1> QED BY <1>1, <1>2, AnswerKeeps DEF IInv

\* A read answers and writes nothing.
LEMMA ReadKeeps ==
    ASSUME IInv, NEW o \in Operators, Read(o)
    PROVE  IInv'
<1>1. Answer(o) /\ UNCHANGED <<registered, registering, charts, rows>>
    BY DEF Read
<1>2. RowsKept'
    BY <1>1 DEF IInv, RowsKept
<1> QED BY <1>1, <1>2, AnswerKeeps DEF IInv

-----------------------------------------------------------------------------

\* Every step of the registry and of the requests keeps the invariant.
LEMMA NextKeeps == IInv /\ [ClientNext]_clientVars => IInv'
<1> SUFFICES ASSUME IInv, [ClientNext]_clientVars
             PROVE  IInv'
    OBVIOUS
<1>1. CASE \E form \in Forms : StartCreate(form) \/ Update(form)
    BY <1>1, StartCreateKeeps, UpdateKeeps
<1>2. CASE Provision
    BY <1>2, ProvisionKeeps
<1>3. CASE ProvisionFails
    BY <1>3, ProvisionFailsKeeps
<1>4. CASE Register
    BY <1>4, RegisterKeeps
<1>5. CASE \E id \in DOMAIN registered : \E active \in BOOLEAN : SetActive(id, active)
    BY <1>5, SetActiveKeeps
<1>6. CASE \E o \in Operators : Put(o) \/ Delete(o) \/ Read(o) \/ \E call \in Calls : Admit(o, call)
    BY <1>6, PutKeeps, DeleteKeeps, ReadKeeps, AdmitKeeps
<1>7. CASE UNCHANGED clientVars
    BY <1>7, RegistryFrame, ChartsFrame, LockedFrame, ServesFrame, RowsFrame DEF clientVars, IInv
<1> QED BY <1>1, <1>2, <1>3, <1>4, <1>5, <1>6, <1>7 DEF ClientNext

\* Two tax codes of one written form are the same where their digits are.
LEMMA KeptIsOneLedger == IInv => OneCompanyOneLedger
<1> SUFFICES ASSUME IInv PROVE OneCompanyOneLedger
    OBVIOUS
<1>1. ASSUME NEW id \in DOMAIN registered, NEW other \in DOMAIN registered,
             id # other, registered[id].tax.code # ""
      PROVE  registered[id].tax.code # registered[other].tax.code
  <2>1. /\ registered[id].tax \in TaxID /\ registered[other].tax \in TaxID
        /\ registered[id].tax.written = "bare" /\ registered[other].tax.written = "bare"
        /\ registered[id].tax # registered[other].tax
    <3>1. registered[id] \in Client /\ registered[other] \in Client
      BY DEF IInv, RegistryKept, Entered
    <3>2. registered[id].tax.written = "bare" /\ registered[other].tax.written = "bare"
      BY DEF IInv, RegistryKept, Entered
    <3>3. registered[id].tax # registered[other].tax
      BY <1>1 DEF IInv, RegistryKept, Unshared
    <3> QED BY <3>1, <3>2, <3>3 DEF Client
  <2> QED BY <2>1 DEF TaxID
<1>2. \A id \in DOMAIN registered : id \in DOMAIN charts /\ ValidChart(charts[id])
    BY DEF IInv, RegistryKept, Entered, ChartsHold
<1> QED BY <1>1, <1>2 DEF IInv, RowsKept, Known, OneCompanyOneLedger

\* However tax codes are written, updates and registrations follow one another
\* and books fail to be set up, one company has one ledger with a chart, and a
\* row is of the client whose request filed it.
THEOREM LedgersKept == ClientSpec => []OneCompanyOneLedger
<1>1. ClientSpec => []IInv
    BY InitKept, NextKeeps, PTL DEF ClientSpec
<1> QED BY <1>1, KeptIsOneLedger, PTL

-----------------------------------------------------------------------------
(* Settlements.                                                            *)

Transacting(now) == now.pc \in {"check", "insert", "commit"}

\* The row that a place of a plan makes, and the one that comes next.
RowAt(now, place) ==
    [paper |-> now.plan[place].paper, amount |-> now.plan[place].amount,
     voucher |-> now.payment.voucher, seen |-> now.papers, plan |-> now.plan, call |-> now.call]
Coming(now) == RowAt(now, FirstPlace(now.waiting))

\* A transaction after the trigger's reading, and after the row it let in.
Checked(now) == [now EXCEPT !.pc = "insert", !.sharing = @ \cup {Coming(now).paper}]
Inserted(now) ==
    LET waiting == now.waiting \ {FirstPlace(now.waiting)}
    IN  [now EXCEPT !.pc = IF waiting = {} THEN "commit" ELSE "check",
                    !.written = @ \cup {Coming(now)}, !.waiting = waiting]

\* What a clerk holds in the middle of a transaction.
Shape(now) ==
    now = [pc |-> now.pc, payment |-> now.payment, papers |-> now.papers, plan |-> now.plan,
           waiting |-> now.waiting, call |-> now.call, written |-> now.written,
           sharing |-> now.sharing]

PlanRow(papers) == [paper : papers, amount : Nat \ {0}]

\* What it has written is the part of its plan that no longer waits.
Planned(now, docs) ==
    /\ Shape(now)
    /\ now.papers \subseteq docs
    /\ DOMAIN now.plan \subseteq Nat
    /\ \A i \in DOMAIN now.plan : now.plan[i] \in PlanRow(now.papers)
    /\ now.waiting \subseteq DOMAIN now.plan
    /\ now.waiting = {} <=> now.pc = "commit"
    /\ now.written = {RowAt(now, i) : i \in DOMAIN now.plan \ now.waiting}
    /\ IsFiniteSet(now.written)

\* It has locked the documents whose rows it wrote or the trigger has read for it.
Locked(now) ==
    /\ \A r \in now.written : r.paper \in now.sharing
    /\ now.pc = "insert" => Coming(now).paper \in now.sharing

\* What the trigger found is still so.
Covered(now, entries) ==
    /\ \A r \in now.written : SettledOn(r.paper, entries \cup now.written) <= r.paper.amount
    /\ now.pc = "insert" =>
        SettledOn(Coming(now).paper, entries \cup now.written) + Coming(now).amount
            <= Coming(now).paper.amount

\* The plan pays whatever is still owed on a document older than one it pays.
PaysOlder(now, entries) ==
    \A i \in DOMAIN now.plan : \A d \in now.papers :
        Older(d, now.plan[i].paper) =>
            \/ d.amount <= SettledOn(d, entries)
            \/ \E j \in DOMAIN now.plan :
                now.plan[j].paper = d /\ d.amount <= SettledOn(d, entries) + now.plan[j].amount

\* A document with rows that are not committed is shared with nobody else.
Apart(now, other) == \A r \in now.written : r.paper \notin other.sharing

Reading(now, docs) == now.pc = "owed" /\ now.payment \in Receipts /\ now.papers \subseteq docs

Transaction(now, docs, entries) ==
    Transacting(now) /\ Planned(now, docs) /\ Locked(now) /\ Covered(now, entries) /\ PaysOlder(now, entries)

DeskTypes ==
    /\ issued \subseteq Paper /\ IsFiniteSet(issued) /\ \A d \in issued : d.amount \in Nat
    /\ IsFiniteSet(allocated)
    /\ \A r \in allocated : r.paper \in issued /\ r.amount \in Nat /\ r.seen \subseteq issued
    /\ attempts \in Nat
    /\ settling = [c \in Clerks |-> settling[c]]

AtWork ==
    \A c \in Clerks :
        \/ settling[c] = AtDesk
        \/ Reading(settling[c], issued)
        \/ Transaction(settling[c], issued, allocated)

\* A call is one clerk's, and what it wrote is not committed yet.
OwnCalls ==
    /\ \A r \in allocated : r.call \in 1 .. attempts
    /\ \A c \in Clerks : settling[c] # AtDesk =>
        /\ settling[c].call \in 1 .. attempts
        /\ \A r \in allocated : r.call # settling[c].call
        /\ \A o \in Clerks \ {c} : settling[o] # AtDesk => settling[o].call # settling[c].call

AllApart ==
    \A c \in Clerks : \A o \in Clerks \ {c} :
        Transacting(settling[c]) /\ Transacting(settling[o]) => Apart(settling[c], settling[o])

SettlementIInv ==
    DeskTypes /\ AtWork /\ OwnCalls /\ AllApart /\ NothingOverSettled /\ OldestSettledFirst

-----------------------------------------------------------------------------
(* What is settled on a document.                                          *)

\* The rows of a document, and what each is worth.
On(d, entries) == {s \in entries : s.paper = d}
Amounts(entries) == [r \in entries |-> r.amount]

\* What is settled is a sum over any larger set of rows.
LEMMA SettledOver ==
    ASSUME NEW d, NEW more, NEW entries \in SUBSET more
    PROVE  SettledOn(d, entries) = Over(Amounts(more), On(d, entries))
<1>1. [r \in On(d, entries) |-> r.amount] = [r \in On(d, entries) |-> Amounts(more)[r]]
  BY DEF On, Amounts
<1> QED
  BY <1>1 DEF SettledOn, Over, On

\* More rows settle no less.
LEMMA SettledGrows ==
    ASSUME NEW d, NEW more, IsFiniteSet(more), \A r \in more : r.amount \in Nat,
           NEW entries \in SUBSET more
    PROVE  /\ SettledOn(d, entries) \in Nat /\ SettledOn(d, more) \in Nat
           /\ SettledOn(d, entries) <= SettledOn(d, more)
<1> DEFINE few == On(d, entries)
           many == On(d, more)
<1>1. few \subseteq many /\ many \subseteq more
  BY DEF On
<1>2. IsFiniteSet(many) /\ IsFiniteSet(few)
  BY <1>1, FS_Subset
<1>3. \A r \in many : Amounts(more)[r] \in Nat
  BY <1>1 DEF Amounts
<1>4. SettledOn(d, entries) = Over(Amounts(more), few) /\ SettledOn(d, more) = Over(Amounts(more), many)
  BY SettledOver
<1> HIDE DEF few, many
<1>5. Over(Amounts(more), few) \in Nat /\ Over(Amounts(more), many) \in Nat
  BY <1>1, <1>2, <1>3, OverNat
<1>6. Over(Amounts(more), few) <= Over(Amounts(more), many)
  BY <1>1, <1>2, <1>3, OverPart
<1> QED
  BY <1>4, <1>5, <1>6

\* Rows of other documents settle nothing on this one.
LEMMA SettledElsewhere ==
    ASSUME NEW d, NEW entries, NEW others, \A r \in others : r.paper # d
    PROVE  SettledOn(d, entries \cup others) = SettledOn(d, entries)
<1>1. On(d, entries \cup others) = On(d, entries)
  BY DEF On
<1> QED
  BY <1>1 DEF SettledOn, On

\* A row settles its amount on its document.
LEMMA SettledMore ==
    ASSUME NEW entries, IsFiniteSet(entries), \A s \in entries : s.amount \in Nat, NEW r, r.amount \in Nat
    PROVE  /\ SettledOn(r.paper, entries \cup {r}) <= SettledOn(r.paper, entries) + r.amount
           /\ r \notin entries => SettledOn(r.paper, entries \cup {r}) = SettledOn(r.paper, entries) + r.amount
<1> DEFINE more == entries \cup {r}
           few == On(r.paper, entries)
           many == On(r.paper, more)
<1>1. many = few \cup {r} /\ few \subseteq entries
  BY DEF On
<1>2. SettledOn(r.paper, entries) = Over(Amounts(more), few) /\ SettledOn(r.paper, more) = Over(Amounts(more), many)
  BY SettledOver
<1>3. IsFiniteSet(few) /\ \A s \in few \cup {r} : Amounts(more)[s] \in Int
  BY <1>1, FS_Subset DEF Amounts
<1>4. SettledOn(r.paper, entries) \in Nat
  BY SettledGrows
<1>5. Amounts(more)[r] = r.amount
  BY DEF Amounts
<1>6. CASE r \in entries
  <2>1. more = entries
    BY <1>6
  <2> HIDE DEF more
  <2>2. SettledOn(r.paper, more) <= SettledOn(r.paper, entries) + r.amount
    BY <1>4, <2>1
  <2> QED
    BY <1>6, <2>2 DEF more
<1>7. CASE r \notin entries
  <2>1. r \notin few
    BY <1>1, <1>7
  <2> HIDE DEF more, few, many
  <2>2. Over(Amounts(more), few \cup {r}) = Over(Amounts(more), few) + Amounts(more)[r]
    BY <1>3, <2>1, OverAdd
  <2>3. SettledOn(r.paper, more) = SettledOn(r.paper, entries) + r.amount
    BY <1>1, <1>2, <1>5, <2>2
  <2> QED
    BY <1>4, <2>3 DEF more
<1> QED
  BY <1>6, <1>7

-----------------------------------------------------------------------------
(* The plan.                                                               *)

\* What is left of a payment after each of the first documents has taken its
\* share of what is due.
Remains(payment, due, n, left) ==
    left = [i \in 0 .. n |-> IF i = 0 THEN payment ELSE left[i - 1] - Applied(left[i - 1], due[i])]

\* There is such a function.
LEMMA RemainsExists ==
    ASSUME NEW payment, NEW due, NEW n \in Nat
    PROVE  \E left : Remains(payment, due, n, left)
<1> DEFINE Bad == {k \in Nat : ~\E left : Remains(payment, due, k, left)}
<1>1. SUFFICES ASSUME Bad # {} PROVE FALSE
  OBVIOUS
<1>2. PICK k \in Bad : \A m \in Bad : ~(m < k)
  <2>1. Bad \in SUBSET Nat
    OBVIOUS
  <2> HIDE DEF Bad
  <2> QED
    BY <1>1, <2>1, LeastNumber
<1>3. CASE k = 0
  <2> DEFINE left == [i \in 0 .. 0 |-> payment]
  <2>1. Remains(payment, due, 0, left)
    BY DEF Remains
  <2> QED
    BY <1>3, <2>1
<1>4. CASE k # 0
  <2>1. k - 1 \in Nat /\ k - 1 < k
    BY <1>4
  <2>2. PICK left : Remains(payment, due, k - 1, left)
    BY <1>2, <2>1
  <2> DEFINE longer == [i \in 0 .. k |->
                          IF i = k THEN left[k - 1] - Applied(left[k - 1], due[k]) ELSE left[i]]
  <2>3. Remains(payment, due, k, longer)
    <3>1. \A i \in 0 .. k - 1 : longer[i] = left[i]
      BY <2>1
    <3>2. longer[k] = longer[k - 1] - Applied(longer[k - 1], due[k])
      BY <2>1, <3>1
    <3>3. \A i \in 0 .. k - 1 :
            left[i] = IF i = 0 THEN payment ELSE left[i - 1] - Applied(left[i - 1], due[i])
      BY <2>1, <2>2 DEF Remains
    <3>4. \A i \in 0 .. k - 1 : i # 0 => i - 1 \in 0 .. k - 1
      BY <2>1
    <3>5. \A i \in 0 .. k :
            longer[i] = IF i = 0 THEN payment ELSE longer[i - 1] - Applied(longer[i - 1], due[i])
      <4> TAKE i \in 0 .. k
      <4>1. CASE i = k
        BY <1>4, <3>2, <4>1
      <4>2. CASE i # k
        <5>1. i \in 0 .. k - 1
          BY <4>2
        <5>2. longer[i] = left[i] /\ (i # 0 => longer[i - 1] = left[i - 1])
          BY <3>1, <3>4, <5>1
        <5> HIDE DEF longer
        <5> QED
          BY <3>3, <5>1, <5>2
      <4> QED
        BY <4>1, <4>2
    <3>6. longer = [i \in 0 .. k |-> longer[i]]
      OBVIOUS
    <3> HIDE DEF longer
    <3> QED
      BY <3>5, <3>6 DEF Remains
  <2> QED
    BY <1>2, <2>3
<1> QED
  BY <1>3, <1>4

\* It never falls below nothing and never rises, and a document that took less
\* than it was due left nothing.
LEMMA RemainsFalls ==
    ASSUME NEW payment \in Nat, NEW n \in Nat, NEW due, \A i \in 1 .. n : due[i] \in Int,
           NEW left, Remains(payment, due, n, left)
    PROVE  /\ \A i \in 0 .. n : left[i] \in Nat
           /\ \A i \in 0 .. n : \A j \in 0 .. i : left[i] <= left[j]
<1>1. left[0] = payment
  BY DEF Remains
<1>2. ASSUME NEW i \in 1 .. n, left[i - 1] \in Nat
      PROVE  left[i] \in Nat /\ left[i] <= left[i - 1]
  <2>1. left[i] = left[i - 1] - Applied(left[i - 1], due[i])
    BY DEF Remains
  <2>2. due[i] \in Int
    OBVIOUS
  <2> QED
    BY <1>2, <2>1, <2>2 DEF Applied
<1> DEFINE Fine(i) == left[i] \in Nat /\ \A j \in 0 .. i : left[i] <= left[j]
           Bad == {i \in 0 .. n : ~Fine(i)}
<1>3. SUFFICES ASSUME Bad # {} PROVE FALSE
  OBVIOUS
<1>4. PICK k \in Bad : \A m \in Bad : ~(m < k)
  <2>1. Bad \in SUBSET Nat
    OBVIOUS
  <2> HIDE DEF Bad
  <2> QED
    BY <1>3, <2>1, LeastNumber
<1>5. CASE k = 0
  BY <1>1, <1>4, <1>5
<1>6. CASE k # 0
  <2>1. k - 1 \in 0 .. n /\ k \in 1 .. n
    BY <1>6
  <2>2. Fine(k - 1)
    BY <1>4, <2>1
  <2>3. left[k] \in Nat /\ left[k] <= left[k - 1]
    BY <1>2, <2>1, <2>2
  <2>4. ASSUME NEW j \in 0 .. k PROVE left[k] <= left[j]
    <3>1. CASE j = k
      BY <2>3, <3>1
    <3>2. CASE j # k
      <4>1. j \in 0 .. k - 1
        BY <3>2
      <4>2. left[k - 1] <= left[j] /\ left[j] \in Nat /\ left[k - 1] \in Nat
        <5>1. left[k - 1] <= left[j]
          BY <2>2, <4>1
        <5>2. Fine(j)
          BY <1>4, <4>1
        <5> QED
          BY <2>2, <5>1, <5>2
      <4> QED
        BY <2>3, <4>2
    <3> QED
      BY <3>1, <3>2
  <2> QED
    BY <1>4, <2>3, <2>4
<1> QED
  BY <1>5, <1>6

\* An order of the papers has each of them, and the older one first.
LEMMA OrderingFacts ==
    ASSUME NEW papers \in SUBSET Paper, IsFiniteSet(papers), NEW order \in Orderings(papers)
    PROVE  /\ Cardinality(papers) \in Nat /\ DOMAIN order = 1 .. Cardinality(papers)
           /\ \A i \in DOMAIN order : order[i] \in papers
           /\ \A d \in papers : \E i \in DOMAIN order : order[i] = d
           /\ \A i, j \in DOMAIN order : Older(order[j], order[i]) => j < i
<1> DEFINE n == Cardinality(papers)
<1>1. n \in Nat
  BY FS_CardinalityType
<1>2. order \in [1 .. n -> papers]
  BY DEF Orderings
<1>3. \A i, j \in 1 .. n : i < j => order[i] # order[j] /\ ~OldestFirst(order[j], order[i])
  BY DEF Orderings
<1>4. \A i, j \in 1 .. n : i # j => order[i] # order[j]
  BY <1>1, <1>3
<1>5. IsFiniteSet(1 .. n) /\ Cardinality(1 .. n) = n
  BY <1>1, FS_Interval
<1>6. order \in Injection(1 .. n, papers)
  BY <1>2, <1>4, Fun_IsInj
<1>7. order \in Surjection(1 .. n, papers)
  BY <1>5, <1>6, FS_Injection
<1>8. \A d \in papers : \E i \in 1 .. n : order[i] = d
  BY <1>7, Fun_IsSurj DEF Surjection
<1>9. ASSUME NEW i \in 1 .. n, NEW j \in 1 .. n, Older(order[j], order[i]) PROVE j < i
  <2>1. order[i] \in Paper
    BY <1>2
  <2>2. order[i].day \in Nat /\ order[i].reference \in Nat
    BY <2>1 DEF Paper
  <2>3. i # j
    BY <1>9, <2>2 DEF Older
  <2>4. ~(i < j)
    BY <1>3, <1>9 DEF OldestFirst
  <2> QED
    BY <1>1, <2>3, <2>4
<1> QED
  BY <1>1, <1>2, <1>8, <1>9

\* A plan that takes from no document more than it is owed, and pays in full
\* whatever is owed on one that is older than one it pays.
OldestFirstPlan(papers, owed, plan) ==
    /\ DOMAIN plan \subseteq Nat
    /\ \A i \in DOMAIN plan : plan[i] \in PlanRow(papers)
    /\ \A i \in DOMAIN plan : \A d \in papers :
        Older(d, plan[i].paper) =>
          \/ owed[d] <= 0
          \/ \E j \in DOMAIN plan : plan[j].paper = d /\ plan[j].amount = owed[d]

\* PlanAllocation makes such plans.
LEMMA PlanFacts ==
    ASSUME NEW papers \in SUBSET Paper, IsFiniteSet(papers), NEW order \in Orderings(papers),
           NEW payment \in Nat, NEW owed \in [papers -> Int],
           NEW plan, plan = PlanAllocation(payment, owed, order)
    PROVE  OldestFirstPlan(papers, owed, plan)
<1> DEFINE n == Cardinality(papers)
           due == [i \in 1 .. n |-> owed[order[i]]]
           left == CHOOSE f : Remains(payment, due, n, f)
           amount == [i \in 1 .. n |-> Applied(left[i - 1], due[i])]
<1>1. /\ n \in Nat /\ DOMAIN order = 1 .. n
      /\ \A i \in 1 .. n : order[i] \in papers
      /\ \A d \in papers : \E i \in 1 .. n : order[i] = d
      /\ \A i, j \in 1 .. n : Older(order[j], order[i]) => j < i
  BY OrderingFacts
<1>2. \A i \in 1 .. n : due[i] = owed[order[i]] /\ due[i] \in Int
  BY <1>1
<1>3. plan = [i \in {j \in 1 .. n : amount[j] > 0} |-> Allocating(order[i], amount[i])]
  <2>1. DOMAIN owed = papers /\ DOMAIN order = 1 .. n
    BY <1>1
  <2> QED
    BY <2>1 DEF PlanAllocation, Remains
<1>4. Remains(payment, due, n, left)
  <2>1. \E f : Remains(payment, due, n, f)
    BY <1>1, RemainsExists
  <2> HIDE DEF due, n
  <2> QED
    BY <2>1
<1> HIDE DEF left, due
<1>5. /\ \A i \in 0 .. n : left[i] \in Nat
      /\ \A i \in 0 .. n : \A j \in 0 .. i : left[i] <= left[j]
  BY <1>1, <1>2, <1>4, RemainsFalls
<1>6. \A i \in 1 .. n : left[i] = left[i - 1] - amount[i]
  BY <1>1, <1>2, <1>4 DEF Remains
<1>7. \A i \in 1 .. n : owed[order[i]] \in Int /\ left[i - 1] \in Nat /\ amount[i] \in Nat
  <2> TAKE i \in 1 .. n
  <2>1. owed[order[i]] \in Int /\ left[i - 1] \in Nat /\ due[i] = owed[order[i]]
    BY <1>1, <1>2, <1>5
  <2> QED
    BY <2>1 DEF Applied
<1>8. ASSUME NEW i \in 1 .. n, amount[i] > 0, NEW j \in 1 .. n, j < i, owed[order[j]] > 0
      PROVE  amount[j] = owed[order[j]]
  <2>1. left[i - 1] > 0
    BY <1>7, <1>8 DEF Applied
  <2>2. left[i - 1] <= left[j] /\ left[j] \in Nat /\ left[i - 1] \in Nat
    <3>1. i - 1 \in 0 .. n /\ j \in 0 .. i - 1 /\ j \in 0 .. n
      BY <1>1, <1>8
    <3> QED
      BY <1>5, <3>1
  <2>3. left[j] > 0 /\ left[j] = left[j - 1] - amount[j]
    BY <1>6, <2>1, <2>2
  <2>4. amount[j] = IF left[j - 1] < owed[order[j]] THEN left[j - 1] ELSE owed[order[j]]
    BY <1>2, <1>7, <1>8 DEF Applied
  <2> QED
    BY <1>7, <2>3, <2>4
<1> HIDE DEF amount
<1>9. \A i \in DOMAIN plan : plan[i] = Allocating(order[i], amount[i]) /\ i \in 1 .. n /\ amount[i] > 0
  BY <1>3
<1>10. DOMAIN plan \subseteq Nat /\ \A i \in DOMAIN plan : plan[i] \in PlanRow(papers)
  BY <1>1, <1>7, <1>9 DEF PlanRow, Allocating
<1>11. ASSUME NEW i \in DOMAIN plan, NEW d \in papers, Older(d, plan[i].paper), ~(owed[d] <= 0)
       PROVE  \E j \in DOMAIN plan : plan[j].paper = d /\ plan[j].amount = owed[d]
  <2>1. plan[i].paper = order[i] /\ i \in 1 .. n /\ amount[i] > 0
    BY <1>9 DEF Allocating
  <2>2. PICK j \in 1 .. n : order[j] = d
    BY <1>1
  <2>3. j < i /\ owed[order[j]] > 0
    BY <1>1, <1>7, <1>11, <2>1, <2>2
  <2>4. amount[j] = owed[order[j]]
    BY <1>8, <2>1, <2>3
  <2>5. j \in DOMAIN plan
    BY <1>3, <1>7, <2>3, <2>4
  <2> QED
    BY <1>9, <2>2, <2>4, <2>5 DEF Allocating
<1> QED
  BY <1>10, <1>11 DEF OldestFirstPlan

-----------------------------------------------------------------------------
(* One transaction.                                                        *)

\* The first of some places is one of them.
LEMMA FirstOfPlaces ==
    ASSUME NEW places \in SUBSET Nat, places # {}
    PROVE  FirstPlace(places) \in places
<1>1. PICK i \in places : \A j \in places : ~(j < i)
  BY LeastNumber
<1>2. \A j \in places : i <= j
  BY <1>1
<1> QED
  BY <1>2 DEF FirstPlace

\* The row that comes next.
LEMMA ComingRow ==
    ASSUME NEW now, NEW docs \in SUBSET Paper, Planned(now, docs), now.pc # "commit"
    PROVE  /\ FirstPlace(now.waiting) \in now.waiting
           /\ Coming(now).paper \in now.papers /\ Coming(now).amount \in Nat \ {0}
           /\ Coming(now).call = now.call
<1>1. now.waiting # {} /\ now.waiting \in SUBSET Nat /\ now.waiting \subseteq DOMAIN now.plan
  BY DEF Planned
<1>2. FirstPlace(now.waiting) \in now.waiting
  BY <1>1, FirstOfPlaces
<1>3. now.plan[FirstPlace(now.waiting)] \in PlanRow(now.papers)
  BY <1>1, <1>2 DEF Planned
<1> QED
  BY <1>2, <1>3 DEF Coming, RowAt, PlanRow

\* What a transaction wrote are rows of its call, on documents it had read.
LEMMA WrittenRows ==
    ASSUME NEW now, NEW docs, Planned(now, docs), NEW r \in now.written
    PROVE  /\ r.paper \in docs /\ r.amount \in Nat /\ r.call = now.call
           /\ r.seen = now.papers /\ r.plan = now.plan
           /\ \E i \in DOMAIN now.plan \ now.waiting : r = RowAt(now, i)
<1>1. PICK i \in DOMAIN now.plan \ now.waiting : r = RowAt(now, i)
  BY DEF Planned
<1>2. now.plan[i] \in PlanRow(now.papers) /\ now.papers \subseteq docs
  BY DEF Planned
<1> QED
  BY <1>1, <1>2 DEF RowAt, PlanRow

\* The trigger's reading keeps the transaction's invariant.
LEMMA CheckKeeps ==
    ASSUME NEW now, NEW docs \in SUBSET Paper, NEW entries, Transaction(now, docs, entries), now.pc = "check",
           SettledOn(Coming(now).paper, entries \cup now.written) + Coming(now).amount
               <= Coming(now).paper.amount,
           NEW then, then = Checked(now)
    PROVE  /\ Transaction(then, docs, entries)
           /\ then.call = now.call /\ then.written = now.written
           /\ then.sharing = now.sharing \cup {Coming(now).paper}
<1>1. /\ then.pc = "insert" /\ then.payment = now.payment /\ then.papers = now.papers
      /\ then.plan = now.plan /\ then.waiting = now.waiting /\ then.call = now.call
      /\ then.written = now.written /\ then.sharing = now.sharing \cup {Coming(now).paper}
      /\ Shape(then)
  BY DEF Transaction, Planned, Shape, Checked
<1>2. \A i : RowAt(then, i) = RowAt(now, i)
  BY <1>1 DEF RowAt
<1>3. Coming(then) = Coming(now)
  BY <1>1, <1>2 DEF Coming
<1>4. Planned(then, docs)
  <2>1. then.written = {RowAt(then, i) : i \in DOMAIN then.plan \ then.waiting}
    BY <1>1, <1>2 DEF Transaction, Planned
  <2> QED
    BY <1>1, <2>1 DEF Transaction, Planned
<1>5. Locked(then)
  BY <1>1, <1>3 DEF Transaction, Locked
<1>6. Covered(then, entries)
  BY <1>1, <1>3 DEF Transaction, Covered
<1>7. PaysOlder(then, entries)
  BY <1>1 DEF Transaction, PaysOlder
<1> QED
  BY <1>1, <1>4, <1>5, <1>6, <1>7 DEF Transaction, Transacting

\* And so does the row it let in.
LEMMA InsertKeeps ==
    ASSUME NEW now, NEW docs \in SUBSET Paper, \A d \in docs : d.amount \in Nat,
           NEW entries, IsFiniteSet(entries), \A r \in entries : r.amount \in Nat,
           Transaction(now, docs, entries), now.pc = "insert",
           NEW then, then = Inserted(now)
    PROVE  /\ Transaction(then, docs, entries)
           /\ then.call = now.call /\ then.written = now.written \cup {Coming(now)}
           /\ then.sharing = now.sharing
<1> DEFINE new == Coming(now)
           waiting == now.waiting \ {FirstPlace(now.waiting)}
<1>1. /\ then.pc = (IF waiting = {} THEN "commit" ELSE "check")
      /\ then.payment = now.payment /\ then.papers = now.papers
      /\ then.plan = now.plan /\ then.waiting = waiting /\ then.call = now.call
      /\ then.written = now.written \cup {new} /\ then.sharing = now.sharing
      /\ Shape(then)
  BY DEF Transaction, Planned, Shape, Inserted
<1>2. \A i : RowAt(then, i) = RowAt(now, i)
  BY <1>1 DEF RowAt
<1>3. /\ FirstPlace(now.waiting) \in now.waiting /\ now.waiting \subseteq DOMAIN now.plan
      /\ new.paper \in docs /\ new.amount \in Nat
  BY ComingRow DEF Transaction, Planned
<1>4. Planned(then, docs)
  <2>1. DOMAIN now.plan \ waiting = (DOMAIN now.plan \ now.waiting) \cup {FirstPlace(now.waiting)}
    BY <1>3
  <2>2. now.written = {RowAt(now, i) : i \in DOMAIN now.plan \ now.waiting}
    BY DEF Transaction, Planned
  <2>3. then.written = {RowAt(now, i) : i \in DOMAIN now.plan \ waiting}
    BY <1>1, <2>1, <2>2 DEF Coming
  <2>4. then.written = {RowAt(then, i) : i \in DOMAIN then.plan \ then.waiting}
    <3>1. DOMAIN then.plan \ then.waiting = DOMAIN now.plan \ waiting
      BY <1>1
    <3>2. {RowAt(then, i) : i \in DOMAIN now.plan \ waiting} = {RowAt(now, i) : i \in DOMAIN now.plan \ waiting}
      BY <1>2
    <3> QED
      BY <2>3, <3>1, <3>2
  <2>5. IsFiniteSet(then.written)
    <3>1. IsFiniteSet(now.written)
      BY DEF Transaction, Planned
    <3> HIDE DEF new
    <3> QED
      BY <1>1, <3>1, FS_AddElement
  <2>6. then.waiting \subseteq DOMAIN then.plan /\ (then.waiting = {} <=> then.pc = "commit")
    BY <1>1, <1>3
  <2> QED
    BY <1>1, <2>4, <2>5, <2>6 DEF Transaction, Planned
<1>5. Locked(then)
  BY <1>1 DEF Transaction, Locked
<1>6. Covered(then, entries)
  <2> DEFINE some == entries \cup now.written
             more == entries \cup then.written
  <2>1. more = some \cup {new}
    BY <1>1
  <2>2. IsFiniteSet(some) /\ \A r \in some : r.amount \in Nat
    BY FS_Union, WrittenRows DEF Transaction, Planned
  <2>3. \A r \in now.written : SettledOn(r.paper, some) <= r.paper.amount
    BY DEF Transaction, Covered
  <2>4. SettledOn(new.paper, some) + new.amount <= new.paper.amount
    BY DEF Transaction, Covered
  <2>5. ASSUME NEW r \in then.written PROVE SettledOn(r.paper, more) <= r.paper.amount
    <3> HIDE DEF some, more, new
    <3>1. CASE r.paper = new.paper
      <4>1. SettledOn(new.paper, some \cup {new}) <= SettledOn(new.paper, some) + new.amount
        BY <1>3, <2>2, SettledMore
      <4>2. SettledOn(new.paper, some) \in Nat /\ new.paper.amount \in Nat
        BY <1>3, <2>2, SettledGrows
      <4>3. SettledOn(new.paper, more) \in Nat
        BY <1>3, <2>1, <2>2, FS_AddElement, SettledGrows
      <4>4. SettledOn(new.paper, more) <= SettledOn(new.paper, some) + new.amount
        BY <2>1, <4>1
      <4> QED
        BY <1>3, <2>4, <3>1, <4>2, <4>3, <4>4
    <3>2. CASE r.paper # new.paper
      <4>1. r \in now.written
        BY <1>1, <3>2
      <4>2. SettledOn(r.paper, some \cup {new}) = SettledOn(r.paper, some)
        BY <3>2, SettledElsewhere
      <4> QED
        BY <2>1, <2>3, <4>1, <4>2
    <3> QED
      BY <3>1, <3>2
  <2> QED
    BY <1>1, <2>5 DEF Covered
<1>7. PaysOlder(then, entries)
  BY <1>1 DEF Transaction, PaysOlder
<1> QED
  BY <1>1, <1>4, <1>5, <1>6, <1>7 DEF Transaction, Transacting

\* A reading of what is owed turns into a plan that pays the oldest first.
LEMMA PlanKeeps ==
    ASSUME NEW docs \in SUBSET Paper, IsFiniteSet(docs), \A d \in docs : d.amount \in Nat,
           NEW entries, IsFiniteSet(entries), \A r \in entries : r.amount \in Nat,
           NEW now, Reading(now, docs), now.payment.amount > 0,
           NEW order \in Orderings(now.papers),
           NEW plan,
           plan = PlanAllocation(now.payment.amount,
                                 [d \in now.papers |-> d.amount - SettledOn(d, entries)], order),
           DOMAIN plan # {},
           NEW then,
           then = [pc |-> "check", payment |-> now.payment, papers |-> now.papers, plan |-> plan,
                   waiting |-> DOMAIN plan, call |-> now.call, written |-> {}, sharing |-> {}]
    PROVE  Transaction(then, docs, entries)
<1> DEFINE owed == [d \in now.papers |-> d.amount - SettledOn(d, entries)]
<1>1. /\ now.papers \in SUBSET Paper /\ IsFiniteSet(now.papers) /\ now.papers \subseteq docs
      /\ now.payment.amount \in Nat
  BY ReceiptsAssumption, FS_Subset DEF Reading
<1>2. \A d \in now.papers : d.amount \in Nat /\ SettledOn(d, entries) \in Nat
  BY <1>1, SettledGrows
<1>3. owed \in [now.papers -> Int] /\ \A d \in now.papers : owed[d] = d.amount - SettledOn(d, entries)
  BY <1>2
<1>4. plan = PlanAllocation(now.payment.amount, owed, order)
  OBVIOUS
<1> HIDE DEF owed
<1>5. /\ DOMAIN plan \subseteq Nat /\ \A i \in DOMAIN plan : plan[i] \in PlanRow(now.papers)
      /\ \A i \in DOMAIN plan : \A d \in now.papers :
            Older(d, plan[i].paper) =>
              \/ owed[d] <= 0
              \/ \E j \in DOMAIN plan : plan[j].paper = d /\ plan[j].amount = owed[d]
  <2>1. OldestFirstPlan(now.papers, owed, plan)
    BY <1>1, <1>3, <1>4, PlanFacts
  <2> QED
    BY <2>1 DEF OldestFirstPlan
<1>6. Planned(then, docs)
  BY <1>1, <1>5, FS_EmptySet DEF Planned, Shape
<1>7. PaysOlder(then, entries)
  <2>0. then.plan = plan /\ then.papers = now.papers
    OBVIOUS
  <2> SUFFICES ASSUME NEW i \in DOMAIN plan, NEW d \in now.papers, Older(d, plan[i].paper)
               PROVE  \/ d.amount <= SettledOn(d, entries)
                      \/ \E j \in DOMAIN plan :
                          plan[j].paper = d /\ d.amount <= SettledOn(d, entries) + plan[j].amount
    BY <2>0 DEF PaysOlder
  <2>1. owed[d] <= 0 \/ \E j \in DOMAIN plan : plan[j].paper = d /\ plan[j].amount = owed[d]
    BY <1>5
  <2>2. d.amount \in Nat /\ SettledOn(d, entries) \in Nat /\ owed[d] = d.amount - SettledOn(d, entries)
    BY <1>2, <1>3
  <2> HIDE DEF owed
  <2>3. CASE owed[d] <= 0
    BY <2>2, <2>3
  <2>4. CASE \E j \in DOMAIN plan : plan[j].paper = d /\ plan[j].amount = owed[d]
    <3>1. PICK j \in DOMAIN plan : plan[j].paper = d /\ plan[j].amount = owed[d]
      BY <2>4
    <3>2. d.amount <= SettledOn(d, entries) + plan[j].amount
      BY <2>2, <3>1
    <3> QED
      BY <3>1, <3>2
  <2> QED
    BY <2>1, <2>3, <2>4
<1>8. Locked(then) /\ Covered(then, entries)
  BY DEF Locked, Covered
<1> QED
  BY <1>6, <1>7, <1>8 DEF Transaction, Transacting

\* What others commit beside a transaction changes nothing it relies on.
LEMMA OthersCommit ==
    ASSUME NEW docs, \A d \in docs : d.amount \in Nat, docs \in SUBSET Paper,
           NEW entries, IsFiniteSet(entries), \A r \in entries : r.amount \in Nat,
           NEW more, IsFiniteSet(more), \A r \in more : r.amount \in Nat,
           NEW now, Transaction(now, docs, entries),
           \A r \in more : r.paper \notin now.sharing
    PROVE  Transaction(now, docs, entries \cup more)
<1> DEFINE mine == entries \cup now.written
           all == entries \cup more
<1>1. ASSUME NEW d \in now.sharing
      PROVE  SettledOn(d, all \cup now.written) = SettledOn(d, mine)
  <2>1. all \cup now.written = mine \cup more
    OBVIOUS
  <2>2. SettledOn(d, mine \cup more) = SettledOn(d, mine)
    <3> HIDE DEF mine
    <3>1. \A r \in more : r.paper # d
      BY <1>1
    <3> QED
      BY <3>1, SettledElsewhere
  <2> QED
    BY <2>1, <2>2
<1>2. ASSUME NEW d PROVE /\ SettledOn(d, entries) \in Nat /\ SettledOn(d, all) \in Nat
                         /\ SettledOn(d, entries) <= SettledOn(d, all)
  <2>1. IsFiniteSet(all) /\ (\A r \in all : r.amount \in Nat) /\ entries \in SUBSET all
    BY FS_Union
  <2> HIDE DEF all
  <2> QED
    BY <2>1, SettledGrows
<1> HIDE DEF all, mine
<1>3. Covered(now, all)
  BY <1>1 DEF Transaction, Covered, Locked, mine
<1>4. PaysOlder(now, all)
  <2> SUFFICES ASSUME NEW i \in DOMAIN now.plan, NEW d \in now.papers, Older(d, now.plan[i].paper)
               PROVE  \/ d.amount <= SettledOn(d, all)
                      \/ \E j \in DOMAIN now.plan :
                          now.plan[j].paper = d /\ d.amount <= SettledOn(d, all) + now.plan[j].amount
    BY DEF PaysOlder
  <2>1. \/ d.amount <= SettledOn(d, entries)
        \/ \E j \in DOMAIN now.plan :
            now.plan[j].paper = d /\ d.amount <= SettledOn(d, entries) + now.plan[j].amount
    BY DEF Transaction, PaysOlder
  <2>2. d.amount \in Nat /\ \A j \in DOMAIN now.plan : now.plan[j].amount \in Nat
    BY DEF Transaction, Planned, PlanRow
  <2> QED
    BY <1>2, <2>1, <2>2
<1> QED
  BY <1>3, <1>4 DEF Transaction, all

-----------------------------------------------------------------------------
(* The desk.                                                               *)

\* The start stands.
LEMMA DeskInitStands == SettlementInit => SettlementIInv
<1> SUFFICES ASSUME SettlementInit PROVE SettlementIInv
  OBVIOUS
<1>1. DeskTypes
  BY FS_EmptySet DEF SettlementInit, DeskTypes
<1>2. AtWork /\ OwnCalls /\ AllApart
  BY DEF SettlementInit, AtWork, OwnCalls, AllApart, AtDesk, Transacting
<1>3. NothingOverSettled /\ OldestSettledFirst
  BY DEF SettlementInit, NothingOverSettled, OldestSettledFirst
<1> QED
  BY <1>1, <1>2, <1>3 DEF SettlementIInv

\* What a clerk may hold next beside the others, when so many calls were made
\* and nothing is committed.
Fits(c, then, made) ==
    /\ then = AtDesk \/ Reading(then, issued) \/ Transaction(then, issued, allocated)
    /\ then # AtDesk =>
        /\ then.call \in 1 .. made
        /\ \A r \in allocated : r.call # then.call
        /\ \A o \in Clerks \ {c} : settling[o] # AtDesk => settling[o].call # then.call
    /\ \A o \in Clerks \ {c} :
        Transacting(then) /\ Transacting(settling[o]) =>
            Apart(then, settling[o]) /\ Apart(settling[o], then)

\* A step of one clerk that commits nothing and shares no document with rows
\* another has not committed.
LEMMA ClerkSteps ==
    ASSUME SettlementIInv, NEW c \in Clerks, NEW then, NEW made \in Nat, attempts <= made,
           Fits(c, then, made), Step(c, then),
           issued' = issued, allocated' = allocated, attempts' = made
    PROVE  SettlementIInv'
<1>1. \A o \in Clerks : settling'[o] = IF o = c THEN then ELSE settling[o]
  BY DEF Step, SettlementIInv, DeskTypes
<1>2. settling' = [o \in Clerks |-> settling'[o]]
  BY DEF Step, SettlementIInv, DeskTypes
<1>3. DeskTypes'
  BY <1>2 DEF SettlementIInv, DeskTypes
<1>4. AtWork'
  BY <1>1 DEF SettlementIInv, AtWork, Fits
<1>5. OwnCalls'
  <2>0. attempts \in Nat
    BY DEF SettlementIInv, DeskTypes
  <2>1. \A r \in allocated' : r.call \in 1 .. attempts'
    BY <2>0 DEF SettlementIInv, OwnCalls
  <2>2. ASSUME NEW o \in Clerks, settling'[o] # AtDesk
        PROVE  /\ settling'[o].call \in 1 .. attempts'
               /\ \A r \in allocated' : r.call # settling'[o].call
               /\ \A p \in Clerks \ {o} : settling'[p] # AtDesk => settling'[p].call # settling'[o].call
    <3>1. CASE o = c
      BY <1>1, <2>2, <3>1 DEF Fits
    <3>2. CASE o # c
      <4>1. /\ settling[o].call \in 1 .. attempts
            /\ \A r \in allocated : r.call # settling[o].call
            /\ \A p \in Clerks \ {o} : settling[p] # AtDesk => settling[p].call # settling[o].call
        BY <1>1, <2>2, <3>2 DEF SettlementIInv, OwnCalls
      <4>2. then # AtDesk => settling[o].call # then.call
        BY <1>1, <2>2, <3>2 DEF Fits
      <4>3. settling[o].call \in 1 .. attempts'
        BY <2>0, <4>1
      <4> QED
        BY <1>1, <2>2, <3>2, <4>1, <4>2, <4>3
    <3> QED
      BY <3>1, <3>2
  <2> QED
    BY <2>1, <2>2 DEF OwnCalls
<1>6. AllApart'
  BY <1>1 DEF SettlementIInv, AllApart, Fits
<1>7. NothingOverSettled' /\ OldestSettledFirst'
  BY DEF SettlementIInv, NothingOverSettled, OldestSettledFirst
<1> QED
  BY <1>3, <1>4, <1>5, <1>6, <1>7 DEF SettlementIInv

\* A clerk whose call ends with nothing committed.
LEMMA ClerkRests ==
    ASSUME SettlementIInv, NEW c \in Clerks, Step(c, AtDesk),
           issued' = issued, allocated' = allocated, attempts' = attempts
    PROVE  SettlementIInv'
<1>1. ~Transacting(AtDesk)
  BY DEF Transacting, AtDesk
<1>2. attempts \in Nat
  BY DEF SettlementIInv, DeskTypes
<1>3. Fits(c, AtDesk, attempts)
  BY <1>1 DEF Fits
<1> QED
  BY <1>2, <1>3, ClerkSteps

\* A new paper: nothing is settled on it.
LEMMA IssueKeeps ==
    ASSUME SettlementIInv, NEW d \in Papers, IssueDocument(d)
    PROVE  SettlementIInv'
<1>1. /\ d \in Paper /\ d.amount \in Nat /\ d \notin issued /\ issued' = issued \cup {d}
      /\ allocated' = allocated /\ settling' = settling /\ attempts' = attempts
  <2>1. d \in Paper
    BY PapersAssumption
  <2>2. d.amount \in Int
    BY <2>1 DEF Paper
  <2>3. d \notin issued
    BY DEF IssueDocument, Recorded
  <2>4. d.amount >= 0
    BY DEF IssueDocument, ValidPaper
  <2>5. issued' = issued \cup {d} /\ UNCHANGED <<allocated, settling, attempts>>
    BY DEF IssueDocument
  <2> QED
    BY <2>1, <2>2, <2>3, <2>4, <2>5
<1>2. DeskTypes'
  BY <1>1, FS_AddElement DEF SettlementIInv, DeskTypes
<1>3. AtWork'
  <2>1. \A now : /\ Reading(now, issued) => Reading(now, issued')
                 /\ Planned(now, issued) => Planned(now, issued')
    BY <1>1 DEF Reading, Planned
  <2> QED
    BY <1>1, <2>1 DEF SettlementIInv, AtWork, Transaction
<1>4. OwnCalls' /\ AllApart' /\ OldestSettledFirst'
  BY <1>1 DEF SettlementIInv, OwnCalls, AllApart, OldestSettledFirst
<1>5. SettledOn(d, allocated) = 0
  <2>1. On(d, allocated) = {}
    BY <1>1 DEF On, SettlementIInv, DeskTypes
  <2>2. SettledOn(d, allocated) = Over(Amounts(allocated), {})
    BY <2>1, SettledOver
  <2> QED
    BY <2>2, OverEmpty
<1>6. NothingOverSettled'
  BY <1>1, <1>5 DEF SettlementIInv, NothingOverSettled
<1> QED
  BY <1>2, <1>3, <1>4, <1>6 DEF SettlementIInv

\* A call begins.
LEMMA ReadPapersKeeps ==
    ASSUME SettlementIInv, NEW c \in Clerks, NEW payment \in Receipts, ReadPapers(c, payment)
    PROVE  SettlementIInv'
<1> DEFINE then == [pc |-> "owed", payment |-> payment, call |-> attempts + 1,
                    papers |-> {d \in issued : d.partner = payment.partner}]
<1>1. /\ Step(c, then) /\ attempts' = attempts + 1
      /\ issued' = issued /\ allocated' = allocated /\ attempts \in Nat
  BY DEF ReadPapers, SettlementIInv, DeskTypes
<1>2. Reading(then, issued) /\ ~Transacting(then) /\ then.call = attempts + 1
  BY DEF Reading, Transacting
<1> HIDE DEF then
<1>3. /\ \A r \in allocated : r.call # then.call
      /\ \A o \in Clerks : settling[o] # AtDesk => settling[o].call # then.call
  BY <1>1, <1>2 DEF SettlementIInv, OwnCalls
<1>4. Fits(c, then, attempts + 1)
  BY <1>1, <1>2, <1>3 DEF Fits
<1> QED
  BY <1>1, <1>4, ClerkSteps

\* The plan is made.
LEMMA ReadOwedKeeps ==
    ASSUME SettlementIInv, NEW c \in Clerks, ReadOwed(c)
    PROVE  SettlementIInv'
<1> DEFINE now == settling[c]
           owed == [d \in now.papers |-> d.amount - SettledOn(d, allocated)]
<1>1. PICK order \in Orderings(now.papers) :
        Step(c, IF DOMAIN PlanAllocation(now.payment.amount, owed, order) = {} THEN AtDesk
                ELSE [pc |-> "check", payment |-> now.payment, papers |-> now.papers,
                      plan |-> PlanAllocation(now.payment.amount, owed, order),
                      waiting |-> DOMAIN PlanAllocation(now.payment.amount, owed, order),
                      call |-> now.call, written |-> {}, sharing |-> {}])
  BY DEF ReadOwed
<1>2. /\ now.pc = "owed" /\ now.payment.amount > 0
      /\ issued' = issued /\ allocated' = allocated /\ attempts' = attempts /\ attempts \in Nat
  BY DEF ReadOwed, SettlementIInv, DeskTypes
<1>3. Reading(now, issued) /\ now # AtDesk
  BY <1>2 DEF SettlementIInv, AtWork, Transaction, Transacting, AtDesk
<1> DEFINE plan == PlanAllocation(now.payment.amount, owed, order)
           then == [pc |-> "check", payment |-> now.payment, papers |-> now.papers, plan |-> plan,
                    waiting |-> DOMAIN plan, call |-> now.call, written |-> {}, sharing |-> {}]
<1>4. CASE DOMAIN plan = {}
  BY <1>1, <1>2, <1>4, ClerkRests
<1>5. CASE DOMAIN plan # {}
  <2>1. Step(c, then)
    BY <1>1, <1>5
  <2>2. Transaction(then, issued, allocated)
    BY <1>2, <1>3, <1>5, PlanKeeps DEF SettlementIInv, DeskTypes
  <2>3. then.call = now.call /\ \A other : Apart(then, other) /\ Apart(other, then)
    BY DEF Apart
  <2> HIDE DEF then
  <2>4. /\ then.call \in 1 .. attempts
        /\ \A r \in allocated : r.call # then.call
        /\ \A o \in Clerks \ {c} : settling[o] # AtDesk => settling[o].call # then.call
    BY <1>3, <2>3 DEF SettlementIInv, OwnCalls
  <2>5. Fits(c, then, attempts)
    BY <2>2, <2>3, <2>4 DEF Fits
  <2> QED
    BY <1>2, <2>1, <2>5, ClerkSteps
<1> QED
  BY <1>4, <1>5

\* A clerk in a transaction, as the invariant knows it.
LEMMA InTransactionFacts ==
    ASSUME SettlementIInv, NEW c \in Clerks, Transacting(settling[c])
    PROVE  /\ settling[c] # AtDesk /\ Transaction(settling[c], issued, allocated)
           /\ issued \in SUBSET Paper /\ \A d \in issued : d.amount \in Nat
           /\ IsFiniteSet(allocated) /\ \A r \in allocated : r.amount \in Nat
           /\ attempts \in Nat /\ attempts <= attempts
           /\ settling[c].call \in 1 .. attempts
           /\ \A r \in allocated : r.call # settling[c].call
           /\ \A o \in Clerks \ {c} : settling[o] # AtDesk => settling[o].call # settling[c].call
           /\ \A o \in Clerks \ {c} : Transacting(settling[o]) =>
                Apart(settling[c], settling[o]) /\ Apart(settling[o], settling[c])
<1>1. settling[c] # AtDesk /\ settling[c].pc # "owed"
  BY DEF Transacting, AtDesk
<1>2. Transaction(settling[c], issued, allocated)
  BY <1>1 DEF SettlementIInv, AtWork, Reading
<1> QED
  BY <1>1, <1>2 DEF SettlementIInv, DeskTypes, OwnCalls, AllApart

\* The trigger reads.
LEMMA CheckRowKeeps ==
    ASSUME SettlementIInv, NEW c \in Clerks, CheckRow(c)
    PROVE  SettlementIInv'
<1> DEFINE now == settling[c]
           then == Checked(now)
<1>1. NextRow(c) = Coming(now)
  BY DEF NextRow, Coming, RowAt
<1>2. /\ now.pc = "check" /\ Step(c, then)
      /\ issued' = issued /\ allocated' = allocated /\ attempts' = attempts
      /\ \A o \in Clerks \ {c} : Transacting(settling[o]) =>
            \A r \in settling[o].written : r.paper # Coming(now).paper
      /\ SettledOn(Coming(now).paper, allocated \cup now.written) + Coming(now).amount
            <= Coming(now).paper.amount
  BY <1>1 DEF CheckRow, Allowed, InTransaction, Transacting, Checked
<1>3. Transacting(now)
  BY <1>2 DEF Transacting
<1>4. /\ Transaction(then, issued, allocated)
      /\ then.call = now.call /\ then.written = now.written
      /\ then.sharing = now.sharing \cup {Coming(now).paper}
  BY <1>2, <1>3, CheckKeeps, InTransactionFacts
<1> HIDE DEF then
<1>5. ASSUME NEW o \in Clerks \ {c}, Transacting(settling[o])
      PROVE  Apart(then, settling[o]) /\ Apart(settling[o], then)
  <2>1. Apart(now, settling[o]) /\ Apart(settling[o], now)
    BY <1>3, <1>5, InTransactionFacts
  <2> QED
    BY <1>2, <1>4, <1>5, <2>1 DEF Apart
<1>6. Fits(c, then, attempts)
  BY <1>3, <1>4, <1>5, InTransactionFacts DEF Fits
<1> QED
  BY <1>2, <1>3, <1>6, ClerkSteps, InTransactionFacts

\* The row goes in.
LEMMA InsertRowKeeps ==
    ASSUME SettlementIInv, NEW c \in Clerks, InsertRow(c)
    PROVE  SettlementIInv'
<1> DEFINE now == settling[c]
           then == Inserted(now)
<1>1. NextRow(c) = Coming(now)
  BY DEF NextRow, Coming, RowAt
<1>2. /\ now.pc = "insert" /\ Step(c, then)
      /\ issued' = issued /\ allocated' = allocated /\ attempts' = attempts
      /\ \A o \in Clerks \ {c} : Transacting(settling[o]) => Coming(now).paper \notin settling[o].sharing
  BY <1>1 DEF InsertRow, InTransaction, Transacting, Inserted
<1>3. Transacting(now)
  BY <1>2 DEF Transacting
<1>4. /\ Transaction(then, issued, allocated)
      /\ then.call = now.call /\ then.written = now.written \cup {Coming(now)}
      /\ then.sharing = now.sharing
  BY <1>2, <1>3, InsertKeeps, InTransactionFacts
<1> HIDE DEF then
<1>5. ASSUME NEW o \in Clerks \ {c}, Transacting(settling[o])
      PROVE  Apart(then, settling[o]) /\ Apart(settling[o], then)
  <2>1. Apart(now, settling[o]) /\ Apart(settling[o], now)
    BY <1>3, <1>5, InTransactionFacts
  <2> QED
    BY <1>2, <1>4, <1>5, <2>1 DEF Apart
<1>6. Fits(c, then, attempts)
  BY <1>3, <1>4, <1>5, InTransactionFacts DEF Fits
<1> QED
  BY <1>2, <1>3, <1>6, ClerkSteps, InTransactionFacts

\* The whole of a row's plan is among the rows, and what is older is settled.
SettledInOrder(r, entries) ==
    /\ \A i \in DOMAIN r.plan :
        \E s \in entries : s.call = r.call /\ Allocating(s.paper, s.amount) = r.plan[i]
    /\ \A d \in r.seen : Older(d, r.paper) => SettledOn(d, entries) = d.amount

\* A committed plan leaves no document over, and none older than one it paid.
LEMMA CommitSettles ==
    ASSUME SettlementIInv, NEW c \in Clerks, settling[c].pc = "commit",
           NEW all, all = allocated \cup settling[c].written
    PROVE  /\ \A d \in issued : SettledOn(d, all) <= d.amount
           /\ \A r \in settling[c].written : SettledInOrder(r, all)
<1> DEFINE now == settling[c]
<1>1. Transacting(now) /\ Transaction(now, issued, allocated)
  BY InTransactionFacts DEF Transacting
<1>2. IsFiniteSet(all) /\ \A r \in all : r.amount \in Nat
  BY <1>1, FS_Union, InTransactionFacts, WrittenRows DEF Transaction, Planned
<1>3. ASSUME NEW d \in issued PROVE SettledOn(d, all) <= d.amount
  <2>1. CASE \E r \in now.written : r.paper = d
    BY <1>1, <2>1 DEF Transaction, Covered
  <2>2. CASE \A r \in now.written : r.paper # d
    <3>1. SettledOn(d, allocated \cup now.written) = SettledOn(d, allocated)
      BY <2>2, SettledElsewhere
    <3> QED
      BY <3>1 DEF SettlementIInv, NothingOverSettled
  <2> QED
    BY <2>1, <2>2
<1>4. ASSUME NEW i \in DOMAIN now.plan
      PROVE  /\ RowAt(now, i) \in now.written
             /\ Allocating(RowAt(now, i).paper, RowAt(now, i).amount) = now.plan[i]
  BY <1>1 DEF Transaction, Planned, PlanRow, RowAt, Allocating
<1>5. ASSUME NEW i \in DOMAIN now.plan, NEW d \in now.papers, Older(d, now.plan[i].paper)
      PROVE  SettledOn(d, all) = d.amount
  <2>1. d \in issued /\ d.amount \in Nat
    BY <1>1, InTransactionFacts DEF Transaction, Planned
  <2>2. SettledOn(d, allocated) \in Nat /\ SettledOn(d, all) \in Nat /\ SettledOn(d, allocated) <= SettledOn(d, all)
    BY <1>2, SettledGrows
  <2>3. SettledOn(d, all) <= d.amount
    BY <1>3, <2>1
  <2>4. \/ d.amount <= SettledOn(d, allocated)
        \/ \E j \in DOMAIN now.plan :
            now.plan[j].paper = d /\ d.amount <= SettledOn(d, allocated) + now.plan[j].amount
    BY <1>1, <1>5 DEF Transaction, PaysOlder
  <2>5. CASE d.amount <= SettledOn(d, allocated)
    BY <2>1, <2>2, <2>3, <2>5
  <2>6. CASE \E j \in DOMAIN now.plan :
            now.plan[j].paper = d /\ d.amount <= SettledOn(d, allocated) + now.plan[j].amount
    <3>1. PICK j \in DOMAIN now.plan :
            now.plan[j].paper = d /\ d.amount <= SettledOn(d, allocated) + now.plan[j].amount
      BY <2>6
    <3> DEFINE row == RowAt(now, j)
               more == allocated \cup {row}
    <3>2. row.paper = d /\ row.amount = now.plan[j].amount /\ row.call = now.call /\ row \in now.written
      BY <1>4, <3>1 DEF RowAt
    <3>3. row \notin allocated /\ row.amount \in Nat
      BY <1>1, <1>2, <3>2, InTransactionFacts
    <3> HIDE DEF row
    <3>4. SettledOn(row.paper, allocated \cup {row}) = SettledOn(row.paper, allocated) + row.amount
      BY <3>3, <1>1, InTransactionFacts, SettledMore
    <3>5. more \in SUBSET all /\ SettledOn(d, more) = SettledOn(d, allocated) + row.amount
      BY <3>2, <3>4
    <3> HIDE DEF more
    <3>6. SettledOn(d, more) \in Nat /\ SettledOn(d, more) <= SettledOn(d, all)
      BY <1>2, <3>5, SettledGrows
    <3> QED
      BY <2>1, <2>2, <2>3, <3>1, <3>2, <3>3, <3>5, <3>6
  <2> QED
    BY <2>4, <2>5, <2>6
<1>6. ASSUME NEW r \in now.written
      PROVE  SettledInOrder(r, all)
  <2>1. /\ r.call = now.call /\ r.seen = now.papers /\ r.plan = now.plan
        /\ \E i \in DOMAIN now.plan : r = RowAt(now, i)
    BY <1>1, WrittenRows DEF Transaction
  <2>2. \A i : RowAt(now, i).call = now.call /\ RowAt(now, i).paper = now.plan[i].paper
    BY DEF RowAt
  <2>3. ASSUME NEW i \in DOMAIN r.plan
        PROVE  \E s \in all : s.call = r.call /\ Allocating(s.paper, s.amount) = r.plan[i]
    <3>1. i \in DOMAIN now.plan /\ RowAt(now, i).call = r.call /\ r.plan[i] = now.plan[i]
      BY <2>1, <2>2
    <3> QED
      BY <1>4, <3>1
  <2>4. ASSUME NEW d \in r.seen, Older(d, r.paper) PROVE SettledOn(d, all) = d.amount
    BY <1>5, <2>1, <2>2, <2>4
  <2> QED
    BY <2>3, <2>4 DEF SettledInOrder
<1> QED
  BY <1>3, <1>6

\* The plan commits.
LEMMA CommitPlanKeeps ==
    ASSUME SettlementIInv, NEW c \in Clerks, CommitPlan(c)
    PROVE  SettlementIInv'
<1> DEFINE now == settling[c]
<1>1. /\ now.pc = "commit" /\ allocated' = allocated \cup now.written /\ issued' = issued /\ attempts' = attempts
      /\ settling' = [settling EXCEPT ![c] = AtDesk]
  BY DEF CommitPlan, Step
<1>2. Transacting(now) /\ Transaction(now, issued, allocated) /\ Planned(now, issued)
  BY <1>1, InTransactionFacts DEF Transacting, Transaction
<1>3. \A o \in Clerks : settling'[o] = IF o = c THEN AtDesk ELSE settling[o]
  BY <1>1 DEF SettlementIInv, DeskTypes
<1>4. \A r \in now.written : /\ r.paper \in issued /\ r.amount \in Nat /\ r.seen \subseteq issued
                              /\ r.call = now.call
  <2>1. now.papers \subseteq issued
    BY <1>2 DEF Planned
  <2> QED
    BY <1>2, <2>1, WrittenRows
<1>5. DeskTypes'
  <2>1. IsFiniteSet(allocated')
    BY <1>1, <1>2, FS_Union DEF SettlementIInv, DeskTypes, Planned
  <2>2. settling' = [o \in Clerks |-> settling'[o]]
    BY <1>1 DEF SettlementIInv, DeskTypes
  <2> QED
    BY <1>1, <1>4, <2>1, <2>2 DEF SettlementIInv, DeskTypes
<1>6. AtWork'
  <2> SUFFICES ASSUME NEW o \in Clerks, o # c, settling[o] # AtDesk, ~Reading(settling[o], issued)
               PROVE  Transaction(settling[o], issued, allocated \cup now.written)
    BY <1>1, <1>3 DEF AtWork
  <2>1. Transaction(settling[o], issued, allocated) /\ Transacting(settling[o])
    BY DEF SettlementIInv, AtWork, Transaction
  <2>2. \A r \in now.written : r.paper \notin settling[o].sharing
    BY <1>2, <2>1, InTransactionFacts DEF Apart
  <2>3. IsFiniteSet(now.written) /\ \A r \in now.written : r.amount \in Nat
    BY <1>2, <1>4 DEF Planned
  <2> QED
    BY <1>2, <2>1, <2>2, <2>3, OthersCommit, InTransactionFacts
<1>7. OwnCalls'
  BY <1>1, <1>2, <1>3, <1>4, InTransactionFacts DEF SettlementIInv, OwnCalls
<1>8. AllApart'
  BY <1>3 DEF SettlementIInv, AllApart, Transacting, AtDesk
<1>9. NothingOverSettled'
  BY <1>1, CommitSettles DEF NothingOverSettled
<1>10. OldestSettledFirst'
  <2>1. ASSUME NEW r \in allocated
        PROVE  SettledInOrder(r, allocated')
    <3>1. allocated \subseteq allocated'
      BY <1>1
    <3>2. \A i \in DOMAIN r.plan :
            \E s \in allocated : s.call = r.call /\ Allocating(s.paper, s.amount) = r.plan[i]
      BY DEF SettlementIInv, OldestSettledFirst
    <3>3. ASSUME NEW d \in r.seen, Older(d, r.paper) PROVE SettledOn(d, allocated') = d.amount
      <4>1. d \in issued /\ d.amount \in Nat /\ SettledOn(d, allocated) = d.amount
        BY <3>3 DEF SettlementIInv, DeskTypes, OldestSettledFirst
      <4>2. IsFiniteSet(allocated') /\ \A s \in allocated' : s.amount \in Nat
        BY <1>5 DEF DeskTypes
      <4>3. SettledOn(d, allocated') \in Nat /\ SettledOn(d, allocated) <= SettledOn(d, allocated')
        BY <3>1, <4>2, SettledGrows
      <4>4. SettledOn(d, allocated') <= d.amount
        BY <1>1, <1>9, <4>1 DEF NothingOverSettled
      <4> QED
        BY <4>1, <4>3, <4>4
    <3> QED
      BY <3>1, <3>2, <3>3 DEF SettledInOrder
  <2>2. ASSUME NEW r \in now.written
        PROVE  SettledInOrder(r, allocated')
    BY <1>1, CommitSettles
  <2> QED
    BY <1>1, <2>1, <2>2 DEF OldestSettledFirst, SettledInOrder
<1> QED
  BY <1>5, <1>6, <1>7, <1>8, <1>9, <1>10 DEF SettlementIInv

\* Through every interleaving of the desk's settlements, what the locks protect
\* is protected.
THEOREM SettlementInvariant == SettlementSpec => []SettlementIInv
<1>1. SettlementIInv /\ [SettlementNext]_settlementVars => SettlementIInv'
  <2> SUFFICES ASSUME SettlementIInv, [SettlementNext]_settlementVars PROVE SettlementIInv'
    OBVIOUS
  <2>1. CASE \E d \in Papers : IssueDocument(d)
    BY <2>1, IssueKeeps
  <2>2. CASE \E c \in Clerks : \E payment \in Receipts : ReadPapers(c, payment)
    BY <2>2, ReadPapersKeeps
  <2>3. CASE \E c \in Clerks : ReadOwed(c)
    BY <2>3, ReadOwedKeeps
  <2>4. CASE \E c \in Clerks : CheckRow(c)
    BY <2>4, CheckRowKeeps
  <2>5. CASE \E c \in Clerks : InsertRow(c)
    BY <2>5, InsertRowKeeps
  <2>6. CASE \E c \in Clerks : CommitPlan(c)
    BY <2>6, CommitPlanKeeps
  <2>7. CASE \E c \in Clerks : SettleFails(c)
    BY <2>7, ClerkRests DEF SettleFails
  <2>8. CASE UNCHANGED settlementVars
    BY <2>8 DEF settlementVars, SettlementIInv, DeskTypes, AtWork, OwnCalls, AllApart,
                NothingOverSettled, OldestSettledFirst
  <2> QED
    BY <2>1, <2>2, <2>3, <2>4, <2>5, <2>6, <2>7, <2>8 DEF SettlementNext
<1> QED
  BY <1>1, DeskInitStands, PTL DEF SettlementSpec

\* However many payments plan over the same reading of what is owed, no document
\* is settled beyond its amount.
THEOREM NeverOverSettled == SettlementSpec => []NothingOverSettled
<1>1. SettlementIInv => NothingOverSettled
  BY DEF SettlementIInv
<1> QED
  BY <1>1, SettlementInvariant, PTL

\* What a payment settled is the whole of its plan, and whatever it had read
\* that is older is settled in full.
THEOREM OldestFirstSettled == SettlementSpec => []OldestSettledFirst
<1>1. SettlementIInv => OldestSettledFirst
  BY DEF SettlementIInv
<1> QED
  BY <1>1, SettlementInvariant, PTL

-----------------------------------------------------------------------------
(* The web books: charts.                                                  *)

\* What the recursion of a climb says.
Climbs(c, code, n, cur) == cur = [k \in 0 .. n |-> IF k = 0 THEN code ELSE Above(c, cur[k - 1])]

\* It has a solution, however far it goes.
LEMMA ClimbExists ==
    ASSUME NEW c, NEW code, NEW n \in Nat
    PROVE  \E cur : Climbs(c, code, n, cur)
<1> DEFINE Bad == {k \in Nat : ~\E cur : Climbs(c, code, k, cur)}
<1>1. SUFFICES ASSUME Bad # {} PROVE FALSE
  OBVIOUS
<1>2. PICK k \in Bad : \A m \in Bad : ~(m < k)
  <2>1. Bad \in SUBSET Nat
    OBVIOUS
  <2> HIDE DEF Bad
  <2> QED
    BY <1>1, <2>1, LeastNumber
<1>3. CASE k = 0
  <2> DEFINE cur == [i \in 0 .. 0 |-> code]
  <2>1. Climbs(c, code, 0, cur)
    BY DEF Climbs
  <2> QED
    BY <1>3, <2>1
<1>4. CASE k # 0
  <2>1. k - 1 \in Nat /\ k - 1 < k
    BY <1>4
  <2>2. PICK cur : Climbs(c, code, k - 1, cur)
    BY <1>2, <2>1
  <2> DEFINE longer == [i \in 0 .. k |-> IF i = k THEN Above(c, cur[k - 1]) ELSE cur[i]]
  <2>3. Climbs(c, code, k, longer)
    <3>1. ASSUME NEW i \in 0 .. k
          PROVE  longer[i] = IF i = 0 THEN code ELSE Above(c, longer[i - 1])
      <4>1. CASE i = k
        <5>1. longer[i - 1] = cur[k - 1] /\ i # 0
          BY <1>4, <2>1, <4>1
        <5>2. longer[i] = Above(c, cur[k - 1])
          BY <4>1
        <5> HIDE DEF longer
        <5> QED
          BY <5>1, <5>2
      <4>2. CASE i # k
        <5>1. i \in 0 .. k - 1 /\ longer[i] = cur[i] /\ (i # 0 => longer[i - 1] = cur[i - 1])
          BY <2>1, <4>2
        <5>2. cur[i] = IF i = 0 THEN code ELSE Above(c, cur[i - 1])
          BY <2>2, <5>1 DEF Climbs
        <5> HIDE DEF longer
        <5> QED
          BY <5>1, <5>2
      <4> QED
        BY <4>1, <4>2
    <3>2. longer = [i \in 0 .. k |-> longer[i]]
      OBVIOUS
    <3> HIDE DEF longer
    <3> QED
      BY <3>1, <3>2 DEF Climbs
  <2> QED
    BY <1>2, <2>3
<1> QED
  BY <1>3, <1>4

\* So a climb starts at the account and goes up step by step.
LEMMA ClimbSteps ==
    ASSUME NEW c, NEW code, NEW n \in Nat
    PROVE  /\ Climb(c, code, n)[0] = code
           /\ \A k \in 1 .. n : Climb(c, code, n)[k] = Above(c, Climb(c, code, n)[k - 1])
<1> DEFINE cur == CHOOSE f : Climbs(c, code, n, f)
<1>1. Climbs(c, code, n, cur)
  BY ClimbExists
<1>2. Climb(c, code, n) = cur
  BY DEF Climb, Climbs
<1> HIDE DEF cur
<1>3. cur[0] = code /\ \A k \in 1 .. n : cur[k] = Above(c, cur[k - 1])
  BY <1>1 DEF Climbs
<1> QED
  BY <1>2, <1>3

\* Two climbs meet as long as the steps are the same, whatever their lengths.
LEMMA ClimbSame ==
    ASSUME NEW c, NEW d, NEW code, NEW n \in Nat, NEW m \in Nat, NEW k \in 0 .. n, k <= m,
           \A i \in 0 .. k - 1 : Above(c, Climb(c, code, n)[i]) = Above(d, Climb(c, code, n)[i])
    PROVE  Climb(c, code, n)[k] = Climb(d, code, m)[k]
<1> DEFINE one == Climb(c, code, n)
           other == Climb(d, code, m)
           Bad == {i \in 0 .. k : one[i] # other[i]}
<1>1. /\ one[0] = code /\ \A i \in 1 .. n : one[i] = Above(c, one[i - 1])
      /\ other[0] = code /\ \A i \in 1 .. m : other[i] = Above(d, other[i - 1])
  BY ClimbSteps
<1>2. \A i \in 0 .. k - 1 : Above(c, one[i]) = Above(d, one[i])
  OBVIOUS
<1> HIDE DEF one, other
<1>3. SUFFICES ASSUME Bad # {} PROVE FALSE
  BY DEF one, other
<1>4. PICK j \in Bad : \A i \in Bad : ~(i < j)
  <2>1. Bad \in SUBSET Nat
    OBVIOUS
  <2> HIDE DEF Bad
  <2> QED
    BY <1>3, <2>1, LeastNumber
<1>5. j # 0
  BY <1>1, <1>4
<1>6. j \in 1 .. n /\ j \in 1 .. m /\ j - 1 \in 0 .. k - 1 /\ j - 1 \in 0 .. k
  BY <1>4, <1>5
<1>7. one[j - 1] = other[j - 1]
  BY <1>4, <1>6
<1>8. one[j] = other[j]
  BY <1>1, <1>2, <1>6, <1>7
<1> QED
  BY <1>4, <1>8

\* A climb is one step and the climb from there.
LEMMA ClimbUnder ==
    ASSUME NEW c, NEW code, NEW n \in Nat, NEW m \in Nat, NEW k \in Nat, k + 1 <= n, k <= m
    PROVE  Climb(c, code, n)[k + 1] = Climb(c, Above(c, code), m)[k]
<1> DEFINE up == Above(c, code)
           one == Climb(c, code, n)
           other == Climb(c, up, m)
           Bad == {i \in 0 .. k : one[i + 1] # other[i]}
<1>1. /\ one[0] = code /\ \A i \in 1 .. n : one[i] = Above(c, one[i - 1])
      /\ other[0] = up /\ \A i \in 1 .. m : other[i] = Above(c, other[i - 1])
  BY ClimbSteps
<1> HIDE DEF one, other
<1>2. SUFFICES ASSUME Bad # {} PROVE FALSE
  BY DEF one, other
<1>3. PICK j \in Bad : \A i \in Bad : ~(i < j)
  <2>1. Bad \in SUBSET Nat
    OBVIOUS
  <2> HIDE DEF Bad
  <2> QED
    BY <1>2, <2>1, LeastNumber
<1>4. j \in 0 .. k /\ j + 1 \in 1 .. n /\ (j + 1) - 1 = j
  BY <1>3
<1>5. one[j + 1] = Above(c, one[j])
  BY <1>1, <1>4
<1>6. CASE j = 0
  BY <1>1, <1>3, <1>5, <1>6
<1>7. CASE j # 0
  <2>1. j - 1 \in 0 .. k /\ j - 1 < j /\ (j - 1) + 1 = j /\ j \in 1 .. m
    BY <1>4, <1>7
  <2>2. one[j] = other[j - 1]
    BY <1>3, <2>1
  <2> QED
    BY <1>1, <1>3, <1>5, <2>1, <2>2
<1> QED
  BY <1>6, <1>7

\* It stays at the top.
LEMMA ClimbStays ==
    ASSUME NEW c, NEW code, NEW n \in Nat, NEW k \in 0 .. n, Topmost(c, Climb(c, code, n)[k])
    PROVE  Climb(c, code, n)[n] = Climb(c, code, n)[k]
<1> DEFINE cur == Climb(c, code, n)
           Bad == {i \in k .. n : cur[i] # cur[k]}
<1>1. \A i \in 1 .. n : cur[i] = Above(c, cur[i - 1])
  BY ClimbSteps
<1>2. Topmost(c, cur[k])
  OBVIOUS
<1> HIDE DEF cur
<1>3. SUFFICES ASSUME Bad # {} PROVE FALSE
  BY DEF cur
<1>4. PICK j \in Bad : \A i \in Bad : ~(i < j)
  <2>1. Bad \in SUBSET Nat
    OBVIOUS
  <2> HIDE DEF Bad
  <2> QED
    BY <1>3, <2>1, LeastNumber
<1>5. j \in 1 .. n /\ j - 1 \in k .. n
  BY <1>4
<1>6. cur[j - 1] = cur[k]
  BY <1>4, <1>5
<1> QED
  BY <1>1, <1>2, <1>4, <1>5, <1>6 DEF Above

\* From an account of a chart that knows every parent it never leaves the chart.
LEMMA ClimbHolds ==
    ASSUME NEW c, \A code \in DOMAIN c : Topmost(c, code) \/ Holds(c, c[code].parent),
           NEW code \in DOMAIN c, NEW n \in Nat
    PROVE  \A k \in 0 .. n : Climb(c, code, n)[k] \in DOMAIN c
<1> DEFINE cur == Climb(c, code, n)
           Bad == {i \in 0 .. n : cur[i] \notin DOMAIN c}
<1>1. cur[0] = code /\ \A i \in 1 .. n : cur[i] = Above(c, cur[i - 1])
  BY ClimbSteps
<1> HIDE DEF cur
<1>2. SUFFICES ASSUME Bad # {} PROVE FALSE
  BY DEF cur
<1>3. PICK j \in Bad : \A i \in Bad : ~(i < j)
  <2>1. Bad \in SUBSET Nat
    OBVIOUS
  <2> HIDE DEF Bad
  <2> QED
    BY <1>2, <2>1, LeastNumber
<1>4. j \in 1 .. n /\ j - 1 \in 0 .. n
  BY <1>1, <1>3
<1>5. cur[j - 1] \in DOMAIN c
  BY <1>3, <1>4
<1> QED
  BY <1>1, <1>3, <1>4, <1>5 DEF Above, Holds

\* An account put under one that is there leaves the chart a forest.
LEMMA GrownChart ==
    ASSUME NEW c, ValidChart(c), IsFiniteSet(DOMAIN c), NEW a, ~Holds(c, a.code),
           a.parent # Blank => Holds(c, a.parent)
    PROVE  /\ ValidChart(AddAccount(c, a)) /\ IsFiniteSet(DOMAIN AddAccount(c, a))
           /\ DOMAIN AddAccount(c, a) = DOMAIN c \cup {a.code}
<1> DEFINE d == AddAccount(c, a)
           n == Cardinality(DOMAIN c)
<1>1. /\ DOMAIN d = DOMAIN c \cup {a.code} /\ a.code \notin DOMAIN c
      /\ \A code \in DOMAIN c : d[code] = c[code]
      /\ d[a.code].parent = a.parent
  BY DEF AddAccount, Holds
<1>2. /\ \A code \in DOMAIN c : Topmost(d, code) <=> Topmost(c, code)
      /\ Topmost(d, a.code) \/ a.parent \in DOMAIN c
  BY <1>1 DEF Topmost, Holds
<1> HIDE DEF d
<1>3. IsFiniteSet(DOMAIN d) /\ Cardinality(DOMAIN d) = n + 1 /\ n \in Nat
  BY <1>1, FS_AddElement, FS_CardinalityType
<1>4. \A code \in DOMAIN c : /\ Topmost(c, code) \/ Holds(c, c[code].parent)
                             /\ Topmost(c, Climb(c, code, n)[n])
  BY DEF ValidChart
<1>5. \A code \in DOMAIN c : Above(c, code) = Above(d, code)
  BY <1>1, <1>2 DEF Above, Holds
<1>6. \A code \in DOMAIN c : Climb(c, code, n)[n] = Climb(d, code, n + 1)[n] /\ Topmost(d, Climb(d, code, n + 1)[n])
  <2> TAKE code \in DOMAIN c
  <2>1. \A k \in 0 .. n : Climb(c, code, n)[k] \in DOMAIN c
    BY <1>3, <1>4, ClimbHolds
  <2>2. \A k \in 0 .. n - 1 : Above(c, Climb(c, code, n)[k]) = Above(d, Climb(c, code, n)[k])
    BY <1>3, <1>5, <2>1
  <2>3. n \in 0 .. n /\ n <= n + 1 /\ n + 1 \in Nat
    BY <1>3
  <2>4. Climb(c, code, n)[n] = Climb(d, code, n + 1)[n]
    <3> HIDE DEF n
    <3> QED
      BY <1>3, <2>2, <2>3, ClimbSame
  <2> QED
    BY <1>2, <1>4, <2>1, <2>3, <2>4
<1>7. \A code \in DOMAIN d : Topmost(d, Climb(d, code, n + 1)[n + 1])
  <2> TAKE code \in DOMAIN d
  <2>1. n + 1 \in Nat /\ n \in 0 .. n + 1 /\ 0 \in 0 .. n + 1 /\ n + 1 <= n + 1 /\ n <= n + 1
    BY <1>3
  <2>2. CASE code \in DOMAIN c
    <3>1. Topmost(d, Climb(d, code, n + 1)[n])
      BY <1>6, <2>2
    <3>2. Climb(d, code, n + 1)[n + 1] = Climb(d, code, n + 1)[n]
      BY <2>1, <3>1, ClimbStays
    <3> QED
      BY <3>1, <3>2
  <2>3. CASE code = a.code /\ Topmost(d, a.code)
    <3>1. Climb(d, code, n + 1)[0] = code
      BY <2>1, ClimbSteps
    <3>2. Climb(d, code, n + 1)[n + 1] = Climb(d, code, n + 1)[0]
      BY <2>1, <2>3, <3>1, ClimbStays
    <3> QED
      BY <2>3, <3>1, <3>2
  <2>4. CASE code = a.code /\ ~Topmost(d, a.code)
    <3>1. Above(d, code) = a.parent /\ a.parent \in DOMAIN c
      BY <1>1, <1>2, <2>4 DEF Above, Holds
    <3>2. Climb(d, code, n + 1)[n + 1] = Climb(d, Above(d, code), n + 1)[n]
      BY <1>3, <2>1, ClimbUnder
    <3> QED
      BY <1>6, <3>1, <3>2
  <2> QED
    BY <1>1, <2>2, <2>3, <2>4
<1>8. \A code \in DOMAIN d : Topmost(d, code) \/ Holds(d, d[code].parent)
  BY <1>1, <1>2, <1>4 DEF Holds
<1>9. ValidChart(d)
  BY <1>3, <1>7, <1>8 DEF ValidChart
<1> QED
  BY <1>1, <1>3, <1>9 DEF d

-----------------------------------------------------------------------------
(* The web books: how deep an account sits, how a list is ordered, and     *)
(* what a trial balance comes to.                                          *)

\* Where the page stops on the way up from an account.
StopsAt(cur, n) == n = Deepest \/ ~Holds(chart, cur[n]) \/ Topmost(chart, cur[n])

\* The page counts the steps to the first account it stops at.
LEMMA DepthFacts ==
    ASSUME NEW code
    PROVE  /\ Depth(code) \in 0 .. Deepest
           /\ StopsAt(Climb(chart, code, Deepest), Depth(code))
           /\ \A m \in 0 .. Depth(code) - 1 : ~StopsAt(Climb(chart, code, Deepest), m)
<1> DEFINE cur == Climb(chart, code, Deepest)
           First(n) == StopsAt(cur, n) /\ \A m \in 0 .. n - 1 : ~StopsAt(cur, m)
           Some == {n \in 0 .. Deepest : StopsAt(cur, n)}
<1>1. Deepest \in Nat
  BY DEF Deepest
<1>3. Depth(code) = CHOOSE n \in 0 .. Deepest : First(n)
  BY DEF Depth, StopsAt
<1>4. Deepest \in Some
  BY <1>1 DEF StopsAt
<1> HIDE DEF cur
<1>5. PICK n \in Some : \A m \in Some : ~(m < n)
  <2>1. Some \in SUBSET Nat /\ Some # {}
    BY <1>1, <1>4
  <2> HIDE DEF Some
  <2> QED
    BY <2>1, LeastNumber
<1>6. n \in 0 .. Deepest /\ First(n)
  BY <1>1, <1>5
<1>7. Depth(code) \in 0 .. Deepest /\ First(Depth(code))
  <2> HIDE DEF First
  <2> QED
    BY <1>3, <1>6
<1> QED
  BY <1>7 DEF cur

\* An account sits one under its heading, as deep as the page goes.
LEMMA DepthUnder ==
    ASSUME NEW code \in DOMAIN chart
    PROVE  IF Topmost(chart, code) THEN Depth(code) = 0
           ELSE Depth(code) = IF Depth(chart[code].parent) < Deepest
                              THEN Depth(chart[code].parent) + 1 ELSE Deepest
<1> DEFINE up == chart[code].parent
           d == Depth(code)
           e == Depth(up)
           cur == Climb(chart, code, Deepest)
           above == Climb(chart, up, Deepest)
<1>1. StopsAt(cur, d) /\ \A m \in 0 .. d - 1 : ~StopsAt(cur, m)
  BY DepthFacts
<1>2. StopsAt(above, e) /\ \A m \in 0 .. e - 1 : ~StopsAt(above, m)
  BY DepthFacts
<1>3. d \in 0 .. Deepest /\ e \in 0 .. Deepest /\ Deepest = 16 /\ Deepest \in Nat
  BY DepthFacts DEF Deepest
<1>4. cur[0] = code
  BY <1>3, ClimbSteps
<1> HIDE DEF d, e
<1>5. CASE Topmost(chart, code)
  <2>1. StopsAt(cur, 0)
    BY <1>4, <1>5 DEF StopsAt
  <2>2. d = 0
    BY <1>1, <1>3, <2>1
  <2> QED
    BY <1>5, <2>2 DEF d
<1>6. CASE ~Topmost(chart, code)
  <2>1. ~StopsAt(cur, 0)
    BY <1>3, <1>4, <1>6 DEF StopsAt, Holds
  <2>2. \A n \in 0 .. Deepest - 1 : cur[n + 1] = above[n]
    <3> TAKE n \in 0 .. Deepest - 1
    <3>1. Above(chart, code) = up
      BY <1>6 DEF Above, Holds
    <3>2. n \in Nat /\ n + 1 <= Deepest /\ n <= Deepest
      BY <1>3
    <3>3. Climb(chart, code, Deepest)[n + 1] = Climb(chart, Above(chart, code), Deepest)[n]
      BY <1>3, <3>2, ClimbUnder
    <3> QED
      BY <3>1, <3>3
  <2> HIDE DEF cur, above
  <2>3. \A n \in 0 .. Deepest - 1 : n + 1 # Deepest => (StopsAt(cur, n + 1) <=> StopsAt(above, n))
    BY <1>3, <2>2 DEF StopsAt
  <2>4. StopsAt(cur, Deepest) /\ StopsAt(above, Deepest)
    BY DEF StopsAt
  <2>5. d # 0
    BY <1>1, <2>1
  <2>6. CASE e < Deepest
    <3>1. e + 1 # Deepest => StopsAt(cur, e + 1)
      BY <1>2, <1>3, <2>3, <2>6
    <3>2. d <= e + 1
      BY <1>1, <1>3, <2>4, <2>6, <3>1
    <3>3. d >= e + 1
      <4>1. SUFFICES ASSUME d < e + 1 PROVE FALSE
        BY <1>3
      <4>2. d - 1 \in 0 .. e - 1 /\ d - 1 \in 0 .. Deepest - 1 /\ (d - 1) + 1 = d /\ d # Deepest
        BY <1>3, <2>5, <2>6, <4>1
      <4>3. StopsAt(above, d - 1)
        BY <1>1, <2>3, <4>2
      <4> QED
        BY <1>2, <4>2, <4>3
    <3>4. d = e + 1
      BY <1>3, <3>2, <3>3
    <3> QED
      BY <1>6, <2>6, <3>4 DEF d, e
  <2>7. CASE ~(e < Deepest)
    <3>1. e = Deepest
      BY <1>3, <2>7
    <3>2. d = Deepest
      <4>1. SUFFICES ASSUME d # Deepest PROVE FALSE
        OBVIOUS
      <4>2. d - 1 \in 0 .. e - 1 /\ d - 1 \in 0 .. Deepest - 1 /\ (d - 1) + 1 = d
        BY <1>3, <2>5, <3>1, <4>1
      <4>3. StopsAt(above, d - 1)
        BY <1>1, <2>3, <4>1, <4>2
      <4> QED
        BY <1>2, <4>2, <4>3
    <3> QED
      BY <1>6, <2>7, <3>2 DEF d, e
  <2> QED
    BY <2>6, <2>7
<1> QED
  BY <1>5, <1>6

\* In a finite set with a strict order each place, counted by those before it,
\* is somebody's.
LEMMA EveryPlaceTaken ==
    ASSUME NEW S, IsFiniteSet(S), NEW order,
           \A x \in S : <<x, x>> \notin order,
           \A x, y, z \in S : <<x, y>> \in order /\ <<y, z>> \in order => <<x, z>> \in order,
           \A x, y \in S : x # y => <<x, y>> \in order \/ <<y, x>> \in order
    PROVE  \A n \in 1 .. Cardinality(S) : \E x \in S : Cardinality({y \in S : <<y, x>> \in order}) = n - 1
<1> DEFINE Ahead(x) == {y \in S : <<y, x>> \in order}
           N == Cardinality(S)
           at == [x \in S |-> Cardinality(Ahead(x)) + 1]
<1>1. N \in Nat
  BY FS_CardinalityType
<1>2. \A x \in S : IsFiniteSet(Ahead(x)) /\ Cardinality(Ahead(x)) \in Nat
  BY FS_Subset, FS_CardinalityType
<1>3. ASSUME NEW T \in SUBSET S, NEW R \in SUBSET T, R # T
      PROVE  Cardinality(R) < Cardinality(T)
  <2>1. IsFiniteSet(T) /\ IsFiniteSet(R)
    BY FS_Subset
  <2>2. Cardinality(R) <= Cardinality(T) /\ Cardinality(R) # Cardinality(T)
    BY <1>3, <2>1, FS_Subset
  <2>3. Cardinality(R) \in Nat /\ Cardinality(T) \in Nat
    BY <2>1, FS_CardinalityType
  <2> QED
    BY <2>2, <2>3
<1>4. \A x \in S : Cardinality(Ahead(x)) < N
  <2> TAKE x \in S
  <2>1. Ahead(x) \in SUBSET S /\ Ahead(x) # S
    OBVIOUS
  <2> QED
    BY <1>3, <2>1
<1>5. \A x, y \in S : <<x, y>> \in order => Cardinality(Ahead(x)) < Cardinality(Ahead(y))
  <2> TAKE x, y \in S
  <2> HAVE <<x, y>> \in order
  <2>1. Ahead(y) \in SUBSET S /\ Ahead(x) \in SUBSET Ahead(y) /\ Ahead(x) # Ahead(y)
    OBVIOUS
  <2> QED
    BY <1>3, <2>1
<1>6. at \in Injection(S, 1 .. N)
  <2>1. at \in [S -> 1 .. N]
    <3>1. \A x \in S : Cardinality(Ahead(x)) + 1 \in 1 .. N
      <4> HIDE DEF Ahead, N
      <4> QED
        BY <1>1, <1>2, <1>4
    <3> QED
      BY <3>1
  <2>2. \A x, y \in S : at[x] = at[y] => x = y
    <3> TAKE x, y \in S
    <3>1. at[x] = Cardinality(Ahead(x)) + 1 /\ at[y] = Cardinality(Ahead(y)) + 1
      OBVIOUS
    <3>2. x # y => <<x, y>> \in order \/ <<y, x>> \in order
      OBVIOUS
    <3> HIDE DEF at, Ahead
    <3> QED
      BY <1>2, <1>5, <3>1, <3>2
  <2> HIDE DEF at
  <2> QED
    BY <2>1, <2>2 DEF Injection, IsInjective
<1>7. IsFiniteSet(1 .. N) /\ Cardinality(1 .. N) = N
  BY <1>1, FS_Interval
<1>8. at \in Surjection(S, 1 .. N)
  <2> HIDE DEF at, N
  <2> QED
    BY <1>6, <1>7, FS_Injection DEF N
<1>9. ASSUME NEW n \in 1 .. N PROVE \E x \in S : Cardinality(Ahead(x)) = n - 1
  <2>1. PICK x \in S : at[x] = n
    BY <1>8 DEF Surjection
  <2>2. Cardinality(Ahead(x)) + 1 = n /\ Cardinality(Ahead(x)) \in Nat
    BY <1>2, <2>1
  <2> HIDE DEF Ahead
  <2> QED
    BY <2>2
<1> QED
  BY <1>9

\* Where each row comes to nothing, so do the columns together.
LEMMA OverNothing ==
    ASSUME NEW I, IsFiniteSet(I), NEW A, IsFiniteSet(A), NEW m,
           \A i \in I : \A a \in A : m[i][a] \in Int,
           \A i \in I : Over(m[i], A) = 0
    PROVE  Over([a \in A |-> Over([i \in I |-> m[i][a]], I)], A) = 0
<1> DEFINE col == [a \in A |-> [i \in I |-> m[i][a]]]
           held(J) == [a \in A |-> Over(col[a], J)]
           Good == {J \in SUBSET I : Over(held(J), A) = 0}
<1>1. {} \in Good
  <2>1. \A a \in A : held({})[a] = 0
    BY OverEmpty
  <2> HIDE DEF held
  <2>2. Over(held({}), A) = 0
    BY <2>1, OverZero
  <2> QED
    BY <2>2
<1>2. ASSUME NEW J \in SUBSET I, NEW i \in I \ J, J \in Good
      PROVE  J \cup {i} \in Good
  <2> DEFINE before == held(J)
             after == held(J \cup {i})
  <2>1. IsFiniteSet(J)
    BY FS_Subset
  <2>2. ASSUME NEW a \in A
        PROVE  before[a] \in Int /\ m[i][a] \in Int /\ after[a] = before[a] + m[i][a]
    <3> DEFINE f == col[a]
    <3>1. \A j \in J \cup {i} : f[j] = m[j][a] /\ f[j] \in Int
      OBVIOUS
    <3> HIDE DEF f
    <3>2. Over(f, J) \in Int
      BY <2>1, <3>1, OverInt
    <3>3. Over(f, J \cup {i}) = Over(f, J) + f[i]
      BY <2>1, <3>1, OverAdd
    <3>4. before[a] = Over(f, J) /\ after[a] = Over(f, J \cup {i})
      BY DEF f
    <3> QED
      BY <3>1, <3>2, <3>3, <3>4
  <2>3. Over(before, A) = 0
    BY <1>2
  <2> HIDE DEF before, after
  <2> DEFINE row == m[i]
  <2>4. \A a \in A : before[a] \in Int /\ row[a] \in Int /\ after[a] = before[a] + row[a]
    BY <2>2
  <2>5. Over(row, A) = 0
    OBVIOUS
  <2> HIDE DEF row
  <2>6. Over(after, A) = Over(before, A) + Over(row, A)
    BY <2>4, OverPlus
  <2> QED
    BY <2>3, <2>5, <2>6 DEF after
<1> HIDE DEF Good
<1>3. I \in Good
  BY <1>1, <1>2, BySubsets
<1>4. Over(held(I), A) = 0
  BY <1>3 DEF Good
<1>5. \A a \in A : held(I)[a] = Over([i \in I |-> m[i][a]], I)
  OBVIOUS
<1>6. held(I) = [a \in A |-> Over([i \in I |-> m[i][a]], I)]
  OBVIOUS
<1> QED
  BY <1>4, <1>6
-----------------------------------------------------------------------------
(* The web books: what a step rests on and leaves behind.                  *)

\* A list of whatever it holds.
AList(s) == s \in Seq(Range(s))

WebPaper ==
    [kind : {"invoice", "receipt"}, partner : STRING, day : Int, period : STRING,
     rate : STRING \cup {Blank}, total : Int, currency : {"VND"}, allocated : Int,
     status : {"open", "partially_paid", "paid"}]

SettlementRow  == [id : Nat, doc : Nat, payment : Nat, amount : Int]
OverpaymentRow == [id : Nat, doc : Nat, payment : Nat, partner : STRING, amount : Int]

SetupStands ==
    /\ years \subseteq Period /\ Sequence(years)
    /\ ValidChart(chart) /\ IsFiniteSet(DOMAIN chart)
    /\ \A r \in rates : r.rate \in Int

\* Every id is one that was drawn, and of one paper.
PapersStand ==
    /\ seq \in Nat /\ DOMAIN filed \subseteq 1 .. seq /\ journals \subseteq 1 .. seq
    /\ DOMAIN filed \cap journals = {}
    /\ \A id \in DOMAIN filed : filed[id] \in WebPaper /\ Rules!ValidDocument(filed[id])

\* Lines of a voucher: on accounts of the chart, as much on one side as on the other.
LinesStand(ls) ==
    /\ IsFiniteSet(DOMAIN ls)
    /\ \A i \in DOMAIN ls :
        ls[i].account \in DOMAIN chart /\ ls[i].side \in {"debit", "credit"} /\ ls[i].amount \in Int
    /\ Agrees(ls)

VoucherStands(e) == e.day \in Int /\ Dated(e.day) /\ LinesStand(e.lines)

\* A voucher of a paper is of its amount and in its period.
OfItsPaper(e) ==
    e.id \in DOMAIN filed =>
        SideOf(e.lines, "debit") = filed[e.id].total /\ PeriodFor(e.day).id = filed[e.id].period

VouchersStand ==
    /\ AList(posted)
    /\ \A i, j \in DOMAIN posted : posted[i].id = posted[j].id => i = j
    /\ {posted[i].id : i \in DOMAIN posted} = DOMAIN filed \cup journals
    /\ \A i \in DOMAIN posted : VoucherStands(posted[i]) /\ OfItsPaper(posted[i])

SettledStand ==
    /\ IsFiniteSet(settlements) /\ settlements \subseteq SettlementRow
    /\ IsFiniteSet(overpayments) /\ overpayments \subseteq OverpaymentRow
    /\ \A r \in settlements \cup overpayments : r.payment \in DOMAIN filed /\ r.doc \in DOMAIN filed
    /\ MoneySpentOnce

BooksStand == SetupStands /\ PapersStand /\ VouchersStand /\ SettledStand

Posts(form) == form.kind \in {"invoice", "payment", "journal"}

\* A key in flight is nobody else's and has no answer; one that has posted is
\* at its page, answered or forgotten; and what is about to be answered for is posted.
KeysStand ==
    /\ visit \in [Visitors -> {Quiet} \cup [pc : {"write", "render"}, request : Requests]]
    /\ answers \subseteq Requests
    /\ \A v, w \in Visitors :
        v # w /\ visit[v] # Quiet /\ visit[w] # Quiet => visit[v].request.key # visit[w].request.key
    /\ \A v \in Visitors : visit[v] # Quiet => ~Answered(visit[v].request.key)
    /\ \A i \in DOMAIN posted :
        \/ posted[i].by \in forgotten \/ Answered(posted[i].by)
        \/ \E v \in Visitors : visit[v].pc = "render" /\ visit[v].request.key = posted[i].by
    /\ \A v \in Visitors :
        visit[v].pc = "render" /\ Posts(visit[v].request.form) =>
            \E i \in DOMAIN posted : posted[i].by = visit[v].request.key
    /\ KeyPostsOnce

WebIInv == BooksStand /\ KeysStand

-----------------------------------------------------------------------------
(* The web books: what a form comes to.                                    *)

\* A form is of its kind.
LEMMA FormOfKind ==
    ASSUME NEW r \in Requests
    PROVE  /\ r.form.kind = "invoice" => r.form \in InvoiceInput
           /\ r.form.kind = "payment" => r.form \in PaymentInput
           /\ r.form.kind = "journal" => r.form \in JournalInput
           /\ r.form.kind = "account" => r.form \in AccountInput
           /\ r.form.kind = "period" => r.form \in PeriodInput
           /\ r.form.kind = "rate" => r.form \in VATRateInput
<1>1. r.form \in InvoiceInput \cup PaymentInput \cup JournalInput
                    \cup AccountInput \cup PeriodInput \cup VATRateInput
  BY RequestsAssumption
<1>2. /\ \A f \in InvoiceInput : f.kind = "invoice"
      /\ \A f \in PaymentInput : f.kind = "payment"
      /\ \A f \in JournalInput : f.kind = "journal"
      /\ \A f \in AccountInput : f.kind = "account"
      /\ \A f \in PeriodInput : f.kind = "period"
      /\ \A f \in VATRateInput : f.kind = "rate"
  BY DEF InvoiceInput, PaymentInput, JournalInput, AccountInput, PeriodInput, VATRateInput
<1> QED
  BY <1>1, <1>2

\* A list that grows keeps what it held.
LEMMA ListGrows ==
    ASSUME NEW s, AList(s), NEW e
    PROVE  /\ AList(Append(s, e)) /\ Len(s) \in Nat
           /\ DOMAIN s = 1 .. Len(s) /\ DOMAIN Append(s, e) = 1 .. Len(s) + 1
           /\ \A i \in DOMAIN s : Append(s, e)[i] = s[i]
           /\ Append(s, e)[Len(s) + 1] = e
<1> DEFINE more == Range(s) \cup {e}
           t == Append(s, e)
<1>1. s \in Seq(more) /\ s \in Seq(Range(s))
  BY DEF AList
<1>2. t \in Seq(more) /\ Len(t) = Len(s) + 1 /\ Len(s) \in Nat
  BY <1>1
<1>3. DOMAIN t = 1 .. Len(s) + 1 /\ DOMAIN s = 1 .. Len(s)
  BY <1>1, <1>2
<1>4. (\A i \in DOMAIN s : t[i] = s[i]) /\ t[Len(s) + 1] = e
  BY <1>1, <1>3
<1> HIDE DEF t
<1>5. \A i \in DOMAIN t : t[i] \in Range(t)
  BY DEF Range
<1>6. t \in Seq(Range(t))
  BY <1>2, <1>3, <1>5
<1> QED
  BY <1>2, <1>3, <1>4, <1>6 DEF t, AList

\* What each line moves on a side.
Moved(ls, side) == [i \in DOMAIN ls |-> IF ls[i].side = side THEN ls[i].amount ELSE 0]

\* A side of lines that are amounts is an amount, and a sum.
LEMMA SideIsInt ==
    ASSUME NEW ls, IsFiniteSet(DOMAIN ls), \A i \in DOMAIN ls : ls[i].amount \in Int, NEW side
    PROVE  SideOf(ls, side) \in Int /\ SideOf(ls, side) = Over(Moved(ls, side), DOMAIN ls)
<1> DEFINE f == Moved(ls, side)
           all == DOMAIN ls
<1>1. \A i \in all : f[i] \in Int
  BY DEF Moved
<1>2. SideOf(ls, side) = Over(f, all)
  BY DEF SideOf, Over, Moved
<1> HIDE DEF f
<1>3. Over(f, all) \in Int
  BY <1>1, OverInt
<1> QED
  BY <1>2, <1>3 DEF f

\* Where only the first line is a debit, the debits are its amount.
LEMMA FirstDebits ==
    ASSUME NEW ls, IsFiniteSet(DOMAIN ls), \A i \in DOMAIN ls : ls[i].amount \in Int,
           1 \in DOMAIN ls, ls[1].side = "debit",
           \A i \in DOMAIN ls : i # 1 => ls[i].side = "credit"
    PROVE  SideOf(ls, "debit") = ls[1].amount
<1> DEFINE f == Moved(ls, "debit")
           all == DOMAIN ls
<1>1. (\A i \in all : f[i] \in Int) /\ f[1] = ls[1].amount /\ (\A i \in all \ {1} : f[i] = 0)
  BY DEF Moved
<1>2. SideOf(ls, "debit") = Over(f, all)
  BY DEF SideOf, Over, Moved
<1> HIDE DEF f
<1>3. Over(f, all) = Over(f, {1})
  BY <1>1, OverCounted
<1>4. Over(f, {1}) = f[1]
  BY <1>1, OverOne
<1> QED
  BY <1>1, <1>2, <1>3, <1>4

\* The tax on an invoice is an amount.
LEMMA TaxIsInt ==
    ASSUME SetupStands, NEW form \in InvoiceInput, CanInvoice(form)
    PROVE  Tax(form) \in Int
<1>1. CASE form.vatRate = Blank
  BY <1>1 DEF Tax
<1>2. CASE form.vatRate # Blank
  <2> DEFINE row == CHOOSE r \in rates : r.id = form.vatRate
  <2>1. row \in rates
    BY <1>2 DEF CanInvoice, KnownRate
  <2>2. row.rate \in Int
    BY <2>1 DEF SetupStands
  <2>3. form.net \in Int
    BY DEF InvoiceInput
  <2>4. Tax(form) = TaxOn(form.net, row.rate)
    BY <1>2 DEF Tax, ChargeOn
  <2> HIDE DEF row
  <2> DEFINE product == Magnitude(form.net * row.rate)
             rounded == (2 * product + 10000) \div 20000
  <2>5. form.net * row.rate \in Int
    BY <2>2, <2>3
  <2>6. product \in Int
    BY <2>5 DEF Magnitude
  <2> HIDE DEF product
  <2>7. rounded \in Int
    BY <2>6
  <2>8. Tax(form) = IF form.net < 0 THEN -rounded ELSE rounded
    BY <2>4 DEF TaxOn, Whole, product
  <2> HIDE DEF rounded
  <2> QED
    BY <2>7, <2>8
<1> QED
  BY <1>1, <1>2

\* A day of the calendar is in one of its periods.
LEMMA DatedIn ==
    ASSUME SetupStands, NEW day, Dated(day)
    PROVE  PeriodFor(day) \in years /\ Covers(PeriodFor(day), day) /\ PeriodFor(day).id \in STRING
<1>1. PeriodFor(day) \in years /\ Covers(PeriodFor(day), day)
  BY DEF Dated, PeriodFor
<1>2. years \subseteq Period
  BY DEF SetupStands
<1> QED
  BY <1>1, <1>2 DEF Period

\* The lines of money that comes in or is owed: one debit, credits after it,
\* on accounts there are.
Received(ls, amount) ==
    /\ IsFiniteSet(DOMAIN ls) /\ 1 \in DOMAIN ls
    /\ ls[1].side = "debit" /\ ls[1].amount = amount
    /\ \A i \in DOMAIN ls :
        ls[i].account \in DOMAIN chart /\ ls[i].side \in {"debit", "credit"} /\ ls[i].amount \in Int
    /\ \A i \in DOMAIN ls : i # 1 => ls[i].side = "credit"

\* Such lines are of that amount, and stand if they agree.
LEMMA ReceivedDebits ==
    ASSUME NEW ls, NEW amount, Received(ls, amount)
    PROVE  SideOf(ls, "debit") = amount /\ (Agrees(ls) => LinesStand(ls))
<1>1. SideOf(ls, "debit") = ls[1].amount
  BY FirstDebits DEF Received
<1> QED
  BY <1>1 DEF Received, LinesStand

\* A list of two, and of three.
LEMMA TwoLines ==
    ASSUME NEW a, NEW b, NEW c
    PROVE  /\ DOMAIN <<a, b>> = {1, 2} /\ <<a, b>>[1] = a /\ <<a, b>>[2] = b
           /\ DOMAIN Append(<<a, b>>, c) = {1, 2, 3}
           /\ Append(<<a, b>>, c)[1] = a /\ Append(<<a, b>>, c)[2] = b /\ Append(<<a, b>>, c)[3] = c
           /\ IsFiniteSet({1, 2}) /\ IsFiniteSet({1, 2, 3})
<1>1. 1 .. 2 = {1, 2} /\ 1 .. 3 = {1, 2, 3}
  OBVIOUS
<1>2. IsFiniteSet(1 .. 2) /\ IsFiniteSet(1 .. 3)
  <2>1. \A n \in Int : IsFiniteSet(1 .. n)
    BY FS_Interval
  <2>2. 2 \in Int /\ 3 \in Int
    OBVIOUS
  <2> QED
    BY <2>1, <2>2, Zenon
<1>3. <<a, b>> \in Seq({a, b, c}) /\ Len(<<a, b>>) = 2
  OBVIOUS
<1> QED
  BY <1>1, <1>2, <1>3

\* What is owed for goods, and the document that says so.
LEMMA InvoiceFacts ==
    ASSUME SetupStands, NEW form \in InvoiceInput, CanInvoice(form)
    PROVE  /\ form.day \in Int /\ Dated(form.day)
           /\ Received(InvoiceLines(form), Invoice(form).total)
           /\ Invoice(form) \in WebPaper /\ Rules!ValidDocument(Invoice(form))
           /\ Invoice(form).allocated = 0
           /\ Invoice(form).period = PeriodFor(form.day).id
<1>1. /\ form.customer \in STRING /\ form.day \in Int /\ form.net \in Int /\ form.vatRate \in STRING
      /\ Tax(form) \in Int
  BY TaxIsInt DEF InvoiceInput
<1>2. Dated(form.day)
  BY DEF CanInvoice
<1>3. PeriodFor(form.day).id \in STRING
  BY <1>2, DatedIn
<1>4. /\ Invoice(form) \in WebPaper /\ Invoice(form).allocated = 0
      /\ Invoice(form).total = form.net + Tax(form)
      /\ Invoice(form).period = PeriodFor(form.day).id
  BY <1>1, <1>3 DEF Invoice, Document, WebPaper
<1>5. Rules!ValidDocument(Invoice(form))
  BY DEF CanInvoice, CanFile, Rules!CheckNew
<1>6. Received(InvoiceLines(form), form.net + Tax(form))
  <2> DEFINE a == OnSide(AccountFor(TT133Defaults, "debit", "ASSET"), "debit", form.net + Tax(form))
             b == OnSide(AccountFor(TT133Defaults, "credit", "REVENUE"), "credit", form.net)
             c == OnSide(AccountFor(TT133Defaults, "credit", "LIABILITY"), "credit", Tax(form))
  <2>1. /\ a.side = "debit" /\ a.amount = form.net + Tax(form) /\ a.amount \in Int
        /\ b.side = "credit" /\ b.amount \in Int
        /\ c.side = "credit" /\ c.amount \in Int
    BY <1>1 DEF OnSide
  <2>2. a.account \in DOMAIN chart /\ b.account \in DOMAIN chart /\ c.account \in DOMAIN chart
    BY DEF OnSide, CanInvoice, Resolves, Holds
  <2>3. InvoiceLines(form) = IF Tax(form) = 0 THEN <<a, b>> ELSE Append(<<a, b>>, c)
    BY DEF InvoiceLines
  <2> HIDE DEF a, b, c
  <2>4. Received(<<a, b>>, form.net + Tax(form))
    BY <2>1, <2>2, TwoLines DEF Received
  <2>5. Received(Append(<<a, b>>, c), form.net + Tax(form))
    <3> DEFINE ls == Append(<<a, b>>, c)
    <3>1. DOMAIN ls = {1, 2, 3} /\ ls[1] = a /\ ls[2] = b /\ ls[3] = c /\ IsFiniteSet(DOMAIN ls)
      BY TwoLines
    <3> HIDE DEF ls
    <3>2. Received(ls, form.net + Tax(form))
      BY <2>1, <2>2, <3>1 DEF Received
    <3> QED
      BY <3>2 DEF ls
  <2> QED
    BY <2>3, <2>4, <2>5
<1> QED
  BY <1>1, <1>2, <1>4, <1>5, <1>6

\* What was paid, and the document that says so.
LEMMA ReceiptFacts ==
    ASSUME SetupStands, NEW form \in PaymentInput, CanReceive(form)
    PROVE  /\ form.day \in Int /\ Dated(form.day) /\ form.amount \in Int /\ form.amount > 0
           /\ form.against \in Nat
           /\ Received(PaymentLines(form), form.amount)
           /\ Receipt(form) \in WebPaper /\ Rules!ValidDocument(Receipt(form))
           /\ Receipt(form).allocated = 0 /\ Receipt(form).total = form.amount
           /\ Receipt(form).kind = "receipt"
           /\ Receipt(form).period = PeriodFor(form.day).id
<1>1. /\ form.customer \in STRING /\ form.day \in Int /\ form.amount \in Int /\ form.against \in Nat
      /\ Dated(form.day) /\ form.amount > 0
  BY DEF PaymentInput, CanReceive
<1>2. PeriodFor(form.day).id \in STRING
  BY <1>1, DatedIn
<1>4. /\ Receipt(form) \in WebPaper /\ Receipt(form).allocated = 0
      /\ Receipt(form).total = form.amount /\ Receipt(form).kind = "receipt"
      /\ Receipt(form).period = PeriodFor(form.day).id
  BY <1>1, <1>2 DEF Receipt, Document, WebPaper
<1>5. Rules!ValidDocument(Receipt(form))
  BY DEF CanReceive, CanFile, Rules!CheckNew
<1>6. Received(PaymentLines(form), form.amount)
  <2> DEFINE a == OnSide(form.account, "debit", form.amount)
             b == OnSide(AccountFor(TT133Defaults, "credit", "ASSET"), "credit", form.amount)
  <2>1. /\ a.side = "debit" /\ a.amount = form.amount /\ a.amount \in Int
        /\ b.side = "credit" /\ b.amount \in Int
    BY <1>1 DEF OnSide
  <2>2. a.account \in DOMAIN chart /\ b.account \in DOMAIN chart
    BY DEF OnSide, CanReceive, Resolves, Holds
  <2>3. PaymentLines(form) = <<a, b>>
    BY DEF PaymentLines
  <2> HIDE DEF a, b
  <2>4. Received(<<a, b>>, form.amount)
    BY <2>1, <2>2, TwoLines DEF Received
  <2> QED
    BY <2>3, <2>4
<1> QED
  BY <1>1, <1>4, <1>5, <1>6

\* What an entry that was typed moves.
LEMMA EntryFacts ==
    ASSUME NEW form \in JournalInput, Balancing(form)
    PROVE  form.day \in Int /\ Dated(form.day) /\ LinesStand(FilledIn(form.lines))
<1> DEFINE ls == FilledIn(form.lines)
<1>1. form.day \in Int /\ form.lines \in Seq([account : STRING, side : STRING, amount : Int])
  BY DEF JournalInput
<1>2. Dated(form.day) /\ Agrees(ls)
  BY DEF Balancing, WellFormed
<1>3. DOMAIN ls \subseteq DOMAIN form.lines /\ \A i \in DOMAIN ls : ls[i] = form.lines[i]
  BY DEF FilledIn, Restrict
<1>4. DOMAIN form.lines = 1 .. Len(form.lines) /\ Len(form.lines) \in Nat
  BY <1>1
<1>5. IsFiniteSet(DOMAIN ls)
  <2>1. IsFiniteSet(1 .. Len(form.lines))
    BY <1>4, FS_Interval
  <2> HIDE DEF ls
  <2> QED
    BY <1>3, <1>4, <2>1, FS_Subset
<1>6. \A i \in DOMAIN ls : ls[i].amount \in Int
  <2> DEFINE Entry == [account : STRING, side : STRING, amount : Int]
             lines == form.lines
  <2>0. lines \in Seq(Entry) /\ \A e \in Entry : e.amount \in Int
    BY <1>1
  <2> HIDE DEF Entry, lines
  <2>1. \A i \in DOMAIN form.lines : form.lines[i].amount \in Int
    <3>1. \A i \in DOMAIN lines : lines[i] \in Entry
      BY <2>0
    <3> QED
      BY <2>0, <3>1 DEF lines
  <2> HIDE DEF ls
  <2> QED
    BY <1>3, <2>1
<1>7. \A i \in DOMAIN ls : ls[i].account \in DOMAIN chart /\ ls[i].side \in {"debit", "credit"}
  BY DEF Balancing, WellFormed, Holds
<1> HIDE DEF ls
<1> QED
  BY <1>1, <1>2, <1>5, <1>6, <1>7 DEF LinesStand, ls

-----------------------------------------------------------------------------
(* The web books: what each write leaves behind.                           *)

\* A voucher joins the others under a number nobody has, of what its paper says.
LEMMA VoucherAdded ==
    ASSUME PapersStand, VouchersStand, NEW e, e.id = seq + 1, VoucherStands(e),
           posted' = Append(posted, e), UNCHANGED setup,
           DOMAIN filed' \cup journals' = DOMAIN filed \cup journals \cup {e.id},
           DOMAIN filed' \subseteq DOMAIN filed \cup {e.id},
           \A id \in DOMAIN filed :
                filed'[id].total = filed[id].total /\ filed'[id].period = filed[id].period,
           e.id \in DOMAIN filed' =>
                SideOf(e.lines, "debit") = filed'[e.id].total /\ PeriodFor(e.day).id = filed'[e.id].period
    PROVE  VouchersStand'
<1>0. PICK n : n = Len(posted) + 1
  OBVIOUS
<1>1. /\ AList(posted') /\ n \in Nat /\ DOMAIN posted = 1 .. n - 1 /\ DOMAIN posted' = 1 .. n
      /\ (\A i \in DOMAIN posted : posted'[i] = posted[i]) /\ posted'[n] = e
  BY <1>0, ListGrows DEF VouchersStand
<1>2. \A i \in DOMAIN posted : posted[i].id \in 1 .. seq /\ posted[i].id # e.id
  <2>1. \A i \in DOMAIN posted : posted[i].id \in DOMAIN filed \cup journals
    BY DEF VouchersStand
  <2>2. DOMAIN filed \cup journals \subseteq 1 .. seq /\ seq \in Nat /\ e.id = seq + 1
    BY DEF PapersStand
  <2>3. e.id \notin 1 .. seq
    BY <2>2
  <2> QED
    BY <2>1, <2>2, <2>3
<1>3. DOMAIN posted' = DOMAIN posted \cup {n} /\ n \notin DOMAIN posted
  BY <1>1
<1>4. \A i, j \in DOMAIN posted' : posted'[i].id = posted'[j].id => i = j
  BY <1>1, <1>2, <1>3 DEF VouchersStand
<1>5. {posted'[i].id : i \in DOMAIN posted'} = {posted[i].id : i \in DOMAIN posted} \cup {e.id}
  BY <1>1, <1>3
<1>6. {posted'[i].id : i \in DOMAIN posted'} = DOMAIN filed' \cup journals'
  BY <1>5 DEF VouchersStand
<1>7. years' = years /\ chart' = chart
  BY DEF setup
<1>8. \A i \in DOMAIN posted : VoucherStands(posted[i])' /\ OfItsPaper(posted[i])'
  <2> TAKE i \in DOMAIN posted
  <2>1. VoucherStands(posted[i]) /\ OfItsPaper(posted[i]) /\ posted'[i] = posted[i] /\ posted[i].id # e.id
    BY <1>1, <1>2 DEF VouchersStand
  <2>2. VoucherStands(posted[i])'
    BY <1>7, <2>1 DEF VoucherStands, Dated, LinesStand
  <2>3. OfItsPaper(posted[i])'
    BY <1>7, <2>1 DEF OfItsPaper, PeriodFor
  <2> QED
    BY <2>2, <2>3
<1>9. VoucherStands(posted[n])' /\ OfItsPaper(posted[n])'
  <2>1. VoucherStands(posted[n])'
    BY <1>1, <1>7 DEF VoucherStands, Dated, LinesStand
  <2>2. OfItsPaper(posted[n])'
    BY <1>1, <1>7 DEF OfItsPaper, PeriodFor
  <2> QED
    BY <2>1, <2>2
<1>10. \A i \in DOMAIN posted' : VoucherStands(posted[i])' /\ OfItsPaper(posted[i])'
  BY <1>3, <1>8, <1>9
<1> QED
  BY <1>1, <1>4, <1>6, <1>10 DEF VouchersStand

\* What rows come to.
Worth(entries) == Total([r \in entries |-> r.amount])

\* What rows come to is a sum over any larger set of them.
LEMMA SpentOver ==
    ASSUME NEW more, NEW some \in SUBSET more
    PROVE  Worth(some) = Over(Amounts(more), some)
<1>1. [r \in some |-> r.amount] = [r \in some |-> Amounts(more)[r]]
  BY DEF Amounts
<1> QED
  BY <1>1 DEF Over, Worth

\* One row more.
LEMMA SpentMore ==
    ASSUME NEW some, IsFiniteSet(some), \A r \in some : r.amount \in Int,
           NEW row, row \notin some, row.amount \in Int
    PROVE  Worth(some \cup {row}) = Worth(some) + row.amount
<1> DEFINE more == some \cup {row}
           f == Amounts(more)
<1>1. (\A r \in more : f[r] \in Int) /\ f[row] = row.amount
  BY DEF Amounts
<1>2. Worth(more) = Over(f, more) /\ Worth(some) = Over(f, some)
  BY SpentOver
<1> HIDE DEF f
<1>3. Over(f, some \cup {row}) = Over(f, some) + f[row]
  BY <1>1, OverAdd
<1> QED
  BY <1>1, <1>2, <1>3

\* No rows, and one.
LEMMA SpentFew ==
    /\ Worth({}) = 0
    /\ \A row : row.amount \in Int => Worth({row}) = row.amount
<1>1. Worth({}) = 0
  <2> DEFINE f == Amounts({})
  <2>1. Worth({}) = Over(f, {})
    BY SpentOver
  <2> HIDE DEF f
  <2> QED
    BY <2>1, OverEmpty
<1>2. ASSUME NEW row, row.amount \in Int
      PROVE  Worth({row}) = row.amount
  <2> DEFINE f == Amounts({row})
  <2>1. Worth({row}) = Over(f, {row}) /\ f[row] = row.amount
    BY SpentOver DEF Amounts
  <2> HIDE DEF f
  <2> QED
    BY <1>2, <2>1, OverOne
<1> QED
  BY <1>1, <1>2

\* A paper nobody has paid joins the others.
LEMMA PaperFiled ==
    ASSUME SettledStand, UNCHANGED <<settlements, overpayments>>,
           NEW id, id \notin DOMAIN filed, NEW d, d.allocated = 0, filed' = File(filed, id, d)
    PROVE  SettledStand'
<1>1. /\ DOMAIN filed' = DOMAIN filed \cup {id} /\ filed'[id] = d
      /\ \A x \in DOMAIN filed : filed'[x] = filed[x] /\ x # id
  BY DEF File
<1>2. \A r \in settlements \cup overpayments : r.payment \in DOMAIN filed /\ r.doc \in DOMAIN filed
  BY DEF SettledStand
<1>3. {s \in settlements : s.doc = id} = {}
  BY <1>1, <1>2
<1>4. \A x \in DOMAIN filed' :
        filed'[x].allocated = Worth({s \in settlements : s.doc = x})
  BY <1>1, <1>3, SpentFew DEF SettledStand, MoneySpentOnce, Worth
<1>5. \A r \in settlements \cup overpayments :
        /\ filed'[r.payment].kind = "receipt"
        /\ Worth(RowsOf(r.payment)) = filed'[r.payment].total
  BY <1>1, <1>2 DEF SettledStand, MoneySpentOnce, Worth
<1>6. \A x : RowsOf(x)' = RowsOf(x)
  BY DEF RowsOf
<1>7. MoneySpentOnce'
  BY <1>4, <1>5, <1>6 DEF MoneySpentOnce, Worth
<1> QED
  BY <1>1, <1>2, <1>7 DEF SettledStand

\* A document takes what it is owed and no more; the rest is credit.
LEMMA SettlingFacts ==
    ASSUME NEW t \in WebPaper, Rules!ValidDocument(t), NEW app, app.amount \in Int, Rules!MaySettle(t, app)
    PROVE  /\ Rules!Settled(t, app) \in WebPaper /\ Rules!ValidDocument(Rules!Settled(t, app))
           /\ Rules!Applied(t, app) \in Nat /\ Rules!Credited(t, app) \in Nat
           /\ Rules!Applied(t, app) + Rules!Credited(t, app) = app.amount
           /\ Rules!Settled(t, app).allocated = t.allocated + Rules!Applied(t, app)
           /\ Rules!Settled(t, app).total = t.total /\ Rules!Settled(t, app).kind = t.kind
           /\ Rules!Settled(t, app).period = t.period
<1> DEFINE a == Rules!Applied(t, app)
           u == Rules!Settled(t, app)
           s == Rules!StatusFor(t.total, t.allocated + a)
<1>1. /\ t.total \in Int /\ t.allocated \in Int /\ t.status # "void"
      /\ 0 <= t.allocated /\ t.allocated <= t.total /\ 0 < t.total
      /\ app.amount \in Int /\ 0 < app.amount
  BY DEF WebPaper, Rules!ValidDocument, Rules!MaySettle
<1>2. a = IF t.total - t.allocated < app.amount THEN t.total - t.allocated ELSE app.amount
  BY <1>1 DEF Rules!Applied, Rules!Outstanding
<1>3. u = [t EXCEPT !.allocated = t.allocated + a, !.status = s]
  BY DEF Rules!Settled
<1>4. Rules!Credited(t, app) = app.amount - a
  BY DEF Rules!Credited
<1> HIDE DEF a, u
<1>5. a \in Nat /\ app.amount - a \in Nat /\ t.allocated + a \in Int /\ t.allocated + a <= t.total
      /\ 0 <= t.allocated + a
  BY <1>1, <1>2
<1>6. s \in {"open", "partially_paid", "paid"}
  BY <1>1, <1>5 DEF Rules!StatusFor
<1> HIDE DEF s
<1>7. /\ u \in WebPaper /\ u.total = t.total /\ u.kind = t.kind /\ u.period = t.period
      /\ u.allocated = t.allocated + a /\ u.status = s
  BY <1>3, <1>5, <1>6 DEF WebPaper
<1>8. Rules!ValidDocument(u)
  BY <1>1, <1>5, <1>7 DEF Rules!ValidDocument, s
<1> QED
  BY <1>4, <1>5, <1>7, <1>8 DEF a, u

\* A receipt that settles a document spends all of its money on it.
LEMMA ReceiptSpent ==
    ASSUME SettledStand, NEW id \in Nat, id \notin DOMAIN filed, NEW d, d.allocated = 0, d.kind = "receipt",
           NEW app, app.payment = id, app.id \in Nat, app.doc \in DOMAIN filed, app.doc \in Nat,
           app.amount \in Int, app.amount > 0, d.total = app.amount,
           NEW t, t = filed[app.doc], t \in WebPaper, Rules!ValidDocument(t), Rules!MaySettle(t, app),
           filed' = File([filed EXCEPT ![app.doc] = Rules!Settled(t, app)], id, d),
           settlements' = settlements \cup Rules!AllocationRows(t, app),
           overpayments' = overpayments \cup Rules!CreditRows(t, app)
    PROVE  SettledStand'
<1> DEFINE a == Rules!Applied(t, app)
           c == Rules!Credited(t, app)
           new == [id |-> app.id, doc |-> app.doc, payment |-> app.payment, amount |-> a]
           over == [id |-> app.id, doc |-> app.doc, payment |-> app.payment, partner |-> t.partner, amount |-> c]
           News == Rules!AllocationRows(t, app)
           Overs == Rules!CreditRows(t, app)
<1>1. a \in Nat /\ c \in Nat /\ a + c = app.amount
  BY SettlingFacts
<1>2. /\ Rules!Settled(t, app).allocated = t.allocated + a
      /\ Rules!Settled(t, app).total = t.total /\ Rules!Settled(t, app).kind = t.kind
  BY SettlingFacts
<1>3. News = (IF a > 0 THEN {new} ELSE {}) /\ Overs = (IF c > 0 THEN {over} ELSE {})
  BY DEF Rules!AllocationRows, Rules!CreditRows
<1>4. /\ new \in SettlementRow /\ new.doc = app.doc /\ new.payment = id /\ new.amount = a
      /\ over \in OverpaymentRow /\ over.doc = app.doc /\ over.payment = id /\ over.amount = c
  BY <1>1 DEF SettlementRow, OverpaymentRow, WebPaper
<1>5. new # over
  <2>1. "partner" \notin DOMAIN new /\ "partner" \in DOMAIN over
    OBVIOUS
  <2> QED
    BY <2>1
<1> HIDE DEF a, c, new, over, News, Overs
<1>6. /\ DOMAIN filed' = DOMAIN filed \cup {id} /\ filed'[id] = d /\ app.doc # id
      /\ filed'[app.doc] = Rules!Settled(t, app)
      /\ \A x \in DOMAIN filed : x # id /\ (x # app.doc => filed'[x] = filed[x])
  BY DEF File
<1>7. \A x \in DOMAIN filed : filed'[x].total = filed[x].total /\ filed'[x].kind = filed[x].kind
  BY <1>2, <1>6
<1>8. \A r \in settlements \cup overpayments :
        r.payment \in DOMAIN filed /\ r.doc \in DOMAIN filed /\ r.amount \in Int /\ r.payment # id
  BY <1>6 DEF SettledStand, SettlementRow, OverpaymentRow
<1>9. /\ settlements' = settlements \cup News /\ overpayments' = overpayments \cup Overs
      /\ \A r \in News \cup Overs : r.doc = app.doc /\ r.payment = id
  BY <1>3, <1>4 DEF News, Overs
<1>10. /\ IsFiniteSet(settlements') /\ settlements' \subseteq SettlementRow
       /\ IsFiniteSet(overpayments') /\ overpayments' \subseteq OverpaymentRow
  <2>1. IsFiniteSet(News) /\ IsFiniteSet(Overs)
    BY <1>3, FS_EmptySet, FS_Singleton
  <2>2. News \subseteq SettlementRow /\ Overs \subseteq OverpaymentRow
    BY <1>3, <1>4
  <2>3. IsFiniteSet(settlements) /\ IsFiniteSet(overpayments)
        /\ settlements \subseteq SettlementRow /\ overpayments \subseteq OverpaymentRow
    BY DEF SettledStand
  <2>4. IsFiniteSet(settlements \cup News) /\ IsFiniteSet(overpayments \cup Overs)
    BY <2>1, <2>3, FS_Union
  <2> QED
    BY <1>9, <2>2, <2>3, <2>4
<1>11. \A r \in settlements' \cup overpayments' : r.payment \in DOMAIN filed' /\ r.doc \in DOMAIN filed'
  BY <1>6, <1>8, <1>9
<1>12. ASSUME NEW x \in DOMAIN filed'
       PROVE  filed'[x].allocated = Worth({s \in settlements' : s.doc = x})
  <2> DEFINE before == {s \in settlements : s.doc = x}
             after == {s \in settlements' : s.doc = x}
  <2>1. CASE x = id
    <3>1. after = {}
      BY <1>6, <1>8, <1>9, <2>1
    <3> QED
      BY <1>6, <2>1, <3>1, SpentFew
  <2>2. x \in DOMAIN filed => filed[x].allocated = Worth(before)
    BY DEF SettledStand, MoneySpentOnce, Worth
  <2>3. CASE x # id /\ x # app.doc
    <3>1. after = before
      BY <1>9, <2>3
    <3> HIDE DEF before, after
    <3> QED
      BY <1>6, <2>2, <2>3, <3>1 DEF after
  <2>4. CASE x = app.doc
    <3>1. after = before \cup News /\ before \subseteq settlements
      BY <1>9, <2>4
    <3>2. IsFiniteSet(before)
      BY <3>1, FS_Subset DEF SettledStand
    <3>3. (\A r \in before : r.amount \in Int) /\ new \notin before
      BY <1>4, <1>8
    <3>4. filed'[x].allocated = Worth(before) + a
      BY <1>2, <1>6, <2>2, <2>4
    <3>5. Worth(before) \in Int
      BY <2>2, <2>4 DEF WebPaper
    <3> HIDE DEF before
    <3>6. CASE a > 0
      <4>1. after = before \cup {new}
        BY <1>3, <3>1, <3>6
      <4>2. Worth(before \cup {new}) = Worth(before) + new.amount
        BY <1>1, <1>4, <3>2, <3>3, SpentMore
      <4> QED
        BY <1>4, <3>4, <4>1, <4>2
    <3>7. CASE ~(a > 0)
      <4>1. after = before /\ a = 0
        BY <1>1, <1>3, <3>1, <3>7
      <4> HIDE DEF after
      <4>2. filed'[x].allocated = Worth(after)
        BY <3>4, <3>5, <4>1
      <4> QED
        BY <4>2 DEF after
    <3> QED
      BY <3>6, <3>7
  <2> QED
    BY <1>6, <2>1, <2>3, <2>4
<1>13. ASSUME NEW r \in settlements' \cup overpayments'
       PROVE  /\ filed'[r.payment].kind = "receipt"
              /\ Worth(RowsOf(r.payment)') = filed'[r.payment].total
  <2>1. CASE r \in settlements \cup overpayments
    <3>1. r.payment # id /\ r.payment \in DOMAIN filed
      BY <1>8, <2>1
    <3>2. RowsOf(r.payment)' = RowsOf(r.payment)
      BY <1>9, <3>1 DEF RowsOf
    <3>3. /\ filed[r.payment].kind = "receipt"
          /\ Worth(RowsOf(r.payment)) = filed[r.payment].total
      BY <2>1 DEF SettledStand, MoneySpentOnce, Worth
    <3> QED
      BY <1>7, <3>1, <3>2, <3>3
  <2>2. CASE r \notin settlements \cup overpayments
    <3>1. r.payment = id
      BY <1>9, <2>2
    <3>2. RowsOf(id)' = News \cup Overs
      BY <1>8, <1>9 DEF RowsOf
    <3>3. Worth(News \cup Overs) = a + c
      <4>1. CASE a > 0 /\ c > 0
        <5>1. News \cup Overs = {new} \cup {over}
          BY <1>3, <4>1
        <5>2. IsFiniteSet({new}) /\ over \notin {new}
          BY <1>5, FS_Singleton
        <5>3. Worth({new} \cup {over}) = Worth({new}) + over.amount
          BY <1>1, <1>4, <5>2, SpentMore
        <5>4. Worth({new}) = new.amount
          BY <1>1, <1>4, SpentFew
        <5>5. Worth({new} \cup {over}) = a + c
          BY <1>1, <1>4, <5>3, <5>4
        <5> QED
          BY <5>1, <5>5
      <4>2. CASE a > 0 /\ ~(c > 0)
        <5>1. News \cup Overs = {new} /\ c = 0
          BY <1>1, <1>3, <4>2
        <5> QED
          BY <1>1, <1>4, <5>1, SpentFew
      <4>3. CASE ~(a > 0) /\ c > 0
        <5>1. News \cup Overs = {over} /\ a = 0
          BY <1>1, <1>3, <4>3
        <5> QED
          BY <1>1, <1>4, <5>1, SpentFew
      <4>4. CASE ~(a > 0) /\ ~(c > 0)
        BY <1>1, <4>4
      <4> QED
        BY <4>1, <4>2, <4>3, <4>4
    <3> QED
      BY <1>1, <1>6, <3>1, <3>2, <3>3
  <2> QED
    BY <2>1, <2>2
<1>14. MoneySpentOnce'
  BY <1>12, <1>13 DEF MoneySpentOnce, RowsOf, Worth
<1> QED
  BY <1>10, <1>11, <1>14 DEF SettledStand

\* What a form posts is under its key.
PostsUnder(v) == \E e : posted' = Append(posted, e) /\ e.by = visit[v].request.key

\* CreateInvoice, CreatePayment and CreateJournal leave books that stand.
LEMMA InvoiceKeeps ==
    ASSUME BooksStand, NEW v, NEW form \in InvoiceInput, CanInvoice(form), CreateInvoice(v, form)
    PROVE  BooksStand' /\ PostsUnder(v)
<1> USE DEF BooksStand
<1>1. PICK d : d = Invoice(form)
  OBVIOUS
<1>2. PICK e : e = [id |-> seq + 1, day |-> form.day, lines |-> InvoiceLines(form), by |-> visit[v].request.key]
  OBVIOUS
<1>3. PICK id : id = seq + 1
  OBVIOUS
<1>4. /\ seq' = id /\ filed' = File(filed, id, d) /\ posted' = Append(posted, e)
      /\ Agrees(e.lines) /\ UNCHANGED <<settlements, overpayments, journals, setup>>
  BY <1>1, <1>2, <1>3 DEF CreateInvoice, PostVoucher
<1>5. /\ form.day \in Int /\ Dated(form.day) /\ Received(InvoiceLines(form), d.total)
      /\ d \in WebPaper /\ Rules!ValidDocument(d) /\ d.allocated = 0 /\ d.period = PeriodFor(form.day).id
  BY <1>1, InvoiceFacts
<1>6. /\ DOMAIN filed' = DOMAIN filed \cup {id} /\ filed'[id] = d
      /\ \A x \in DOMAIN filed : x # id => filed'[x] = filed[x]
  BY <1>4 DEF File
<1>7. id \notin DOMAIN filed /\ id \notin journals /\ id \in Nat /\ id \in 1 .. id /\ 1 .. seq \subseteq 1 .. id
  BY <1>3 DEF PapersStand
<1>8. /\ e.id = id /\ e.day = form.day /\ e.lines = InvoiceLines(form) /\ e.by = visit[v].request.key
  BY <1>2, <1>3
<1>9. VoucherStands(e) /\ SideOf(e.lines, "debit") = d.total
  BY <1>4, <1>5, <1>8, ReceivedDebits DEF VoucherStands
<1>10. PapersStand'
  BY <1>4, <1>5, <1>6, <1>7 DEF PapersStand
<1>11. VouchersStand'
  BY <1>3, <1>4, <1>5, <1>6, <1>7, <1>8, <1>9, VoucherAdded
<1>12. SettledStand'
  BY <1>4, <1>5, <1>7, PaperFiled
<1>13. SetupStands'
  BY <1>4 DEF SetupStands, setup
<1> QED
  BY <1>4, <1>8, <1>10, <1>11, <1>12, <1>13 DEF PostsUnder

\* A payment, against a document or against none.
LEMMA PaymentKeeps ==
    ASSUME BooksStand, NEW v, NEW form \in PaymentInput, CanReceive(form), CreatePayment(v, form)
    PROVE  BooksStand' /\ PostsUnder(v)
<1> USE DEF BooksStand
<1>1. PICK d : d = Receipt(form)
  OBVIOUS
<1>2. PICK e : e = [id |-> seq + 1, day |-> form.day, lines |-> PaymentLines(form), by |-> visit[v].request.key]
  OBVIOUS
<1>3. PICK id : id = seq + 1
  OBVIOUS
<1>4. posted' = Append(posted, e) /\ Agrees(e.lines) /\ UNCHANGED <<journals, setup>>
  BY <1>2 DEF CreatePayment, PostVoucher
<1>5. /\ form.day \in Int /\ Dated(form.day) /\ form.amount \in Int /\ form.amount > 0
      /\ form.against \in Nat /\ Received(PaymentLines(form), form.amount)
      /\ d \in WebPaper /\ Rules!ValidDocument(d) /\ d.allocated = 0 /\ d.total = form.amount
      /\ d.kind = "receipt" /\ d.period = PeriodFor(form.day).id
  BY <1>1, ReceiptFacts
<1>6. id \notin DOMAIN filed /\ id \notin journals /\ id \in Nat /\ id \in 1 .. id /\ 1 .. seq \subseteq 1 .. id
  BY <1>3 DEF PapersStand
<1>7. /\ e.id = id /\ e.day = form.day /\ e.lines = PaymentLines(form) /\ e.by = visit[v].request.key
  BY <1>2, <1>3
<1>8. VoucherStands(e) /\ SideOf(e.lines, "debit") = d.total
  BY <1>4, <1>5, <1>7, ReceivedDebits DEF VoucherStands
<1>9. SetupStands'
  BY <1>4 DEF SetupStands, setup
<1>10. CASE form.against = 0
  <2>1. seq' = id /\ filed' = File(filed, id, d) /\ UNCHANGED <<settlements, overpayments>>
    BY <1>1, <1>3, <1>10 DEF CreatePayment
  <2>2. /\ DOMAIN filed' = DOMAIN filed \cup {id} /\ filed'[id] = d
        /\ \A x \in DOMAIN filed : x # id => filed'[x] = filed[x]
    BY <2>1 DEF File
  <2>3. PapersStand'
    BY <1>4, <1>5, <1>6, <2>1, <2>2 DEF PapersStand
  <2>4. VouchersStand'
    BY <1>3, <1>4, <1>5, <1>6, <1>7, <1>8, <2>2, VoucherAdded
  <2>5. SettledStand'
    BY <1>5, <1>6, <2>1, PaperFiled
  <2> QED
    BY <1>4, <1>7, <1>9, <2>3, <2>4, <2>5 DEF PostsUnder
<1>11. CASE form.against # 0
  <2>1. PICK app : app = SettlementOf(form, seq + 1, seq + 2)
    OBVIOUS
  <2>2. PICK t : t = filed[form.against]
    OBVIOUS
  <2>3. /\ app.id = seq + 2 /\ app.payment = id /\ app.doc = form.against /\ app.amount = form.amount
    BY <1>3, <2>1 DEF SettlementOf
  <2>4. /\ Rules!MaySettle(t, app)
        /\ filed' = File([filed EXCEPT ![app.doc] = Rules!Settled(t, app)], id, d)
        /\ settlements' = settlements \cup Rules!AllocationRows(t, app)
        /\ overpayments' = overpayments \cup Rules!CreditRows(t, app)
        /\ seq' = app.id
    BY <1>1, <1>3, <1>11, <2>1, <2>2, <2>3 DEF CreatePayment
  <2>5. form.against \in DOMAIN filed /\ t \in WebPaper /\ Rules!ValidDocument(t)
    BY <1>11, <2>2 DEF CanReceive, Payable, PapersStand
  <2>6. app.id \in Nat /\ 1 .. id \subseteq 1 .. app.id
    BY <1>3, <1>6, <2>3 DEF PapersStand
  <2>7. PICK u : u = Rules!Settled(t, app)
    OBVIOUS
  <2>8. u \in WebPaper /\ Rules!ValidDocument(u) /\ u.total = t.total /\ u.period = t.period
    BY <1>5, <2>3, <2>4, <2>5, <2>7, SettlingFacts
  <2>9. /\ DOMAIN filed' = DOMAIN filed \cup {id} /\ filed'[id] = d
        /\ \A x \in DOMAIN filed : x # id => filed'[x] = IF x = app.doc THEN u ELSE filed[x]
    BY <2>4, <2>7 DEF File
  <2>10. PapersStand'
    BY <1>4, <1>5, <1>6, <2>4, <2>6, <2>8, <2>9 DEF PapersStand
  <2>11. \A x \in DOMAIN filed : filed'[x].total = filed[x].total /\ filed'[x].period = filed[x].period
    BY <1>6, <2>2, <2>3, <2>8, <2>9
  <2>12. VouchersStand'
    BY <1>3, <1>4, <1>5, <1>7, <1>8, <2>9, <2>11, VoucherAdded
  <2>13. SettledStand'
    BY <1>5, <1>6, <2>2, <2>3, <2>4, <2>5, <2>6, ReceiptSpent
  <2> QED
    BY <1>4, <1>7, <1>9, <2>10, <2>12, <2>13 DEF PostsUnder
<1> QED
  BY <1>10, <1>11

\* A manual entry.
LEMMA EntryKeeps ==
    ASSUME BooksStand, NEW v, NEW form \in JournalInput, Balancing(form), CreateJournal(v, form)
    PROVE  BooksStand' /\ PostsUnder(v)
<1> USE DEF BooksStand
<1>1. PICK e : e = [id |-> seq + 1, day |-> form.day, lines |-> FilledIn(form.lines), by |-> visit[v].request.key]
  OBVIOUS
<1>2. PICK id : id = seq + 1
  OBVIOUS
<1>3. /\ seq' = id /\ posted' = Append(posted, e) /\ journals' = journals \cup {id}
      /\ UNCHANGED <<filed, settlements, overpayments, setup>>
  BY <1>1, <1>2 DEF CreateJournal, PostVoucher
<1>4. form.day \in Int /\ Dated(form.day) /\ LinesStand(FilledIn(form.lines))
  BY EntryFacts
<1>5. id \notin DOMAIN filed /\ id \in Nat /\ id \in 1 .. id /\ 1 .. seq \subseteq 1 .. id
  BY <1>2 DEF PapersStand
<1>6. /\ e.id = id /\ e.day = form.day /\ e.lines = FilledIn(form.lines) /\ e.by = visit[v].request.key
  BY <1>1, <1>2
<1>7. VoucherStands(e)
  BY <1>4, <1>6 DEF VoucherStands
<1>8. PapersStand'
  BY <1>3, <1>5 DEF PapersStand
<1>9. VouchersStand'
  BY <1>2, <1>3, <1>5, <1>6, <1>7, VoucherAdded
<1>10. SettledStand'
  BY <1>3 DEF SettledStand, MoneySpentOnce, RowsOf
<1>11. SetupStands'
  BY <1>3 DEF SetupStands, setup
<1> QED
  BY <1>3, <1>6, <1>8, <1>9, <1>10, <1>11 DEF PostsUnder

\* The chart grows, the calendar is added to: what is posted still stands.
LEMMA SetupGrows ==
    ASSUME BooksStand, UNCHANGED paper, SetupStands', DOMAIN chart \subseteq DOMAIN chart', years \subseteq years'
    PROVE  BooksStand'
<1> USE DEF BooksStand, paper
<1>1. \A day \in Int : Dated(day) => Dated(day)' /\ PeriodFor(day)' = PeriodFor(day)
  <2> TAKE day \in Int
  <2> HAVE Dated(day)
  <2>1. PeriodFor(day) \in years /\ Covers(PeriodFor(day), day)
    BY DatedIn
  <2>2. Dated(day)'
    BY <2>1 DEF Dated
  <2>3. PeriodFor(day)' \in years' /\ Covers(PeriodFor(day)', day)
    BY <2>2 DEF Dated, PeriodFor
  <2>4. \A p, q \in years' : p # q => p.last < q.first \/ q.last < p.first
    BY DEF SetupStands, Sequence
  <2>5. \A p \in years' : p.first \in Int /\ p.last \in Int
    BY DEF SetupStands, Period
  <2>6. \A p, q \in years' : Covers(p, day) /\ Covers(q, day) => p = q
    <3> TAKE p, q \in years'
    <3> HAVE Covers(p, day) /\ Covers(q, day)
    <3>1. p.first <= day /\ day <= p.last /\ q.first <= day /\ day <= q.last
      BY DEF Covers
    <3> QED
      BY <2>4, <2>5, <3>1
  <2> QED
    BY <2>1, <2>2, <2>3, <2>6
<1>2. PapersStand' /\ SettledStand'
  BY DEF PapersStand, SettledStand, MoneySpentOnce, RowsOf
<1>3. \A i \in DOMAIN posted : VoucherStands(posted[i])' /\ OfItsPaper(posted[i])'
  <2> TAKE i \in DOMAIN posted
  <2>1. VoucherStands(posted[i]) /\ OfItsPaper(posted[i]) /\ posted'[i] = posted[i]
    BY DEF VouchersStand
  <2>2. Dated(posted[i].day)' /\ PeriodFor(posted[i].day)' = PeriodFor(posted[i].day)
    BY <1>1, <2>1 DEF VoucherStands
  <2>3. VoucherStands(posted[i])'
    BY <2>1, <2>2 DEF VoucherStands, LinesStand
  <2>4. OfItsPaper(posted[i])'
    BY <2>1, <2>2 DEF OfItsPaper
  <2> QED
    BY <2>3, <2>4
<1>4. VouchersStand'
  BY <1>3 DEF VouchersStand
<1> QED
  BY <1>2, <1>4

\* CreateAccount, CreatePeriod and CreateVATRate add to what is set up.
LEMMA AccountKeeps ==
    ASSUME BooksStand, NEW form, CanPlaceAccount(form), CreateAccount(form)
    PROVE  BooksStand'
<1>1. /\ chart' = AddAccount(chart, form) /\ UNCHANGED <<paper, years, rates>>
      /\ ~Holds(chart, form.code) /\ (form.parent # Blank => Holds(chart, form.parent))
  BY DEF CreateAccount, CanPlaceAccount, CanAddAccount
<1>2. SetupStands
  BY DEF BooksStand
<1>3. /\ ValidChart(chart') /\ IsFiniteSet(DOMAIN chart') /\ DOMAIN chart' = DOMAIN chart \cup {form.code}
  BY <1>1, <1>2, GrownChart DEF SetupStands
<1>4. SetupStands'
  BY <1>1, <1>2, <1>3 DEF SetupStands
<1> QED
  BY <1>1, <1>3, <1>4, SetupGrows

\* A period.
LEMMA PeriodKeeps ==
    ASSUME BooksStand, NEW form \in PeriodInput, CanAdd(years, Candidate(form)), CreatePeriod(form)
    PROVE  BooksStand'
<1>1. /\ years' = years \cup {Candidate(form)} /\ UNCHANGED <<paper, rates, chart>>
      /\ Sequence(years')
  BY DEF CreatePeriod, CanAdd
<1>2. Candidate(form) \in Period
  BY DEF PeriodInput, Candidate, Period
<1>3. SetupStands'
  BY <1>1, <1>2 DEF BooksStand, SetupStands
<1> QED
  BY <1>1, <1>3, SetupGrows

\* A rate.
LEMMA RateKeeps ==
    ASSUME BooksStand, NEW form, CanCreateRate(rates, Row(form)), CreateVATRate(form)
    PROVE  BooksStand'
<1>1. rates' = rates \cup {Row(form)} /\ UNCHANGED <<paper, years, chart>>
  BY DEF CreateVATRate
<1>2. Row(form).rate \in 0 .. Whole
  BY Zenon DEF CanCreateRate, ValidRate
<1>3. Row(form).rate \in Int
  <2>1. \A n \in 0 .. Whole : n \in Int
    BY DEF Whole
  <2> QED
    BY <1>2, <2>1, Zenon
<1>4. SetupStands'
  BY <1>1, <1>3 DEF BooksStand, SetupStands
<1> QED
  BY <1>1, <1>4, SetupGrows

\* A form that is accepted is written whole; one that posts does so under its key.
LEMMA WritingKeeps ==
    ASSUME BooksStand, NEW v, visit[v].request \in Requests,
           Acceptable(visit[v].request.form), Writing(v, visit[v].request.form)
    PROVE  /\ BooksStand'
           /\ IF Posts(visit[v].request.form) THEN PostsUnder(v) ELSE posted' = posted
<1> DEFINE form == visit[v].request.form
<1>1. PICK r \in Requests : r = visit[v].request
  OBVIOUS
<1>2. PICK f : f = form /\ f = r.form
  BY <1>1
<1>3. Acceptable(f) /\ Writing(v, f)
  BY <1>2
<1>4. CASE f.kind = "invoice"
  <2>1. f \in InvoiceInput /\ CanInvoice(f) /\ CreateInvoice(v, f)
    BY <1>2, <1>3, <1>4, FormOfKind DEF Acceptable, Writing
  <2> QED
    BY <1>2, <1>4, <2>1, InvoiceKeeps DEF Posts
<1>5. CASE f.kind = "payment"
  <2>1. f \in PaymentInput /\ CanReceive(f) /\ CreatePayment(v, f)
    BY <1>2, <1>3, <1>5, FormOfKind DEF Acceptable, Writing
  <2> QED
    BY <1>2, <1>5, <2>1, PaymentKeeps DEF Posts
<1>6. CASE f.kind = "journal"
  <2>1. f \in JournalInput /\ Balancing(f) /\ CreateJournal(v, f)
    BY <1>2, <1>3, <1>6, FormOfKind DEF Acceptable, Writing
  <2> QED
    BY <1>2, <1>6, <2>1, EntryKeeps DEF Posts
<1>7. CASE f.kind = "account"
  <2>1. CanPlaceAccount(f) /\ CreateAccount(f)
    BY <1>3, <1>7 DEF Acceptable, Writing
  <2> QED
    BY <1>2, <1>7, <2>1, AccountKeeps DEF Posts, CreateAccount, paper
<1>8. CASE f.kind = "period"
  <2>1. f \in PeriodInput /\ CanAdd(years, Candidate(f)) /\ CreatePeriod(f)
    BY <1>2, <1>3, <1>8, FormOfKind DEF Acceptable, Writing
  <2> QED
    BY <1>2, <1>8, <2>1, PeriodKeeps DEF Posts, CreatePeriod, paper
<1>9. CASE f.kind = "rate"
  <2>1. CanCreateRate(rates, Row(f)) /\ CreateVATRate(f)
    BY <1>3, <1>9 DEF Acceptable, Writing
  <2> QED
    BY <1>2, <1>9, <2>1, RateKeeps DEF Posts, CreateVATRate, paper
<1> QED
  BY <1>3, <1>4, <1>5, <1>6, <1>7, <1>8, <1>9 DEF Writing

-----------------------------------------------------------------------------
(* The web handlers: keys.                                                 *)

\* A key that has an answer among some.
Among(records, key) == \E r \in records : r.key = key

\* A browser is at nothing, or at a request of its own.
LEMMA Visiting ==
    ASSUME KeysStand, NEW v \in Visitors
    PROVE  /\ DOMAIN visit = Visitors
           /\ visit[v] # Quiet => /\ visit[v].pc \in {"write", "render"} /\ visit[v].request \in Requests
                                  /\ visit[v] = [pc |-> visit[v].pc, request |-> visit[v].request]
           /\ visit[v].pc \in {"write", "render"} => visit[v] # Quiet
BY DEF KeysStand, Quiet

\* A request that arrives takes a key that nobody has.
LEMMA ArriveKeeps ==
    ASSUME KeysStand, NEW v \in Visitors, NEW r \in Requests, Arrive(v, r)
    PROVE  KeysStand'
<1>1. /\ visit[v] = Quiet /\ ~Answered(r.key) /\ ~InFlight(r.key)
      /\ visit' = [visit EXCEPT ![v] = [pc |-> "write", request |-> r]]
      /\ posted' = posted /\ answers' = answers /\ forgotten' = forgotten
  BY DEF Arrive, paper
<1>2. visit[v].pc # "render"
  BY <1>1 DEF Quiet
<1>3. DOMAIN visit = Visitors
  BY Visiting
<1>4. /\ visit'[v].pc = "write" /\ visit'[v].request = r /\ visit'[v] \in [pc : {"write", "render"}, request : Requests]
      /\ \A w \in Visitors : w # v => visit'[w] = visit[w]
  BY <1>1, <1>3
<1>5. visit' \in [Visitors -> {Quiet} \cup [pc : {"write", "render"}, request : Requests]]
  BY <1>1, <1>4 DEF KeysStand
<1>6. \A w \in Visitors : visit[w] # Quiet => visit[w].request.key # r.key
  BY <1>1 DEF InFlight
<1>7. \A u, w \in Visitors :
        u # w /\ visit'[u] # Quiet /\ visit'[w] # Quiet => visit'[u].request.key # visit'[w].request.key
  BY <1>4, <1>6 DEF KeysStand
<1>8. \A w \in Visitors : visit'[w] # Quiet => ~Answered(visit'[w].request.key)
  BY <1>1, <1>4 DEF KeysStand
<1>9. answers' = answers
  BY <1>1
<1>10. \A w \in Visitors : visit'[w].pc = "render" <=> visit[w].pc = "render"
  BY <1>2, <1>4
<1>11. \A w \in Visitors : visit[w].pc = "render" => visit'[w] = visit[w]
  BY <1>2, <1>4
<1>12. \A i \in DOMAIN posted :
        \/ posted[i].by \in forgotten \/ Answered(posted[i].by)
        \/ \E w \in Visitors : visit'[w].pc = "render" /\ visit'[w].request.key = posted[i].by
  BY <1>10, <1>11 DEF KeysStand
<1>13. \A w \in Visitors :
        visit'[w].pc = "render" /\ Posts(visit'[w].request.form) =>
            \E i \in DOMAIN posted : posted[i].by = visit'[w].request.key
  BY <1>10, <1>11 DEF KeysStand
<1>14. KeyPostsOnce'
  BY <1>1 DEF KeysStand, KeyPostsOnce
<1>15. answers \subseteq Requests
  BY DEF KeysStand
<1> QED
  BY <1>1, <1>5, <1>7, <1>8, <1>9, <1>12, <1>13, <1>14, <1>15 DEF KeysStand, Answered

\* A key whose answer expires is forgotten.
LEMMA ExpiryKeeps ==
    ASSUME KeysStand, NEW r, AnswerExpires(r)
    PROVE  KeysStand'
<1>1. /\ r \in answers /\ answers' = answers \ {r} /\ forgotten' = forgotten \cup {r.key}
      /\ visit' = visit /\ posted' = posted
  BY DEF AnswerExpires, paper
<1>2. \A key : /\ Among(answers', key) => Answered(key)
               /\ Answered(key) => Among(answers', key) \/ key = r.key
  BY <1>1 DEF Answered, Among
<1>3. KeyPostsOnce'
  BY <1>1 DEF KeysStand, KeyPostsOnce
<1>4. answers' \subseteq Requests
  BY <1>1 DEF KeysStand
<1>5. \A w \in Visitors : visit'[w] # Quiet => ~Among(answers', visit'[w].request.key)
  <2> TAKE w \in Visitors
  <2> HAVE visit'[w] # Quiet
  <2>1. ~Answered(visit[w].request.key)
    BY <1>1 DEF KeysStand
  <2> QED
    BY <1>1, <1>2, <2>1
<1>6. \A i \in DOMAIN posted :
        \/ posted[i].by \in forgotten' \/ Among(answers', posted[i].by)
        \/ \E w \in Visitors : visit[w].pc = "render" /\ visit[w].request.key = posted[i].by
  BY <1>1, <1>2 DEF KeysStand
<1> QED
  BY <1>1, <1>3, <1>4, <1>5, <1>6 DEF KeysStand, Answered, Among

\* Where one browser's step makes no vouchers and no answers.
LEMMA LeaveKeeps ==
    ASSUME KeysStand, NEW v \in Visitors, visit' = [visit EXCEPT ![v] = Quiet],
           UNCHANGED <<posted, answers>>, forgotten \subseteq forgotten',
           visit[v].pc = "render" => visit[v].request.key \in forgotten'
    PROVE  KeysStand'
<1>1. DOMAIN visit = Visitors
  BY Visiting
<1>2. visit'[v] = Quiet /\ visit'[v].pc # "render" /\ \A w \in Visitors : w # v => visit'[w] = visit[w]
  BY <1>1 DEF Quiet
<1>3. visit' \in [Visitors -> {Quiet} \cup [pc : {"write", "render"}, request : Requests]]
  BY <1>2 DEF KeysStand
<1>4. \A u, w \in Visitors :
        u # w /\ visit'[u] # Quiet /\ visit'[w] # Quiet => visit'[u].request.key # visit'[w].request.key
  BY <1>2 DEF KeysStand
<1>5. \A w \in Visitors : visit'[w] # Quiet => ~Answered(visit'[w].request.key)
  BY <1>2 DEF KeysStand
<1>6. \A i \in DOMAIN posted :
        \/ posted[i].by \in forgotten' \/ Answered(posted[i].by)
        \/ \E w \in Visitors : visit'[w].pc = "render" /\ visit'[w].request.key = posted[i].by
  <2> TAKE i \in DOMAIN posted
  <2>1. CASE \E w \in Visitors : visit[w].pc = "render" /\ visit[w].request.key = posted[i].by
    BY <1>2, <2>1
  <2> QED
    BY <2>1 DEF KeysStand
<1>7. \A w \in Visitors :
        visit'[w].pc = "render" /\ Posts(visit'[w].request.form) =>
            \E i \in DOMAIN posted : posted[i].by = visit'[w].request.key
  BY <1>2 DEF KeysStand
<1>8. KeyPostsOnce'
  BY DEF KeysStand, KeyPostsOnce
<1>9. answers \subseteq Requests
  BY DEF KeysStand
<1> QED
  BY <1>3, <1>4, <1>5, <1>6, <1>7, <1>8, <1>9 DEF KeysStand, Answered

\* A page that is answered with says what is posted.
LEMMA RenderKeeps ==
    ASSUME KeysStand, NEW v \in Visitors, Render(v)
    PROVE  KeysStand'
<1>1. /\ visit[v].pc = "render" /\ answers' = answers \cup {visit[v].request}
      /\ visit' = [visit EXCEPT ![v] = Quiet]
      /\ posted' = posted /\ forgotten' = forgotten
  BY DEF Render, paper
<1>2. /\ DOMAIN visit = Visitors /\ visit[v] # Quiet /\ visit[v].request \in Requests
  BY <1>1, Visiting
<1>3. PICK r \in Requests : r = visit[v].request
  BY <1>2
<1>4. visit'[v] = Quiet /\ visit'[v].pc # "render" /\ \A w \in Visitors : w # v => visit'[w] = visit[w]
  BY <1>1, <1>2 DEF Quiet
<1>5. visit' \in [Visitors -> {Quiet} \cup [pc : {"write", "render"}, request : Requests]]
  BY <1>1, <1>4 DEF KeysStand
<1>6. \A u, w \in Visitors :
        u # w /\ visit'[u] # Quiet /\ visit'[w] # Quiet => visit'[u].request.key # visit'[w].request.key
  BY <1>4 DEF KeysStand
<1>7. \A key : Among(answers', key) <=> Answered(key) \/ key = r.key
  BY <1>1, <1>3 DEF Answered, Among
<1>8. \A w \in Visitors : visit'[w] # Quiet => ~Among(answers', visit'[w].request.key)
  BY <1>2, <1>3, <1>4, <1>7 DEF KeysStand
<1>9. \A i \in DOMAIN posted :
        \/ posted[i].by \in forgotten \/ Among(answers', posted[i].by)
        \/ \E w \in Visitors : visit'[w].pc = "render" /\ visit'[w].request.key = posted[i].by
  <2> TAKE i \in DOMAIN posted
  <2>1. CASE \E w \in Visitors : visit[w].pc = "render" /\ visit[w].request.key = posted[i].by
    BY <1>3, <1>4, <1>7, <2>1
  <2> QED
    BY <1>7, <2>1 DEF KeysStand
<1>10. \A w \in Visitors :
        visit'[w].pc = "render" /\ Posts(visit'[w].request.form) =>
            \E i \in DOMAIN posted : posted[i].by = visit'[w].request.key
  BY <1>4 DEF KeysStand
<1>11. Posts(r.form) => \E i \in DOMAIN posted : posted[i].by = r.key
  BY <1>1, <1>3 DEF KeysStand
<1>12. KeyPostsOnce'
  BY <1>1, <1>3, <1>11 DEF KeysStand, KeyPostsOnce, Posts
<1>13. answers' \subseteq Requests
  BY <1>1, <1>2 DEF KeysStand
<1> QED
  BY <1>1, <1>5, <1>6, <1>8, <1>9, <1>10, <1>12, <1>13 DEF KeysStand, Answered, Among

\* A form is written under a key that has posted nothing, or is forgotten.
LEMMA WriteKeeps ==
    ASSUME WebIInv, NEW v \in Visitors, Write(v)
    PROVE  WebIInv'
<1> USE DEF WebIInv
<1>1. /\ visit[v].pc = "write" /\ Acceptable(visit[v].request.form) /\ Writing(v, visit[v].request.form)
      /\ visit' = [visit EXCEPT ![v].pc = "render"]
      /\ answers' = answers /\ forgotten' = forgotten
  BY DEF Write
<1>2. /\ DOMAIN visit = Visitors /\ visit[v] # Quiet /\ visit[v].request \in Requests
      /\ visit[v] = [pc |-> visit[v].pc, request |-> visit[v].request]
  BY <1>1, Visiting
<1>3. BooksStand' /\ IF Posts(visit[v].request.form) THEN PostsUnder(v) ELSE posted' = posted
  BY <1>1, <1>2, WritingKeeps
<1>4. PICK r \in Requests : r = visit[v].request
  BY <1>2
<1>5. /\ visit'[v] = [pc |-> "render", request |-> r] /\ visit'[v].pc = "render" /\ visit'[v].request = r
      /\ \A w \in Visitors : w # v => visit'[w] = visit[w]
  <2>1. visit'[v] = [visit[v] EXCEPT !.pc = "render"]
    BY <1>1, <1>2
  <2>2. visit[v] = [pc |-> "write", request |-> r]
    BY <1>1, <1>2, <1>4
  <2>3. visit'[v] = [pc |-> "render", request |-> r]
    BY <2>1, <2>2
  <2> QED
    BY <1>1, <1>2, <2>3
<1>6. visit' \in [Visitors -> {Quiet} \cup [pc : {"write", "render"}, request : Requests]]
  BY <1>1, <1>5 DEF KeysStand
<1>7. \A u, w \in Visitors :
        u # w /\ visit'[u] # Quiet /\ visit'[w] # Quiet => visit'[u].request.key # visit'[w].request.key
  BY <1>2, <1>4, <1>5 DEF KeysStand
<1>8. \A w \in Visitors : visit'[w] # Quiet => ~Answered(visit'[w].request.key)
  BY <1>2, <1>4, <1>5 DEF KeysStand
<1>9. ASSUME NEW by, \/ by \in forgotten \/ Answered(by)
                     \/ \E w \in Visitors : visit[w].pc = "render" /\ visit[w].request.key = by
      PROVE  \/ by \in forgotten \/ Answered(by)
             \/ \E w \in Visitors : visit'[w].pc = "render" /\ visit'[w].request.key = by
  BY <1>1, <1>5, <1>9
<1>10. r.key \notin forgotten =>
        \A i \in DOMAIN posted : posted[i].by # r.key
  <2> SUFFICES ASSUME NEW i \in DOMAIN posted, posted[i].by = r.key PROVE r.key \in forgotten
    OBVIOUS
  <2>1. ~Answered(r.key)
    BY <1>2, <1>4 DEF KeysStand
  <2>2. \A w \in Visitors : visit[w].pc = "render" => visit[w].request.key # r.key
    <3> SUFFICES ASSUME NEW w \in Visitors, visit[w].pc = "render" PROVE visit[w].request.key # r.key
      OBVIOUS
    <3>1. w # v /\ visit[w] # Quiet
      BY <1>1, Visiting
    <3> QED
      BY <1>2, <1>4, <3>1 DEF KeysStand
  <2> QED
    BY <2>1, <2>2 DEF KeysStand
<1>11. CASE ~Posts(r.form)
  <2>1. posted' = posted
    BY <1>3, <1>4, <1>11
  <2>2. \A i \in DOMAIN posted :
        \/ posted[i].by \in forgotten \/ Answered(posted[i].by)
        \/ \E w \in Visitors : visit'[w].pc = "render" /\ visit'[w].request.key = posted[i].by
    BY <1>9 DEF KeysStand
  <2>3. \A w \in Visitors :
        visit'[w].pc = "render" /\ Posts(visit'[w].request.form) =>
            \E i \in DOMAIN posted : posted[i].by = visit'[w].request.key
    BY <1>5, <1>11 DEF KeysStand
  <2>4. KeyPostsOnce'
    BY <1>1, <2>1 DEF KeysStand, KeyPostsOnce
  <2>5. answers \subseteq Requests
    BY DEF KeysStand
  <2> QED
    BY <1>1, <1>3, <1>6, <1>7, <1>8, <2>1, <2>2, <2>3, <2>4, <2>5 DEF KeysStand, Answered
<1>12. CASE Posts(r.form)
  <2>1. PICK e : posted' = Append(posted, e) /\ e.by = r.key
    BY <1>3, <1>4, <1>12 DEF PostsUnder
  <2>2. PICK n : n = Len(posted) + 1
    OBVIOUS
  <2>3. /\ n \in Nat /\ n > 0 /\ DOMAIN posted = 1 .. n - 1 /\ DOMAIN posted' = 1 .. n
        /\ (\A i \in DOMAIN posted : posted'[i] = posted[i]) /\ posted'[n] = e
    BY <2>1, <2>2, ListGrows DEF BooksStand, VouchersStand
  <2>4. DOMAIN posted' = DOMAIN posted \cup {n} /\ n \notin DOMAIN posted
    BY <2>3
  <2>5. \A i \in DOMAIN posted' :
        \/ posted'[i].by \in forgotten \/ Answered(posted'[i].by)
        \/ \E w \in Visitors : visit'[w].pc = "render" /\ visit'[w].request.key = posted'[i].by
    <3> TAKE i \in DOMAIN posted'
    <3>1. CASE i = n
      BY <1>5, <2>1, <2>3, <3>1
    <3>2. CASE i \in DOMAIN posted
      <4>1. PICK by : by = posted[i].by /\ by = posted'[i].by
        BY <2>3, <3>2
      <4>2. \/ by \in forgotten \/ Answered(by)
            \/ \E w \in Visitors : visit[w].pc = "render" /\ visit[w].request.key = by
        BY <3>2, <4>1 DEF KeysStand
      <4> QED
        BY <1>9, <4>1, <4>2
    <3> QED
      BY <2>4, <3>1, <3>2
  <2>6. \A w \in Visitors :
        visit'[w].pc = "render" /\ Posts(visit'[w].request.form) =>
            \E i \in DOMAIN posted' : posted'[i].by = visit'[w].request.key
    <3> SUFFICES ASSUME NEW w \in Visitors, visit'[w].pc = "render" /\ Posts(visit'[w].request.form)
                 PROVE  \E i \in DOMAIN posted' : posted'[i].by = visit'[w].request.key
      OBVIOUS
    <3>1. CASE w = v
      BY <1>5, <2>1, <2>3, <2>4, <3>1
    <3>2. CASE w # v
      <4>1. visit'[w] = visit[w]
        BY <1>5, <3>2
      <4>2. PICK i \in DOMAIN posted : posted[i].by = visit[w].request.key
        BY <4>1 DEF KeysStand
      <4> QED
        BY <2>3, <2>4, <4>1, <4>2
    <3> QED
      BY <3>1, <3>2
  <2>7. \A i, j \in DOMAIN posted' : i # j /\ posted'[i].by = posted'[j].by => posted'[i].by \in forgotten
    <3> SUFFICES ASSUME NEW i \in DOMAIN posted', NEW j \in DOMAIN posted', i # j, posted'[i].by = posted'[j].by
                 PROVE  posted'[i].by \in forgotten
      OBVIOUS
    <3>1. CASE i \in DOMAIN posted /\ j \in DOMAIN posted
      BY <2>3, <3>1 DEF KeysStand, KeyPostsOnce
    <3>2. CASE i = n
      BY <1>10, <2>1, <2>3, <2>4, <3>2
    <3>3. CASE j = n
      BY <1>10, <2>1, <2>3, <2>4, <3>3
    <3> QED
      BY <2>4, <3>1, <3>2, <3>3
  <2>8. \A a \in answers :
        a.form.kind \in {"invoice", "payment", "journal"} => \E i \in DOMAIN posted' : posted'[i].by = a.key
    <3> SUFFICES ASSUME NEW a \in answers, a.form.kind \in {"invoice", "payment", "journal"}
                 PROVE  \E i \in DOMAIN posted' : posted'[i].by = a.key
      OBVIOUS
    <3>1. PICK i \in DOMAIN posted : posted[i].by = a.key
      BY DEF KeysStand, KeyPostsOnce
    <3> QED
      BY <2>3, <2>4, <3>1
  <2>9. KeyPostsOnce'
    BY <1>1, <2>7, <2>8 DEF KeyPostsOnce
  <2>10. answers \subseteq Requests
    BY DEF KeysStand
  <2> QED
    BY <1>1, <1>3, <1>6, <1>7, <1>8, <2>5, <2>6, <2>9, <2>10 DEF KeysStand, Answered
<1> QED
  BY <1>11, <1>12

-----------------------------------------------------------------------------
(* The web books: every state.                                             *)

\* New books.
LEMMA NewBooksStand == WebInit => WebIInv
<1> SUFFICES ASSUME WebInit PROVE WebIInv
  OBVIOUS
<1>1. SetupStands
  <2>1. years = {Year} /\ Year \in Period /\ Year.first \in Int /\ Year.last \in Int
    BY SeedAssumption DEF WebInit, Period
  <2>2. Year.first <= Year.last
    BY SeedAssumption, Zenon DEF ValidPeriod
  <2>3. ~(Year.last < Year.first)
    BY <2>1, <2>2
  <2>4. Sequence(years)
    BY <2>1, <2>3 DEF Sequence
  <2>5. \A r \in rates : r.rate \in Int
    BY DEF WebInit
  <2>6. ValidChart(chart) /\ IsFiniteSet(DOMAIN chart)
    BY SeedAssumption DEF WebInit
  <2> QED
    BY <2>1, <2>4, <2>5, <2>6 DEF SetupStands
<1>2. DOMAIN filed = {} /\ journals = {} /\ seq = 0 /\ posted = <<>> /\ settlements = {} /\ overpayments = {}
  BY DEF WebInit
<1>3. PapersStand
  BY <1>2 DEF PapersStand
<1>4. AList(posted) /\ DOMAIN posted = {}
  BY <1>2 DEF AList
<1>5. VouchersStand
  BY <1>2, <1>4 DEF VouchersStand
<1>6. SettledStand
  BY <1>2, FS_EmptySet DEF SettledStand, MoneySpentOnce
<1>7. visit = [v \in Visitors |-> Quiet] /\ answers = {}
  BY DEF WebInit
<1>8. KeyPostsOnce
  BY <1>4, <1>7 DEF KeyPostsOnce
<1>9. KeysStand
  BY <1>4, <1>7, <1>8 DEF KeysStand, Answered, Quiet
<1> QED
  BY <1>1, <1>3, <1>5, <1>6, <1>9 DEF WebIInv, BooksStand

\* Numbers that were drawn for nothing change nothing.
LEMMA BooksFrame ==
    ASSUME BooksStand, UNCHANGED <<filed, settlements, overpayments, posted, journals, setup>>,
           seq' \in Nat, seq <= seq'
    PROVE  BooksStand'
<1> USE DEF BooksStand
<1>1. SetupStands'
  BY DEF SetupStands, setup
<1>2. PapersStand'
  <2>1. seq \in Nat /\ DOMAIN filed \subseteq 1 .. seq /\ journals \subseteq 1 .. seq
    BY DEF PapersStand
  <2>2. 1 .. seq \subseteq 1 .. seq'
    BY <2>1
  <2> QED
    BY <2>1, <2>2 DEF PapersStand
<1>3. VouchersStand'
  BY DEF VouchersStand, VoucherStands, OfItsPaper, Dated, PeriodFor, LinesStand, setup
<1>4. SettledStand'
  BY DEF SettledStand, MoneySpentOnce, RowsOf
<1> QED
  BY <1>1, <1>2, <1>3, <1>4

\* Each step leaves the books and the keys as they should be.
LEMMA WebStepKeeps == WebIInv /\ [WebNext]_webVars => WebIInv'
<1> SUFFICES ASSUME WebIInv, [WebNext]_webVars PROVE WebIInv'
  OBVIOUS
<1> USE DEF WebIInv
<1>1. UNCHANGED <<paper, setup>> => BooksStand'
  <2>1. seq \in Nat
    BY DEF BooksStand, PapersStand
  <2> QED
    BY <2>1, BooksFrame DEF paper
<1>2. CASE UNCHANGED webVars
  <2>1. KeysStand'
    BY <1>2 DEF KeysStand, KeyPostsOnce, Answered, webVars, paper
  <2> QED
    BY <1>1, <1>2, <2>1 DEF webVars
<1>3. ASSUME NEW v \in Visitors, NEW r \in Requests, Arrive(v, r) PROVE WebIInv'
  <2>1. UNCHANGED <<paper, setup>>
    BY <1>3 DEF Arrive
  <2> QED
    BY <1>1, <1>3, <2>1, ArriveKeeps
<1>4. ASSUME NEW v \in Visitors, NEW r \in Requests, Repeat(v, r) PROVE WebIInv'
  BY <1>2, <1>4 DEF Repeat
<1>5. ASSUME NEW v \in Visitors, Write(v) PROVE WebIInv'
  BY <1>5, WriteKeeps
<1>6. ASSUME NEW v \in Visitors, Refused(v) PROVE WebIInv'
  <2>1. /\ visit[v].pc = "write" /\ visit' = [visit EXCEPT ![v] = Quiet]
        /\ seq' = IF DrewNumber(visit[v].request.form) THEN seq + 1 ELSE seq
        /\ UNCHANGED <<filed, settlements, overpayments, posted, journals, setup, answers, forgotten>>
    BY <1>6 DEF Refused
  <2>2. seq \in Nat
    BY DEF BooksStand, PapersStand
  <2>3. BooksStand'
    BY <2>1, <2>2, BooksFrame
  <2>4. KeysStand'
    BY <2>1, LeaveKeeps
  <2> QED
    BY <2>3, <2>4
<1>7. ASSUME NEW v \in Visitors, Render(v) PROVE WebIInv'
  <2>1. UNCHANGED <<paper, setup>>
    BY <1>7 DEF Render
  <2> QED
    BY <1>1, <1>7, <2>1, RenderKeeps
<1>8. ASSUME NEW v \in Visitors, RenderFails(v) PROVE WebIInv'
  <2>1. /\ visit' = [visit EXCEPT ![v] = Quiet] /\ forgotten' = forgotten \cup {visit[v].request.key}
        /\ UNCHANGED <<paper, setup, answers>>
    BY <1>8 DEF RenderFails
  <2>2. UNCHANGED <<posted, answers>>
    BY <2>1 DEF paper
  <2>3. KeysStand'
    BY <2>1, <2>2, LeaveKeeps
  <2> QED
    BY <1>1, <2>1, <2>3
<1>9. ASSUME NEW r \in answers, AnswerExpires(r) PROVE WebIInv'
  <2>1. UNCHANGED <<paper, setup>>
    BY <1>9 DEF AnswerExpires
  <2> QED
    BY <1>1, <1>9, <2>1, ExpiryKeeps
<1> QED
  BY <1>2, <1>3, <1>4, <1>5, <1>6, <1>7, <1>8, <1>9 DEF WebNext

\* So they are in every state.
LEMMA WebBooksStand == WebSpec => []WebIInv
<1>1. WebInit => WebIInv
  BY NewBooksStand
<1>2. WebIInv /\ [WebNext]_webVars => WebIInv'
  BY WebStepKeeps
<1> QED
  BY <1>1, <1>2, PTL DEF WebSpec

-----------------------------------------------------------------------------
(* The web pages.                                                          *)

\* The row of a number: a manual entry's, or a document's.
RowFor(id) == IF id \in journals THEN JournalRow(id) ELSE RowOf(id)

\* Whatever has a number has a row, at what its voucher moved.
LEMMA RowFacts ==
    ASSUME BooksStand, NEW id \in DOMAIN filed \cup journals
    PROVE  /\ id \in Nat /\ RowFor(id).id = id /\ RowFor(id).day \in Int
           /\ RowFor(id).kind \in {"invoice", "receipt", "journal"}
           /\ RowFor(id).total = SideOf(VoucherOf(id).lines, "debit")
<1> USE DEF BooksStand
<1>1. id \in Nat
  <2>1. seq \in Nat /\ id \in 1 .. seq
    BY DEF PapersStand
  <2> QED
    BY <2>1
<1>2. PICK i \in DOMAIN posted : posted[i].id = id
  BY DEF VouchersStand
<1>3. VoucherOf(id) = posted[i]
  BY <1>2 DEF VoucherOf, VouchersStand
<1>4. posted[i].day \in Int /\ OfItsPaper(posted[i])
  BY DEF VouchersStand, VoucherStands
<1>5. CASE id \in journals
  <2>1. /\ JournalRow(id).id = id /\ JournalRow(id).day = VoucherOf(id).day /\ JournalRow(id).kind = "journal"
        /\ JournalRow(id).total = SideOf(VoucherOf(id).lines, "debit")
    BY DEF JournalRow
  <2> QED
    BY <1>1, <1>3, <1>4, <1>5, <2>1 DEF RowFor
<1>6. CASE id \notin journals
  <2>1. id \in DOMAIN filed /\ filed[id] \in WebPaper
    BY <1>6 DEF PapersStand
  <2>2. /\ RowOf(id).id = id /\ RowOf(id).day = filed[id].day /\ RowOf(id).kind = filed[id].kind
        /\ RowOf(id).total = filed[id].total
    BY DEF RowOf
  <2>3. SideOf(posted[i].lines, "debit") = filed[id].total
    BY <1>2, <1>4, <2>1 DEF OfItsPaper
  <2> QED
    BY <1>1, <1>3, <1>6, <2>1, <2>2, <2>3 DEF RowFor, WebPaper
<1> QED
  BY <1>5, <1>6

\* The list of everything holds a row of each number.
LEMMA ListedRows ==
    ASSUME BooksStand
    PROVE  /\ Listed(Blank) = {RowFor(id) : id \in DOMAIN filed \cup journals}
           /\ IsFiniteSet(Listed(Blank)) /\ Cardinality(Listed(Blank)) = Len(posted)
<1> DEFINE all == {RowFor(id) : id \in DOMAIN filed \cup journals}
           at == [i \in DOMAIN posted |-> RowFor(posted[i].id)]
<1>1. Listed(Blank) = {RowOf(id) : id \in DOMAIN filed} \cup {JournalRow(id) : id \in journals}
  BY DEF Listed
<1>2. DOMAIN filed \cap journals = {}
  BY DEF BooksStand, PapersStand
<1>3. Listed(Blank) = all
  BY <1>1, <1>2 DEF RowFor
<1>4. /\ DOMAIN posted = 1 .. Len(posted) /\ Len(posted) \in Nat
      /\ {posted[i].id : i \in DOMAIN posted} = DOMAIN filed \cup journals
      /\ \A i, j \in DOMAIN posted : posted[i].id = posted[j].id => i = j
  BY ListGrows DEF BooksStand, VouchersStand
<1>5. \A i \in DOMAIN posted : at[i] \in all /\ at[i].id = posted[i].id
  BY <1>4, RowFacts
<1>6. \A r \in all : \E i \in DOMAIN posted : at[i] = r
  BY <1>4
<1>7. DOMAIN at = DOMAIN posted /\ at \in [DOMAIN posted -> all]
  BY <1>5
<1> HIDE DEF at, all
<1>8. at \in Bijection(DOMAIN posted, all)
  <2>1. \A i, j \in DOMAIN posted : at[i] = at[j] => i = j
    BY <1>4, <1>5
  <2> QED
    BY <1>6, <1>7, <2>1 DEF Bijection, Injection, Surjection, IsInjective
<1>9. IsFiniteSet(1 .. Len(posted)) /\ Cardinality(1 .. Len(posted)) = Len(posted)
  BY <1>4, FS_Interval
<1>10. IsFiniteSet(all) /\ Cardinality(all) = Len(posted)
  BY <1>4, <1>8, <1>9, FS_Bijection DEF ExistsBijection
<1> QED
  BY <1>3, <1>10 DEF all

\* No two rows are each newer than the other, and of two one is.
LEMMA RowsInOrder ==
    ASSUME BooksStand
    PROVE  /\ \A r \in Listed(Blank) : ~Newer(r, r)
           /\ \A r, q, p \in Listed(Blank) : Newer(r, q) /\ Newer(q, p) => Newer(r, p)
           /\ \A r, q \in Listed(Blank) : r # q => Newer(r, q) \/ Newer(q, r)
<1> DEFINE K == {"invoice", "receipt", "journal"}
<1>1. /\ \A k \in K : Rank[k] \in Int
      /\ \A k, h \in K : Rank[k] = Rank[h] => k = h
  BY DEF Rank
<1>2. \A r \in Listed(Blank) : r.id \in Nat /\ r.day \in Int /\ r.kind \in K
  <2> TAKE r \in Listed(Blank)
  <2>1. PICK id \in DOMAIN filed \cup journals : r = RowFor(id)
    BY ListedRows
  <2> QED
    BY <2>1, RowFacts
<1>3. \A r, q \in Listed(Blank) : r.id = q.id => r = q
  <2> TAKE r, q \in Listed(Blank)
  <2>1. PICK id \in DOMAIN filed \cup journals : r = RowFor(id)
    BY ListedRows
  <2>2. PICK other \in DOMAIN filed \cup journals : q = RowFor(other)
    BY ListedRows
  <2> QED
    BY <2>1, <2>2, RowFacts
<1> HIDE DEF K
<1>4. \A r, q \in Listed(Blank) :
        Newer(r, q) <=> \/ r.day > q.day
                        \/ r.day = q.day /\ Rank[r.kind] > Rank[q.kind]
                        \/ r.day = q.day /\ Rank[r.kind] = Rank[q.kind] /\ r.id > q.id
  BY <1>1, <1>2 DEF Newer
<1>5. \A r \in Listed(Blank) : Rank[r.kind] \in Int
  BY <1>1, <1>2
<1>6. \A r \in Listed(Blank) : ~Newer(r, r)
  BY <1>2, <1>4, <1>5
<1>7. \A r, q, p \in Listed(Blank) : Newer(r, q) /\ Newer(q, p) => Newer(r, p)
  BY <1>2, <1>4, <1>5
<1>8. \A r, q \in Listed(Blank) : r # q => Newer(r, q) \/ Newer(q, r)
  BY <1>2, <1>3, <1>4, <1>5
<1> QED
  BY <1>6, <1>7, <1>8

\* The list shows as many rows as there are vouchers, each somebody's.
LEMMA DocumentsListed ==
    ASSUME BooksStand
    PROVE  /\ Len(Documents(Blank)) = Len(posted)
           /\ \A n \in DOMAIN Documents(Blank) :
                \E id \in DOMAIN filed \cup journals : Documents(Blank)[n] = RowFor(id)
<1> DEFINE listed == Listed(Blank)
           order == {p \in listed \X listed : Newer(p[1], p[2])}
           list == Documents(Blank)
           Place(r) == Cardinality({q \in listed : Newer(q, r)})
<1>1. IsFiniteSet(listed) /\ Cardinality(listed) = Len(posted) /\ Len(posted) \in Nat
  BY ListedRows, ListGrows DEF BooksStand, VouchersStand
<1>2. list = [n \in 1 .. Cardinality(listed) |-> CHOOSE r \in listed : Place(r) = n - 1]
  BY DEF Documents
<1>3. \A q, r \in listed : <<q, r>> \in order <=> Newer(q, r)
  OBVIOUS
<1>4. \A r \in listed : {q \in listed : <<q, r>> \in order} = {q \in listed : Newer(q, r)}
  BY <1>3
<1>5. /\ \A r \in listed : ~Newer(r, r)
      /\ \A r, q, p \in listed : Newer(r, q) /\ Newer(q, p) => Newer(r, p)
      /\ \A r, q \in listed : r # q => Newer(r, q) \/ Newer(q, r)
  BY RowsInOrder
<1> HIDE DEF listed, order, list
<1>6. \A n \in 1 .. Cardinality(listed) : \E r \in listed : Cardinality({q \in listed : <<q, r>> \in order}) = n - 1
  <2>1. \A x \in listed : <<x, x>> \notin order
    BY <1>3, <1>5
  <2>2. \A x, y, z \in listed : <<x, y>> \in order /\ <<y, z>> \in order => <<x, z>> \in order
    BY <1>3, <1>5
  <2>3. \A x, y \in listed : x # y => <<x, y>> \in order \/ <<y, x>> \in order
    BY <1>3, <1>5
  <2> QED
    BY <1>1, <2>1, <2>2, <2>3, EveryPlaceTaken
<1>7. \A n \in 1 .. Cardinality(listed) : \E r \in listed : Place(r) = n - 1
  BY <1>4, <1>6
<1> HIDE DEF Place
<1>8. \A n \in 1 .. Len(posted) : list[n] \in listed
  BY <1>1, <1>2, <1>7
<1>9. DOMAIN list = 1 .. Len(posted) /\ list \in [1 .. Len(posted) -> listed]
  BY <1>1, <1>2, <1>8
<1>10. Len(list) = Len(posted)
  <2>1. list \in Seq(listed)
    BY <1>1, <1>9
  <2> QED
    BY <1>1, <1>9, <2>1
<1>11. listed = {RowFor(id) : id \in DOMAIN filed \cup journals}
  BY ListedRows DEF listed
<1> QED
  BY <1>8, <1>9, <1>10, <1>11 DEF list

\* A document's page offers a payment exactly when something is owed.
LEMMA PageFacts ==
    ASSUME BooksStand, NEW id \in DOMAIN filed \cup journals
    PROVE  LET page == DocumentPage(id) IN
           /\ page.row = RowFor(id)
           /\ page.row.allocated = Worth(page.allocations)
           /\ page.payable <=> page.row.outstanding > 0
           /\ page.payable => Payable(id) /\ PaymentForm(id).amount > 0
<1> USE DEF BooksStand
<1>1. CASE id \in journals
  <2>1. DocumentPage(id) = [row |-> JournalRow(id), payable |-> FALSE, allocations |-> {}]
    BY <1>1 DEF DocumentPage, JournalPage
  <2>2. JournalRow(id).allocated = 0 /\ JournalRow(id).outstanding = 0
    BY DEF JournalRow
  <2> QED
    BY <1>1, <2>1, <2>2, SpentFew DEF RowFor
<1>2. CASE id \notin journals
  <2>1. /\ id \in DOMAIN filed /\ filed[id] \in WebPaper /\ Rules!ValidDocument(filed[id])
    BY <1>2 DEF PapersStand
  <2>2. DocumentPage(id) = [row |-> RowOf(id), payable |-> filed[id].status \in {"open", "partially_paid"},
                             allocations |-> {r \in settlements : r.doc = id}]
    BY <1>2 DEF DocumentPage
  <2>3. /\ RowOf(id).allocated = filed[id].allocated
        /\ RowOf(id).outstanding = filed[id].total - filed[id].allocated
    BY DEF RowOf
  <2>4. filed[id].allocated = Worth({r \in settlements : r.doc = id})
    BY <2>1 DEF SettledStand, MoneySpentOnce, Worth
  <2>5. /\ filed[id].total \in Int /\ filed[id].allocated \in Int
        /\ filed[id].status \in {"open", "partially_paid", "paid"}
    BY <2>1 DEF WebPaper
  <2>6. filed[id].status \in {"open", "partially_paid"} <=> filed[id].total - filed[id].allocated > 0
    BY <2>1, <2>5 DEF Rules!ValidDocument, Rules!StatusFor
  <2>7. PaymentForm(id).amount = DocumentPage(id).row.outstanding
    BY DEF PaymentForm
  <2>8. filed[id].status \in {"open", "partially_paid"} => Payable(id)
    BY <2>1 DEF Payable
  <2> HIDE DEF BooksStand
  <2>9. /\ DocumentPage(id).row = RowFor(id)
        /\ DocumentPage(id).row.allocated = Worth(DocumentPage(id).allocations)
        /\ DocumentPage(id).row.outstanding = filed[id].total - filed[id].allocated
    BY <1>2, <2>2, <2>3, <2>4 DEF RowFor
  <2>10. DocumentPage(id).payable = (filed[id].status \in {"open", "partially_paid"})
    BY <2>2
  <2>11. DocumentPage(id).payable <=> DocumentPage(id).row.outstanding > 0
    BY <2>6, <2>9, <2>10
  <2>12. DocumentPage(id).payable => Payable(id) /\ PaymentForm(id).amount > 0
    BY <2>7, <2>8, <2>10, <2>11
  <2> QED
    BY <2>9, <2>11, <2>12
<1> QED
  BY <1>1, <1>2

-----------------------------------------------------------------------------
(* The dashboard: the ledger balances.                                     *)

\* What each line adds to its account.
Net(ls) == [i \in DOMAIN ls |-> Moved(ls, "debit")[i] - Moved(ls, "credit")[i]]

\* Finitely many lines, of amounts.
MovesIn(ls) ==
    /\ IsFiniteSet(DOMAIN ls)
    /\ \A i \in DOMAIN ls : ls[i].amount \in Int

\* What some lines add is their debits less their credits.
LEMMA NetOfSome ==
    ASSUME NEW ls, MovesIn(ls), NEW some \in SUBSET DOMAIN ls
    PROVE  /\ Over(Net(ls), some) \in Int /\ \A i \in DOMAIN ls : Net(ls)[i] \in Int
           /\ Over(Net(ls), some) = Over(Moved(ls, "debit"), some) - Over(Moved(ls, "credit"), some)
<1> DEFINE d == Moved(ls, "debit")
           c == Moved(ls, "credit")
           net == Net(ls)
<1>1. \A i \in DOMAIN ls : d[i] \in Int /\ c[i] \in Int /\ net[i] = d[i] - c[i]
  BY DEF MovesIn, Moved, Net
<1> HIDE DEF d, c, net
<1>2. \A i \in DOMAIN ls : net[i] \in Int /\ d[i] = net[i] + c[i]
  BY <1>1
<1>3. IsFiniteSet(some)
  BY FS_Subset DEF MovesIn
<1>4. Over(d, some) \in Int /\ Over(c, some) \in Int /\ Over(net, some) \in Int
  BY <1>1, <1>2, <1>3, OverInt
<1>5. Over(d, some) = Over(net, some) + Over(c, some)
  BY <1>1, <1>2, <1>3, OverPlus
<1>6. Over(net, some) = Over(d, some) - Over(c, some)
  BY <1>4, <1>5
<1> QED
  BY <1>2, <1>4, <1>6 DEF d, c, net

\* The lines of one account, on a side.
LEMMA OnlyOnOver ==
    ASSUME NEW ls, NEW account, NEW side
    PROVE  SideOf(OnlyOn(account, ls), side) = Over(Moved(ls, side), {i \in DOMAIN ls : ls[i].account = account})
<1> DEFINE some == {i \in DOMAIN ls : ls[i].account = account}
<1>1. OnlyOn(account, ls) = [i \in some |-> ls[i]]
  BY DEF OnlyOn, Restrict
<1>2. some \subseteq DOMAIN ls
  OBVIOUS
<1> HIDE DEF some
<1>3. SideOf([i \in some |-> ls[i]], side) = Over(Moved(ls, side), some)
  <2>1. [j \in DOMAIN [i \in some |-> ls[i]] |->
            IF [i \in some |-> ls[i]][j].side = side THEN [i \in some |-> ls[i]][j].amount ELSE 0]
          = [j \in some |-> Moved(ls, side)[j]]
    BY <1>2 DEF Moved
  <2> QED
    BY <2>1 DEF SideOf, Over
<1> QED
  BY <1>1, <1>3 DEF some

\* What a voucher adds to the accounts of the chart comes to nothing.
LEMMA VoucherNets ==
    ASSUME NEW ls, LinesStand(ls), IsFiniteSet(DOMAIN chart),
           NEW m, \A a \in DOMAIN chart :
                    m[a] = SideOf(OnlyOn(a, ls), "debit") - SideOf(OnlyOn(a, ls), "credit")
    PROVE  Over(m, DOMAIN chart) = 0 /\ \A a \in DOMAIN chart : m[a] \in Int
<1> DEFINE f == Net(ls)
           all == DOMAIN ls
           accounts == DOMAIN chart
           k == [i \in DOMAIN ls |-> ls[i].account]
<1>1. MovesIn(ls)
  BY DEF LinesStand, MovesIn
<1>2. IsFiniteSet(all) /\ \A i \in all : f[i] \in Int /\ k[i] \in accounts /\ k[i] = ls[i].account
  BY <1>1, NetOfSome DEF LinesStand, MovesIn
<1>3. ASSUME NEW a \in accounts
      PROVE  m[a] = Over(f, {i \in all : k[i] = a}) /\ m[a] \in Int
  <2> DEFINE some == {i \in DOMAIN ls : ls[i].account = a}
  <2>1. some \in SUBSET DOMAIN ls /\ {i \in all : k[i] = a} = some
    BY <1>2
  <2>2. /\ SideOf(OnlyOn(a, ls), "debit") = Over(Moved(ls, "debit"), some)
        /\ SideOf(OnlyOn(a, ls), "credit") = Over(Moved(ls, "credit"), some)
    BY OnlyOnOver
  <2>3. m[a] = SideOf(OnlyOn(a, ls), "debit") - SideOf(OnlyOn(a, ls), "credit")
    OBVIOUS
  <2> HIDE DEF some, f, all, k
  <2>4. Over(f, some) = Over(Moved(ls, "debit"), some) - Over(Moved(ls, "credit"), some) /\ Over(f, some) \in Int
    BY <1>1, <2>1, NetOfSome DEF f
  <2> QED
    BY <2>1, <2>2, <2>3, <2>4
<1>4. Over(f, all) = 0
  <2>1. Over(f, all) = Over(Moved(ls, "debit"), all) - Over(Moved(ls, "credit"), all)
    BY <1>1, NetOfSome
  <2>2. /\ SideOf(ls, "debit") = Over(Moved(ls, "debit"), all) /\ SideOf(ls, "debit") \in Int
        /\ SideOf(ls, "credit") = Over(Moved(ls, "credit"), all) /\ SideOf(ls, "credit") \in Int
    BY <1>1, SideIsInt DEF MovesIn
  <2>3. SideOf(ls, "debit") = SideOf(ls, "credit")
    BY DEF LinesStand, Agrees
  <2> QED
    BY <2>1, <2>2, <2>3
<1> HIDE DEF f, all, k, accounts
<1>5. IsFiniteSet(accounts)
  BY DEF accounts
<1>6. Over(m, accounts) = Over(f, all)
  BY <1>2, <1>3, <1>5, OverKinds
<1> QED
  BY <1>3, <1>4, <1>6 DEF accounts

\* So the trial balance balances.
LEMMA LedgerBalances ==
    ASSUME BooksStand
    PROVE  Dashboard.balanced
<1> DEFINE A == DOMAIN chart
           lines(i) == posted[i].lines
           net(i, a) == SideOf(OnlyOn(a, lines(i)), "debit") - SideOf(OnlyOn(a, lines(i)), "credit")
           m == [i \in Reported |-> [a \in A |-> net(i, a)]]
           col(a) == [i \in Reported |-> m[i][a]]
<1>1. IsFiniteSet(A)
  BY DEF BooksStand, SetupStands
<1>2. IsFiniteSet(Reported) /\ Reported \subseteq DOMAIN posted
  <2>1. Reported \subseteq DOMAIN posted
    BY DEF Reported
  <2>2. DOMAIN posted = 1 .. Len(posted) /\ Len(posted) \in Nat
    BY ListGrows DEF BooksStand, VouchersStand
  <2>3. IsFiniteSet(DOMAIN posted)
    BY <2>2, FS_Interval
  <2> QED
    BY <2>1, <2>3, FS_Subset
<1>3. \A i \in Reported : Over(m[i], A) = 0 /\ \A a \in A : m[i][a] \in Int
  <2> TAKE i \in Reported
  <2>1. LinesStand(posted[i].lines)
    BY <1>2 DEF BooksStand, VouchersStand, VoucherStands
  <2> DEFINE row == m[i]
  <2>2. \A a \in DOMAIN chart :
            row[a] = SideOf(OnlyOn(a, posted[i].lines), "debit") - SideOf(OnlyOn(a, posted[i].lines), "credit")
    OBVIOUS
  <2> HIDE DEF row
  <2>3. Over(row, DOMAIN chart) = 0 /\ \A a \in DOMAIN chart : row[a] \in Int
    BY <1>1, <2>1, <2>2, VoucherNets
  <2> QED
    BY <2>3 DEF row
<1>4. \A a \in A : Closing(a) = Over(col(a), Reported)
  <2> TAKE a \in A
  <2>1. col(a) = [i \in Reported |-> net(i, a)]
    OBVIOUS
  <2>2. Closing(a) = Total([i \in Reported |-> net(i, a)])
    BY DEF Closing
  <2>3. Over(col(a), Reported) = Total([i \in Reported |-> col(a)[i]])
    BY DEF Over
  <2>4. [i \in Reported |-> col(a)[i]] = [i \in Reported |-> net(i, a)]
    OBVIOUS
  <2> QED
    BY <2>2, <2>3, <2>4
<1> DEFINE by == [a \in A |-> Over([i \in Reported |-> m[i][a]], Reported)]
<1>5. Over(by, A) = 0
  <2> HIDE DEF m, A
  <2> QED
    BY <1>1, <1>2, <1>3, OverNothing
<1>6. \A a \in A : by[a] = Closing(a)
  BY <1>4
<1> HIDE DEF by
<1>7. Over(by, A) = Total([a \in A |-> by[a]])
  BY DEF Over
<1>8. [a \in A |-> by[a]] = [a \in DOMAIN chart |-> Closing(a)]
  BY <1>6
<1>9. Total([a \in DOMAIN chart |-> Closing(a)]) = 0
  BY <1>5, <1>7, <1>8
<1> QED
  BY <1>9 DEF Dashboard

\* A ledger that balances is not on the work list.
LEMMA NothingBroken ==
    ASSUME Dashboard.balanced
    PROVE  \A row \in Attention : row.what # "the ledger does not balance"
<1> DEFINE owed == "invoices outstanding"
           ended == "periods ended but not locked"
           broken == "the ledger does not balance"
<1>1. owed # broken /\ ended # broken
  BY Zenon
<1> HIDE DEF owed, ended, broken
<1> DEFINE work == {[what |-> owed, count |-> Cardinality(Dashboard.open)],
                    [what |-> ended, count |-> Cardinality(Ended)],
                    [what |-> broken, count |-> IF Dashboard.balanced THEN 0 ELSE 1]}
<1>2. \A row \in work : row.what = broken => row.count = 0
  <2> DEFINE one == Cardinality(Dashboard.open)
             two == Cardinality(Ended)
             three == IF Dashboard.balanced THEN 0 ELSE 1
  <2>1. three = 0
    OBVIOUS
  <2> HIDE DEF one, two, three
  <2>2. \A row \in {[what |-> owed, count |-> one], [what |-> ended, count |-> two], [what |-> broken, count |-> three]} :
            row.what = broken => row.count = 0
    BY <1>1, <2>1
  <2> QED
    BY <2>2 DEF one, two, three
<1>3. Attention = {row \in work : row.count > 0}
  BY Zenon DEF Attention, owed, ended, broken
<1> HIDE DEF work
<1>4. \A row \in Attention : row.what # broken
  <2>1. ~(0 > 0)
    OBVIOUS
  <2> QED
    BY <1>2, <1>3, <2>1
<1> QED
  BY <1>4 DEF broken

\* Books that stand are told by their pages.
LEMMA PagesTellAll ==
    ASSUME BooksStand
    PROVE  PagesTell
<1> DEFINE list == Documents(Blank)
<1>1. Len(list) = Len(posted)
  BY DocumentsListed
<1>2. ASSUME NEW n \in DOMAIN list
      PROVE  LET row == list[n]
                 page == DocumentPage(row.id)
             IN
             /\ row.total = SideOf(VoucherOf(row.id).lines, "debit")
             /\ page.row.allocated = Total([r \in page.allocations |-> r.amount])
             /\ page.payable <=> page.row.outstanding > 0
             /\ page.payable => Payable(row.id) /\ PaymentForm(row.id).amount > 0
  <2>1. PICK id \in DOMAIN filed \cup journals : list[n] = RowFor(id)
    BY DocumentsListed
  <2>2. list[n].id = id /\ list[n].total = SideOf(VoucherOf(id).lines, "debit")
    BY <2>1, RowFacts
  <2>3. LET page == DocumentPage(id) IN
        /\ page.row.allocated = Worth(page.allocations)
        /\ page.payable <=> page.row.outstanding > 0
        /\ page.payable => Payable(id) /\ PaymentForm(id).amount > 0
    BY PageFacts
  <2> HIDE DEF list
  <2> QED
    BY <2>2, <2>3 DEF Worth
<1>3. \A code \in DOMAIN chart :
        IF Topmost(chart, code) THEN Depth(code) = 0
        ELSE Depth(code) = IF Depth(chart[code].parent) < Deepest THEN Depth(chart[code].parent) + 1 ELSE Deepest
  BY DepthUnder
<1>4. \A row \in Attention : row.what # "the ledger does not balance"
  BY LedgerBalances, NothingBroken, Zenon
<1> QED
  BY <1>1, <1>2, <1>3, <1>4, Zenon DEF PagesTell

\* BookExplained, whatever the browsers do: forms submitted twice, raced, refused
\* half way, answered with an error after they were written, or sent again after
\* their answer expired leave vouchers, documents and settlements that explain one
\* another, a chart that is a forest, a calendar without a gap, and pages that
\* tell all of it.
THEOREM BooksExplained == WebSpec => []BookExplained
<1>1. WebIInv => BookExplained
  <2> SUFFICES ASSUME WebIInv PROVE BookExplained
    OBVIOUS
  <2>1. BooksStand /\ KeysStand
    BY DEF WebIInv
  <2>2. VouchersHavePapers
    BY <2>1 DEF BooksStand, VouchersStand, VoucherStands, LinesStand, OfItsPaper, VouchersHavePapers
  <2>3. MoneySpentOnce /\ KeyPostsOnce /\ ValidChart(chart) /\ Sequence(years)
    BY <2>1 DEF BooksStand, SettledStand, SetupStands, KeysStand
  <2>4. PagesTell
    BY <2>1, PagesTellAll
  <2> QED
    BY <2>2, <2>3, <2>4 DEF BookExplained
<1> QED
  BY <1>1, WebBooksStand, PTL
===============================================================================
