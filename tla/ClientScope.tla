------------------------------ MODULE ClientScope ------------------------------
(***************************************************************************)
(* internal/client: the practice's registry of clients, the chart a new    *)
(* client is given, and the scope a request is served in.                  *)
(*                                                                         *)
(* Create holds the registry's lock while the books are set up, and what   *)
(* sets them up may fail before or after it has done so.  A request is     *)
(* admitted in one reading of the registry and touches the books later.    *)
(* How long a name or a tax code may be is left out.                       *)
(***************************************************************************)
EXTENDS ChartOfAccounts

CONSTANTS
    Forms,          \* clients as they are entered
    Calls,          \* what the requests ask for
    Operators,      \* requests served at once
    DefaultChart    \* the chart a new client is given

\* A tax code is digits, and the way they were written.
TaxID == [code : STRING, written : {"bare", "spaced"}]
Client == [id : STRING, name : STRING, tax : TaxID, active : BOOLEAN]

\* A client no authentication named is "", and so is a row that names no owner.
Call == [client : STRING, op : {"put", "delete", "read"}, id : STRING, owner : STRING, number : STRING]

ASSUME FormsAssumption == Forms \subseteq Client
ASSUME CallsAssumption == Calls \subseteq Call

VARIABLES
    registered,     \* the registry: clients by id
    registering,    \* the client that holds the registry's lock
    charts,         \* the chart store: charts by client
    rows,           \* the document book, each row with whose request filed it
    serving         \* the request each operator is served

clientVars == <<registered, registering, charts, rows, serving>>

Nobody == [pc |-> "none"]

\* A map with a value for one key more, or another value for one it has.
Holding(map, key, value) ==
    [k \in DOMAIN map \cup {key} |-> IF k = key THEN value ELSE map[k]]

ClientInit ==
    /\ registered = <<>> /\ charts = <<>> /\ rows = {}
    /\ registering = Nobody
    /\ serving = [o \in Operators |-> Nobody]

-----------------------------------------------------------------------------
(* The registry. *)

\* Mutant: a client keeps what was typed.
AsEntered(c) == c

\* One form of a tax code, on the way into every write.
Normalized(c) == [c EXCEPT !.tax.written = "bare"]

ValidClient(c) == c.id # "" /\ c.name # ""

\* Another client that has this tax code; none at all is held by nobody.
Taken(c) ==
    /\ c.tax.code # ""
    /\ \E id \in DOMAIN registered \ {c.id} : registered[id].tax = c.tax

Known(id) == id \in DOMAIN registered

Unlocked == registering = Nobody

StartCreate(form) ==
    LET c == Normalized(form) IN
    /\ Unlocked
    /\ ValidClient(c) /\ ~Known(c.id) /\ ~Taken(c)
    /\ registering' = [pc |-> "provision", client |-> c]
    /\ UNCHANGED <<registered, charts, rows, serving>>

\* SaveChart replaces a client's chart by one that holds together.
SaveChart(id, chart) ==
    /\ ValidChart(chart)
    /\ charts' = Holding(charts, id, chart)

Provision ==
    /\ registering.pc = "provision"
    /\ DOMAIN DefaultChart # {}
    /\ SaveChart(registering.client.id, DefaultChart)
    /\ registering' = [registering EXCEPT !.pc = "register"]
    /\ UNCHANGED <<registered, rows, serving>>

\* The books could not be set up, or not wholly: the client is not registered.
ProvisionFails ==
    /\ ~Unlocked
    /\ registering' = Nobody
    /\ UNCHANGED <<registered, charts, rows, serving>>

Register ==
    /\ registering.pc = "register"
    /\ registered' = Holding(registered, registering.client.id, registering.client)
    /\ registering' = Nobody
    /\ UNCHANGED <<charts, rows, serving>>

\* An update does not open a client, nor close it.
Update(form) ==
    LET c == Normalized(form) IN
    /\ Unlocked
    /\ ValidClient(c) /\ Known(c.id) /\ ~Taken(c)
    /\ registered' = [registered EXCEPT ![c.id] = [c EXCEPT !.active = registered[c.id].active]]
    /\ UNCHANGED <<registering, charts, rows, serving>>

SetActive(id, active) ==
    /\ Unlocked
    /\ Known(id)
    /\ registered' = [registered EXCEPT ![id].active = active]
    /\ UNCHANGED <<registering, charts, rows, serving>>

-----------------------------------------------------------------------------
(* The requests. *)

\* The middleware: a client is named, known and served.  It is not asked again.
Admit(o, call) ==
    /\ serving[o] = Nobody
    /\ Unlocked
    /\ call.client # "" /\ Known(call.client) /\ registered[call.client].active
    /\ serving' = [serving EXCEPT ![o] = [pc |-> "handle", scope |-> call.client, call |-> call]]
    /\ UNCHANGED <<registered, registering, charts, rows>>

Answer(o) == serving' = [serving EXCEPT ![o] = Nobody]

\* A row that states no owner is the scope's; another's is refused.
Owns(scope, owner) == owner \in {"", scope}

RowsIn(scope) == {r \in rows : r.client = scope}

\* What is put is filed under the scope, whatever the row says.
Put(o) ==
    LET scope == serving[o].scope
        call  == serving[o].call
        mayPut == /\ call.id # "" /\ call.number # ""
                  /\ Owns(scope, call.owner)
                  /\ \A r \in RowsIn(scope) : r.id # call.id
    IN  /\ serving[o] # Nobody /\ call.op = "put"
        /\ rows' = IF mayPut
                   THEN rows \cup {[client |-> scope, id |-> call.id, number |-> call.number,
                                    asked |-> call.client, owner |-> call.owner]}
                   ELSE rows
        /\ Answer(o)
        /\ UNCHANGED <<registered, registering, charts>>

Delete(o) ==
    /\ serving[o] # Nobody /\ serving[o].call.op = "delete"
    /\ rows' = rows \ {r \in RowsIn(serving[o].scope) : r.id = serving[o].call.id}
    /\ Answer(o)
    /\ UNCHANGED <<registered, registering, charts>>

\* Get, List and Chart change nothing.
Read(o) ==
    /\ serving[o] # Nobody /\ serving[o].call.op = "read"
    /\ Answer(o)
    /\ UNCHANGED <<registered, registering, charts, rows>>

ClientNext ==
    \/ \E form \in Forms : StartCreate(form) \/ Update(form)
    \/ Provision \/ ProvisionFails \/ Register
    \/ \E id \in DOMAIN registered : \E active \in BOOLEAN : SetActive(id, active)
    \/ \E o \in Operators : Put(o) \/ Delete(o) \/ Read(o) \/ \E call \in Calls : Admit(o, call)

ClientSpec == ClientInit /\ [][ClientNext]_clientVars

-----------------------------------------------------------------------------
(* Properties. *)

\* registry.go, scope.go: a company is registered once, however its tax code
\* was written and whatever was updated since, and never without the chart its
\* books need; and a row is of a registered client, filed by a request for that
\* client that did not name another, whoever was closed or renamed meanwhile.
OneCompanyOneLedger ==
    /\ \A id, other \in DOMAIN registered :
        id # other /\ registered[id].tax.code # "" => registered[id].tax.code # registered[other].tax.code
    /\ \A id \in DOMAIN registered : id \in DOMAIN charts /\ ValidChart(charts[id])
    /\ \A r \in rows : Known(r.client) /\ r.asked = r.client /\ r.owner \in {"", r.client}
    /\ \A r, q \in rows : r.client = q.client /\ r.id = q.id => r = q
===============================================================================
