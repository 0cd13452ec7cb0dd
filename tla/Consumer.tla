------------------------------ MODULE Consumer ------------------------------
(* What owners are shown and may take away (internal/consumer): disclosures,  *)
(* the acceptances that name one, and the exports of a tenant's history.  An  *)
(* export is collected in four queries and stored in a transaction of its     *)
(* own; other modules insert into the tables it reads meanwhile.              *)
EXTENDS Requests, Sequences

CONSTANTS None, Tenant, Property, Resource,
          MaxRows        \* bound: rows of each table

VARIABLES disclosures,   \* consumer_disclosures: [tenant, resource, recurrence, amount]
          acceptances,   \* consumer_acceptances: [tenant, disclosure, resource]
          history,       \* rows of the tables exported, in the order of their commits
          exports        \* consumer_history_exports, and what was committed at their begin

tables == <<disclosures, acceptances, history, exports>>
vars == <<tables, pc, requests>>

Source == {"property_package_versions", "invoices", "charges", "tickets"}
Row == [table : Source, tenant : Tenant, property : Property, ordered : BOOLEAN]

Init ==
  /\ disclosures = <<>>
  /\ acceptances = <<>>
  /\ history = <<>>
  /\ exports = <<>>
  /\ NoRequests

Room(rows) == Len(rows) < MaxRows

----------------------------------------------------------------------------
(* Disclosures and acceptances                                               *)

Amount == {None, 0, 1}

(* A recurring charge has its amount disclosed, a single one has none.        *)
ValidateDisclosureParams(recurrence, amount) ==
  IF recurrence = "one_time" THEN amount \in {None, 0} ELSE amount # None

InsertDisclosure(d) == Room(disclosures) /\ disclosures' = Append(disclosures, d)

RecordDisclosure(tenant, resource, recurrence, amount) ==
  /\ ValidateDisclosureParams(recurrence, amount)
  /\ InsertDisclosure([tenant |-> tenant, resource |-> resource, recurrence |-> recurrence,
                       amount |-> amount, visible |-> TRUE])
  /\ UNCHANGED <<acceptances, history, exports>>
handleRecordDisclosure(tenant, resource, recurrence, amount) ==
  Served /\ RecordDisclosure(tenant, resource, recurrence, amount)

GetDisclosure(tenant, d) == disclosures[d].tenant = tenant

DisclosureIsAcceptable(d) ==
  /\ disclosures[d].visible
  /\ disclosures[d].recurrence # "one_time" => disclosures[d].amount # None

InsertAcceptance(a) == Room(acceptances) /\ acceptances' = Append(acceptances, a)

handleAccept(c, tenant, d, resource) ==
  /\ GetDisclosure(tenant, d)
  /\ DisclosureIsAcceptable(d)
  /\ disclosures[d].resource = resource
  /\ Begin(c, [op |-> "accept", row |-> [tenant |-> tenant, disclosure |-> d, resource |-> resource]])
  /\ UNCHANGED tables

Accept(c) ==
  /\ Under(c, "accept")
  /\ InsertAcceptance(pc[c].row)
  /\ Done(c)
  /\ UNCHANGED <<disclosures, history, exports>>

----------------------------------------------------------------------------
(* Exports of a tenant's history, of one property or of all                  *)

(* Packages, invoices, charges and tickets are inserted by other modules.     *)
Recorded(row) ==
  /\ row.ordered => row.table = "charges"
  /\ Room(history)
  /\ history' = Append(history, row)
  /\ UNCHANGED <<disclosures, acceptances, exports, pc, requests>>

(* A fault: the rows of the property, whosever they are.                      *)
RowsOfProperty(tenant, property, table) ==
  {r \in DOMAIN history : /\ history[r].table = table
                          /\ property # None => history[r].property = property}

Rows(tenant, property, table) ==
  {r \in DOMAIN history : /\ history[r].table = table
                          /\ history[r].tenant = tenant
                          /\ property # None => history[r].property = property}

Collect(c, from, to, rows) ==
  /\ Under(c, from)
  /\ Goes(c, [pc[c] EXCEPT !.op = to, !.rows = @ \union rows])
  /\ UNCHANGED tables

handleCreateHistoryExport(c, tenant, property) ==
  /\ Begin(c, [op |-> "packages", tenant |-> tenant, property |-> property, rows |-> {},
               begun |-> Len(history)])
  /\ UNCHANGED tables

CollectPackages(c) == Collect(c, "packages", "invoices", Rows(pc[c].tenant, pc[c].property, "property_package_versions"))
CollectInvoices(c) == Collect(c, "invoices", "orders", Rows(pc[c].tenant, pc[c].property, "invoices"))
CollectOrders(c)   == Collect(c, "orders", "services", {r \in Rows(pc[c].tenant, pc[c].property, "charges") : history[r].ordered})
CollectServices(c) == Collect(c, "services", "export", Rows(pc[c].tenant, pc[c].property, "tickets"))

InsertHistoryExport(e) == Room(exports) /\ exports' = Append(exports, e)

CreateHistoryExport(c) ==
  LET f == pc[c] IN
  /\ Under(c, "export")
  /\ InsertHistoryExport([tenant |-> f.tenant, property |-> f.property, rows |-> f.rows, begun |-> f.begun])
  /\ Done(c)
  /\ UNCHANGED <<disclosures, acceptances, history>>

----------------------------------------------------------------------------

Abandon(c) == Dropped(c) /\ UNCHANGED tables

Next ==
  \/ \E tenant \in Tenant, resource \in Resource, recurrence \in {"one_time", "monthly"}, amount \in Amount :
       handleRecordDisclosure(tenant, resource, recurrence, amount)
  \/ \E row \in Row : Recorded(row)
  \/ \E c \in Client, tenant \in Tenant :
       \/ \E d \in DOMAIN disclosures, resource \in Resource : handleAccept(c, tenant, d, resource)
       \/ \E property \in Property \union {None} : handleCreateHistoryExport(c, tenant, property)
  \/ \E c \in Client :
       \/ Accept(c) \/ CollectPackages(c) \/ CollectInvoices(c) \/ CollectOrders(c) \/ CollectServices(c)
       \/ CreateHistoryExport(c) \/ Abandon(c)

Spec == Init /\ [][Next]_vars

----------------------------------------------------------------------------

Exported(e, r) ==
  /\ history[r].tenant = e.tenant
  /\ e.property # None => history[r].property = e.property
  /\ history[r].table = "charges" => history[r].ordered

(* An export has no row of another tenant or property (CON-006), and none is  *)
(* missing that was there when it was asked for, whatever is inserted between *)
(* its queries; and what was accepted had been disclosed to the same tenant,  *)
(* for the same resource, with the amount of a recurring charge (CON-001).    *)
OwnersSeeTheirs ==
  /\ \A x \in DOMAIN exports :
       LET e == exports[x] IN
       /\ \A r \in e.rows : Exported(e, r)
       /\ \A r \in 1..e.begun : Exported(e, r) => r \in e.rows
  /\ \A a \in DOMAIN acceptances :
       LET d == disclosures[acceptances[a].disclosure] IN
       /\ d.tenant = acceptances[a].tenant
       /\ d.resource = acceptances[a].resource
       /\ d.recurrence # "one_time" => d.amount # None

(* "A tenant-scoped snapshot": does not hold, a row may be missing that was   *)
(* committed before another which is there.                                   *)
ExportIsSnapshot ==
  \A x \in DOMAIN exports :
    LET e == exports[x] IN
    \A r, s \in DOMAIN history : s \in e.rows /\ r < s /\ Exported(e, r) => r \in e.rows
=============================================================================
