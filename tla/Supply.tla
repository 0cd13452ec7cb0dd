-------------------------------- MODULE Supply --------------------------------
(* The components that keep goods, works and money: the repairs of one        *)
(* property, a vehicle, the catalog with the package of a property, the       *)
(* subledger with the approvals of finance, and the reports made of what      *)
(* others keep.  They share no table and no request, so a behaviour is one of *)
(* one of them.                                                               *)
EXTENDS Integers, Sequences

CONSTANTS None, Client, Person,
          Actor, Begun,                                   \* of Maintenance
          Sku, Stocked, MaxItems, MaxVersions,            \* of Catalog
          Key, Amount, RequestType,                       \* of Billing
          Kept, Written, Kind, Edited, MaxEdits, MaxObservations, \* of Reporting
          MaxRows,       \* bound: rows of each table
          MaxRequests    \* bound: requests served to each component

VARIABLES part,          \* the component whose behaviour this is
          pc, requests,  \* as in Requests, whichever it is
          request, estimates, approvals, orders, warranties,
          asset, custody, now, incidents, safetyItems, inspections, samples, raced, answer,
          items, evidence, templates, versions, activatedBeside,
          documents, entries, asked, verifications, decisions, exceptions, exports,
          source, snapshots, observations, asOf, verified

Repair == INSTANCE Maintenance WITH MaxRequests <- MaxRequests["repair"]
Vehicle == INSTANCE Fleet WITH Worker <- Person, items <- safetyItems,
                               MaxRequests <- MaxRequests["vehicle"]
Package == INSTANCE Catalog WITH raced <- activatedBeside, MaxRequests <- MaxRequests["package"]
Finance == INSTANCE Billing WITH approvals <- decisions, MaxRequests <- MaxRequests["finance"]
Reports == INSTANCE Reporting WITH MaxRequests <- MaxRequests["reports"]

(* Rows of maintenance_requests, fleet_assets and bank_verifications; nobody  *)
(* and no row of a table is NULL.                                             *)
Request == [status : {"reported", "triaged", "estimate_approved", "estimate_rejected", "in_progress", "completed"},
            risk : {"standard", "high"}, estimate : Nat]
Asset == [custodian : Person \union {None}, status : {"available", "assigned", "frozen"}]
Verification == [status : {"pending", "verified", "expired"}, verified : BOOLEAN, due : BOOLEAN]

ASSUME NoneIsNull == None \notin Actor \union Request \union Asset \union Verification

(* A repair that was interrupted has the rows the pipeline gave it.           *)
Estimate == [by : Actor, status : {"draft", "pending_approval", "approved", "rejected"}]
Decision == [estimate : Nat, by : Actor, decision : {"approved", "rejected"}]
Order == [estimate : Nat, vendor : Actor, risk : {"standard", "high"}, verifiedBy : Actor \union {None},
          status : {"assigned", "in_progress", "completed", "verified", "closed"}]

ASSUME BegunIsApproved ==
  \A b \in Begun :
    /\ b.request \in Request \union {None}
    /\ b.estimates \in Seq(Estimate) /\ b.approvals \in Seq(Decision) /\ b.orders \in Seq(Order)
    /\ b.request = None => b.estimates = <<>> /\ b.orders = <<>>
    /\ b.request # None => b.request.estimate \in DOMAIN b.estimates \union {0}
    /\ \A a \in DOMAIN b.approvals : b.approvals[a].estimate \in DOMAIN b.estimates
    /\ \A o \in DOMAIN b.orders : b.orders[o].estimate \in DOMAIN b.estimates
    /\ Repair!RestsOnApproval(b.estimates, b.approvals, b.orders)

(* The versions a tenant has already were activated one after another.        *)
Version == [number : Nat, status : {"draft", "active", "superseded", "rejected"}, lines : Seq(Nat)]

ASSUME StockedIsReplaced ==
  \A s \in Stocked :
    /\ s.versions \in Seq(Version)
    /\ \A v, w \in DOMAIN s.versions : s.versions[v].status = "active" /\ s.versions[w].status = "active" => v = w
    /\ \A v \in DOMAIN s.versions :
         s.versions[v].status = "superseded" => \E w \in DOMAIN s.versions : s.versions[w].status = "active"

(* Only projections that there are are asked for.                             *)
ASSUME KindIsAsked == Kind \subseteq DOMAIN Reports!Asked

repair  == <<request, estimates, approvals, orders, warranties>>
vehicle == <<asset, custody, now, incidents, safetyItems, inspections, samples, raced, answer>>
package == <<items, evidence, templates, versions, activatedBeside>>
finance == <<documents, entries, asked, verifications, decisions, exceptions, exports>>
reports == <<source, snapshots, observations, asOf, verified>>
vars == <<part, pc, requests, repair, vehicle, package, finance, reports>>

Init ==
  /\ part \in {"repair", "vehicle", "package", "finance", "reports"}
  /\ Repair!Init
  /\ Vehicle!Init
  /\ Package!Init
  /\ Finance!Init
  /\ Reports!Init
  /\ part # "repair" => request = None
  /\ part # "package" => items = <<>>
  /\ part # "reports" => \A k \in DOMAIN snapshots : snapshots[k] = None

RepairStep == part = "repair" /\ Repair!Next /\ UNCHANGED <<part, vehicle, package, finance, reports>>
VehicleStep == part = "vehicle" /\ Vehicle!Next /\ UNCHANGED <<part, repair, package, finance, reports>>
PackageStep == part = "package" /\ Package!Next /\ UNCHANGED <<part, repair, vehicle, finance, reports>>
FinanceStep == part = "finance" /\ Finance!Next /\ UNCHANGED <<part, repair, vehicle, package, reports>>
ReportsStep == part = "reports" /\ Reports!Next /\ UNCHANGED <<part, repair, vehicle, package, finance>>

Next == RepairStep \/ VehicleStep \/ PackageStep \/ FinanceStep \/ ReportsStep

Spec == Init /\ [][Next]_vars

----------------------------------------------------------------------------

(* Work is started on an approved estimate, and decided once.                 *)
WorkIsApproved == part = "repair" => Repair!WorkIsApproved

(* An open incident freezes the vehicle unless it was recorded while a        *)
(* handover or a review was under way (Fleet!FrozenUntilReviewed is false),   *)
(* and the custody event committed last tells who has it.                     *)
CustodyIsTrue == part = "vehicle" => Vehicle!CustodyIsTrue

(* An activated version replaces the one that was active.                     *)
PackageIsReplaced == part = "package" => Package!PackageIsReplaced

(* Every charge, invoice and credit has its own entry, and one of each key.   *)
LedgerMatches == part = "finance" => Finance!LedgerMatches

(* Nobody decides a request of his own, but where a financial approval could  *)
(* not read it, or one that was to be verified.                               *)
ApprovedUnderControls == part = "finance" => Finance!ApprovedUnderControls

(* A snapshot tells what its source held, and its verification the truth, but *)
(* for reports that show their period otherwise than it is kept.              *)
SnapshotsVerify == part = "reports" => Reports!SnapshotsVerify
=============================================================================
