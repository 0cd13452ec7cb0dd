----------------------------- MODULE Maintenance -----------------------------
(* One maintenance request (internal/maintenance), its estimates with the     *)
(* approvals that decide them, the work orders of vendors and the warranties  *)
(* recorded for them.  A handler reads the row it is asked about, refuses by  *)
(* what it read, and in its transaction moves a row under a condition on its  *)
(* status; the status of the request itself is set unconditionally.           *)
EXTENDS Requests, Sequences

CONSTANTS None, Actor,
          Begun,         \* rows an interrupted pipeline may have
          MaxRows        \* bound: rows of each of the other tables

VARIABLES request,       \* the row of maintenance_requests, None before it is reported
          estimates,     \* maintenance_estimates
          approvals,     \* maintenance_approvals
          orders,        \* vendor_work_orders
          warranties     \* warranty_records, by the work order

tables == <<request, estimates, approvals, orders, warranties>>
vars == <<tables, pc, requests>>

Init ==
  /\ \E b \in Begun :
       /\ request = b.request
       /\ estimates = b.estimates
       /\ approvals = b.approvals
       /\ orders = b.orders
  /\ warranties = <<>>
  /\ NoRequests

----------------------------------------------------------------------------
(* The statements of the store                                               *)

InsertRequest(risk) == request' = [status |-> "reported", risk |-> risk, estimate |-> 0]

TriageStatement(risk) ==
  /\ request.status = "reported"
  /\ request' = [request EXCEPT !.status = "triaged", !.risk = risk]

DecidedStatus == [approved |-> "estimate_approved", rejected |-> "estimate_rejected"]

UpdateRequestStatus(status, estimate) ==
  request' = [request EXCEPT !.status = status, !.estimate = IF estimate = 0 THEN @ ELSE estimate]

SetRequestEstimate(estimate) == request' = [request EXCEPT !.estimate = estimate]

InsertEstimate(by) ==
  /\ Len(estimates) < MaxRows
  /\ estimates' = Append(estimates, [by |-> by, status |-> "draft"])

MoveEstimate(e, from, to) ==
  /\ estimates[e].status = from
  /\ estimates' = [estimates EXCEPT ![e].status = to]

SubmitStatement(e) == MoveEstimate(e, "draft", "pending_approval")

(* A fault: the statement does not look at the status.                        *)
DecideAnyEstimate(e, decision) == estimates' = [estimates EXCEPT ![e].status = decision]

DecideStatement(e, decision) == MoveEstimate(e, "pending_approval", decision)

InsertApproval(e, by, decision) ==
  approvals' = Append(approvals, [estimate |-> e, by |-> by, decision |-> decision])

InsertWorkOrder(estimate, vendor, risk) ==
  /\ Len(orders) < MaxRows
  /\ orders' = Append(orders, [estimate |-> estimate, vendor |-> vendor, risk |-> risk,
                               status |-> "assigned", verifiedBy |-> None])

MoveOrder(o, from, row) == orders[o].status = from /\ orders' = [orders EXCEPT ![o] = row]

StartStatement(o)      == MoveOrder(o, "assigned", [orders[o] EXCEPT !.status = "in_progress"])
CompleteStatement(o)   == MoveOrder(o, "in_progress", [orders[o] EXCEPT !.status = "completed"])
VerifyStatement(o, by) == MoveOrder(o, "completed", [orders[o] EXCEPT !.status = "verified", !.verifiedBy = by])

(* Whatever its status.                                                       *)
UpdateWorkOrderStatus(o, status) == orders' = [orders EXCEPT ![o].status = status]

InsertWarranty(o) == Len(warranties) < MaxRows /\ warranties' = Append(warranties, o)

----------------------------------------------------------------------------
(* The request and its estimates                                             *)

CreateRequest(risk) ==
  /\ request = None
  /\ InsertRequest(risk)
  /\ UNCHANGED <<estimates, approvals, orders, warranties>>
handleCreateRequest(risk) == Served /\ CreateRequest(risk)

handleTriageRequest(c, risk) ==
  /\ request # None
  /\ request.status = "reported"
  /\ Begin(c, [op |-> "triage", risk |-> risk])
  /\ UNCHANGED tables

TriageRequest(c) ==
  /\ Under(c, "triage")
  /\ TriageStatement(pc[c].risk)
  /\ Done(c)
  /\ UNCHANGED <<estimates, approvals, orders, warranties>>

handleCreateEstimate(c, by) ==
  /\ request # None
  /\ request.status = "triaged"
  /\ Begin(c, [op |-> "estimate", by |-> by])
  /\ UNCHANGED tables

CreateEstimate(c) ==
  /\ Under(c, "estimate")
  /\ InsertEstimate(pc[c].by)
  /\ SetRequestEstimate(Len(estimates'))
  /\ Done(c)
  /\ UNCHANGED <<approvals, orders, warranties>>

handleSubmitEstimate(c, e) ==
  /\ estimates[e].status = "draft"
  /\ Begin(c, [op |-> "submit", estimate |-> e])
  /\ UNCHANGED tables

SubmitEstimate(c) ==
  /\ Under(c, "submit")
  /\ SubmitStatement(pc[c].estimate)
  /\ Done(c)
  /\ UNCHANGED <<request, approvals, orders, warranties>>

decideEstimate(c, e, by, decision) ==
  /\ estimates[e].status = "pending_approval"
  /\ by # estimates[e].by
  /\ Begin(c, [op |-> "decide", estimate |-> e, by |-> by, decision |-> decision])
  /\ UNCHANGED tables

handleDecideEstimate(c, e, by, decision) == decideEstimate(c, e, by, decision)

(* Asked for by the request: the estimate it names.                           *)
handleDecideRequestEstimate(c, by, decision) ==
  /\ request # None
  /\ request.estimate # 0
  /\ decideEstimate(c, request.estimate, by, decision)

DecideEstimate(c) ==
  LET f == pc[c] IN
  /\ Under(c, "decide")
  /\ InsertApproval(f.estimate, f.by, f.decision)
  /\ DecideStatement(f.estimate, f.decision)
  /\ UpdateRequestStatus(DecidedStatus[f.decision], f.estimate)
  /\ Done(c)
  /\ UNCHANGED <<orders, warranties>>

----------------------------------------------------------------------------
(* Work orders and warranties                                                *)

handleAssignWorkOrder(c, vendor) ==
  /\ request # None
  /\ request.status \in {"triaged", "estimate_approved"}
  /\ request.estimate # 0
  /\ Begin(c, [op |-> "rejected", row |-> request, vendor |-> vendor])
  /\ UNCHANGED tables

GetEstimate(c) ==
  /\ Under(c, "rejected")
  /\ estimates[pc[c].row.estimate].status # "rejected"
  /\ Goes(c, [pc[c] EXCEPT !.op = "assign"])
  /\ UNCHANGED tables

AssignVendorWorkOrder(c) ==
  LET row == pc[c].row IN
  /\ Under(c, "assign")
  /\ InsertWorkOrder(row.estimate, pc[c].vendor, row.risk)
  /\ Done(c)
  /\ UNCHANGED <<request, estimates, approvals, warranties>>

handleStartWorkOrder(c, o) ==
  /\ orders[o].status = "assigned"
  /\ Begin(c, [op |-> "approved", order |-> o])
  /\ UNCHANGED tables

ValidateStartReady(c) ==
  /\ Under(c, "approved")
  /\ estimates[orders[pc[c].order].estimate].status = "approved"
  /\ Goes(c, [pc[c] EXCEPT !.op = "start"])
  /\ UNCHANGED tables

StartWorkOrder(c) ==
  /\ Under(c, "start")
  /\ StartStatement(pc[c].order)
  /\ UpdateRequestStatus("in_progress", 0)
  /\ Done(c)
  /\ UNCHANGED <<estimates, approvals, warranties>>

handleCompleteWorkOrder(c, o, by) ==
  /\ orders[o].status = "in_progress"
  /\ by = orders[o].vendor
  /\ Begin(c, [op |-> "finish", order |-> o])
  /\ UNCHANGED tables

CompleteWorkOrder(c) ==
  /\ Under(c, "finish")
  /\ CompleteStatement(pc[c].order)
  /\ UpdateRequestStatus("completed", 0)
  /\ Done(c)
  /\ UNCHANGED <<estimates, approvals, warranties>>

(* Work of a standard risk is verified by anyone, the vendor included.        *)
ValidateVerifier(order, by) == order.risk = "high" => by # order.vendor

handleVerifyWorkOrder(c, o, by) ==
  /\ orders[o].status = "completed"
  /\ ValidateVerifier(orders[o], by)
  /\ Begin(c, [op |-> "verify", order |-> o, by |-> by])
  /\ UNCHANGED tables

VerifyWorkOrder(c) ==
  /\ Under(c, "verify")
  /\ VerifyStatement(pc[c].order, pc[c].by)
  /\ Done(c)
  /\ UNCHANGED <<request, estimates, approvals, warranties>>

handleRecordWarranty(c, o) ==
  /\ orders[o].status = "verified"
  /\ Begin(c, [op |-> "warranty", order |-> o])
  /\ UNCHANGED tables

RecordWarranty(c) ==
  /\ Under(c, "warranty")
  /\ InsertWarranty(pc[c].order)
  /\ UpdateWorkOrderStatus(pc[c].order, "closed")
  /\ Done(c)
  /\ UNCHANGED <<request, estimates, approvals>>

----------------------------------------------------------------------------

Abandon(c) == Dropped(c) /\ UNCHANGED tables

Next ==
  \/ \E risk \in {"standard", "high"} : handleCreateRequest(risk)
  \/ \E c \in Client :
       \/ \E risk \in {"standard", "high"} : handleTriageRequest(c, risk)
       \/ \E by \in Actor : handleCreateEstimate(c, by) \/ handleAssignWorkOrder(c, by)
       \/ \E e \in DOMAIN estimates : handleSubmitEstimate(c, e)
       \/ \E by \in Actor, decision \in {"approved", "rejected"} :
            \/ handleDecideRequestEstimate(c, by, decision)
            \/ \E e \in DOMAIN estimates : handleDecideEstimate(c, e, by, decision)
       \/ \E o \in DOMAIN orders : handleStartWorkOrder(c, o) \/ handleRecordWarranty(c, o)
       \/ \E o \in DOMAIN orders, by \in Actor : handleCompleteWorkOrder(c, o, by) \/ handleVerifyWorkOrder(c, o, by)
       \/ TriageRequest(c) \/ CreateEstimate(c) \/ SubmitEstimate(c) \/ DecideEstimate(c)
       \/ GetEstimate(c) \/ AssignVendorWorkOrder(c) \/ ValidateStartReady(c) \/ StartWorkOrder(c)
       \/ CompleteWorkOrder(c) \/ VerifyWorkOrder(c) \/ RecordWarranty(c)
       \/ Abandon(c)

Spec == Init /\ [][Next]_vars

----------------------------------------------------------------------------

(* "Unapproved estimate cannot start work": an order that has been started    *)
(* rests on an approved estimate.  However decisions race, an estimate has    *)
(* one approval on record when it is decided and none before, by another than *)
(* its preparer and with its status as the decision; and high-risk work is    *)
(* not verified by the vendor who did it.                                     *)
RestsOnApproval(estimated, approved, ordered) ==
  /\ \A o \in DOMAIN ordered :
       /\ ordered[o].status # "assigned" => estimated[ordered[o].estimate].status = "approved"
       /\ ordered[o].risk = "high" => ordered[o].verifiedBy # ordered[o].vendor
  /\ \A e \in DOMAIN estimated :
       LET of == {a \in DOMAIN approved : approved[a].estimate = e} IN
       IF estimated[e].status \in {"approved", "rejected"}
       THEN \E a \in of : of = {a} /\ approved[a].decision = estimated[e].status /\ approved[a].by # estimated[e].by
       ELSE of = {}

WorkIsApproved == RestsOnApproval(estimates, approvals, orders)

(* A work order is closed by the one warranty recorded for it: does not hold, *)
(* its status is not looked at again when a warranty is inserted.             *)
OneWarranty == \A v, w \in DOMAIN warranties : warranties[v] = warranties[w] => v = w
=============================================================================
