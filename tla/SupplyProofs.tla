---------------------------- MODULE SupplyProofs ----------------------------
(***************************************************************************)
(* The invariants of the components that keep goods, works and money hold  *)
(* in every reachable state, whatever the requests, the people, the rows   *)
(* and the bounds.  Each rests on an inductive invariant that says what a  *)
(* request under way relies on of what it has read.                        *)
(***************************************************************************)
EXTENDS Supply, TableLemmas

\* A behaviour stays with its component: the others take no step.
LEMMA Moves ==
  ASSUME [Next]_vars
  PROVE  /\ part' = part
         /\ part = "repair" => Repair!Next \/ UNCHANGED <<repair, pc, requests>>
         /\ part = "vehicle" => Vehicle!Next \/ UNCHANGED <<vehicle, pc, requests>>
         /\ part = "package" => Package!Next \/ UNCHANGED <<package, pc, requests>>
         /\ part = "finance" => Finance!Next \/ UNCHANGED <<finance, pc, requests>>
         /\ part = "reports" => Reports!Next \/ UNCHANGED <<reports, pc, requests>>
  BY DEF Next, RepairStep, VehicleStep, PackageStep, FinanceStep, ReportsStep, vars

-----------------------------------------------------------------------------
(* The repairs, their estimates and the orders of vendors *)

\* What a frame relies on: the rows it names are there, whoever decides has not prepared
\* the estimate, the work that starts has been approved, the vendor does not verify.
Relying(c) ==
  LET f == pc[c] IN
  /\ f.op = "triage" => f.risk \in {"standard", "high"}
  /\ f.op = "estimate" => f.by \in Actor
  /\ f.op \in {"submit", "decide"} => f.estimate \in DOMAIN estimates
  /\ f.op = "decide" => /\ f.by \in Actor \ {estimates[f.estimate].by}
                        /\ f.decision \in {"approved", "rejected"}
  /\ f.op \in {"rejected", "assign"} => /\ f.row.estimate \in DOMAIN estimates
                                        /\ f.row.risk \in {"standard", "high"}
                                        /\ f.vendor \in Actor
  /\ f.op \in {"approved", "start", "finish", "verify", "warranty"} => f.order \in DOMAIN orders
  /\ f.op = "start" => estimates[orders[f.order].estimate].status = "approved"
  /\ f.op = "verify" => /\ f.by \in Actor
                        /\ orders[f.order].risk = "high" => f.by # orders[f.order].vendor
  /\ f.op = "warranty" => orders[f.order].status # "assigned"

\* Nothing is estimated or ordered before the request is reported.
Reported ==
  /\ request \in Request \union {None}
  /\ request = None => /\ DOMAIN estimates = {} /\ DOMAIN orders = {}
                       /\ \A c \in Client : pc[c] = Repair!Idle
  /\ request # None => request.estimate \in DOMAIN estimates \union {0}

\* An estimate is decided once, and on the record; work is started on an approved one.
Of(e) == {a \in DOMAIN approvals : approvals[a].estimate = e}
Decided(e) ==
  IF estimates[e].status \in {"approved", "rejected"}
  THEN \E a \in Of(e) : /\ Of(e) = {a}
                        /\ approvals[a].decision = estimates[e].status
                        /\ approvals[a].by # estimates[e].by
  ELSE Of(e) = {}
Started(o) ==
  /\ orders[o].estimate \in DOMAIN estimates
  /\ orders[o].status # "assigned" => estimates[orders[o].estimate].status = "approved"
  /\ orders[o].risk = "high" => orders[o].verifiedBy # orders[o].vendor

WorkInv ==
  /\ DOMAIN pc = Client
  /\ Reported
  /\ estimates \in Seq(Estimate)
  /\ approvals \in Seq(Decision)
  /\ orders \in Seq(Order)
  /\ \A a \in DOMAIN approvals : approvals[a].estimate \in DOMAIN estimates
  /\ \A e \in DOMAIN estimates : Decided(e)
  /\ \A o \in DOMAIN orders : Started(o)
  /\ \A c \in Client : Relying(c)

\* A decision stays with its estimate and its approval.
LEMMA DecidedStays ==
  ASSUME NEW e, Decided(e), Of(e)' = Of(e),
         \A a \in Of(e) : approvals'[a] = approvals[a],
         estimates'[e].by = estimates[e].by,
         \/ estimates'[e].status = estimates[e].status
         \/ /\ estimates[e].status \notin {"approved", "rejected"}
            /\ estimates'[e].status \notin {"approved", "rejected"}
  PROVE  Decided(e)'
  <1>1. CASE estimates[e].status \in {"approved", "rejected"}
    <2>1. PICK a \in Of(e) : /\ Of(e) = {a} /\ approvals[a].decision = estimates[e].status
                             /\ approvals[a].by # estimates[e].by
      BY <1>1 DEF Decided
    <2>2. /\ a \in Of(e)' /\ Of(e)' = {a} /\ approvals'[a].decision = estimates'[e].status
          /\ approvals'[a].by # estimates'[e].by
      BY <1>1, <2>1
    <2>3. estimates'[e].status \in {"approved", "rejected"}
      BY <1>1
    <2>4. QED
      BY <2>2, <2>3 DEF Decided
  <1>2. CASE estimates[e].status \notin {"approved", "rejected"}
    <2>1. Of(e)' = {} /\ estimates'[e].status \notin {"approved", "rejected"}
      BY <1>2 DEF Decided
    <2>2. QED
      BY <2>1 DEF Decided
  <1>3. QED
    BY <1>1, <1>2

LEMMA DecidedUnchanged ==
  ASSUME UNCHANGED <<estimates, approvals>>
  PROVE  \A e : Decided(e) => Decided(e)'
  <1> SUFFICES ASSUME NEW e, Decided(e)
               PROVE  Decided(e)'
    OBVIOUS
  <1>1. Of(e)' = Of(e)
    BY DEF Of
  <1>2. QED
    BY <1>1, DecidedStays

\* What frames rely on stays when rows keep what is never updated and an approval stands.
LEMMA RelyingStays ==
  ASSUME \A d \in Client : Relying(d) /\ pc'[d] \in {pc[d], Repair!Idle},
         \A o \in DOMAIN orders : orders[o].estimate \in DOMAIN estimates,
         DOMAIN estimates \subseteq DOMAIN estimates', DOMAIN orders \subseteq DOMAIN orders',
         \A e \in DOMAIN estimates : /\ estimates'[e].by = estimates[e].by
                                     /\ estimates[e].status = "approved" => estimates'[e].status = "approved",
         \A o \in DOMAIN orders : /\ orders'[o].estimate = orders[o].estimate
                                  /\ orders'[o].vendor = orders[o].vendor
                                  /\ orders'[o].risk = orders[o].risk
                                  /\ orders[o].status # "assigned" => orders'[o].status # "assigned"
  PROVE  \A d \in Client : Relying(d)'
  <1> SUFFICES ASSUME NEW d \in Client
               PROVE  Relying(d)'
    OBVIOUS
  <1>1. CASE pc'[d] = Repair!Idle
    BY <1>1 DEF Relying, Repair!Idle
  <1>2. CASE pc'[d] = pc[d]
    BY <1>2 DEF Relying
  <1>3. QED
    BY <1>1, <1>2

\* One frame goes on, the tables stay.
LEMMA RelyingGoes ==
  ASSUME WorkInv, request # None, NEW c \in Client, NEW frame, pc' = [pc EXCEPT ![c] = frame],
         UNCHANGED <<request, estimates, approvals, orders>>,
         Relying(c)'
  PROVE  WorkInv'
  <1>1. \A d \in Client : Relying(d)'
    <2> SUFFICES ASSUME NEW d \in Client \ {c}
                 PROVE  Relying(d)'
      OBVIOUS
    <2>1. pc'[d] = pc[d] /\ Relying(d)
      BY DEF WorkInv
    <2>2. QED
      BY <2>1 DEF Relying
  <1>2. \A e \in DOMAIN estimates' : Decided(e)'
    BY DecidedUnchanged DEF WorkInv
  <1>3. QED
    BY <1>1, <1>2 DEF WorkInv, Reported, Started

\* An UPDATE moves one order on.
LEMMA OrderMoves ==
  ASSUME WorkInv, NEW c \in Client, pc' = [pc EXCEPT ![c] = Repair!Idle],
         NEW o \in DOMAIN orders, NEW row \in Order, orders' = [orders EXCEPT ![o] = row],
         row.estimate = orders[o].estimate, row.vendor = orders[o].vendor, row.risk = orders[o].risk,
         row.status # "assigned", estimates[row.estimate].status = "approved",
         row.risk = "high" => row.verifiedBy # row.vendor,
         request # None, request' \in Request, request'.estimate = request.estimate,
         UNCHANGED <<estimates, approvals>>
  PROVE  WorkInv'
  <1>1. /\ orders' \in Seq(Order) /\ DOMAIN orders' = DOMAIN orders
        /\ \A p \in DOMAIN orders : orders'[p] = IF p = o THEN row ELSE orders[p]
    BY Updated DEF WorkInv
  <1>2. request' # None
    BY NoneIsNull
  <1>3. Reported'
    BY <1>2 DEF WorkInv, Reported
  <1>4. \A d \in Client : Relying(d)'
    BY <1>1, RelyingStays DEF WorkInv, Started
  <1>5. \A p \in DOMAIN orders' : Started(p)'
    BY <1>1 DEF WorkInv, Started
  <1>6. \A e \in DOMAIN estimates' : Decided(e)'
    BY DecidedUnchanged DEF WorkInv
  <1>7. QED
    BY <1>1, <1>3, <1>4, <1>5, <1>6 DEF WorkInv

\* An estimate is decided under a condition on its status, with its approval; an approval
\* stands, so the work it allowed may start later.
LEMMA WorkStep ==
  ASSUME WorkInv, Repair!Next
  PROVE  WorkInv'
  <1>1. ASSUME NEW risk \in {"standard", "high"}, Repair!handleCreateRequest(risk)
        PROVE  WorkInv'
    <2> DEFINE row == [status |-> "reported", risk |-> risk, estimate |-> 0]
    <2>1. /\ request = None /\ request' = row
          /\ UNCHANGED <<estimates, approvals, orders, pc>>
      BY <1>1 DEF Repair!handleCreateRequest, Repair!CreateRequest, Repair!InsertRequest, Repair!Served
    <2>2. row \in Request /\ row.estimate = 0
      BY DEF Request
    <2>3. row # None
      BY <2>2, NoneIsNull
    <2>4. Reported'
      BY <2>1, <2>2, <2>3 DEF Reported
    <2>5. \A e \in DOMAIN estimates' : Decided(e)'
      BY <2>1, DecidedUnchanged DEF WorkInv
    <2>6. QED
      BY <2>1, <2>4, <2>5 DEF WorkInv, Relying, Started
  <1>2. ASSUME NEW c \in Client, NEW risk \in {"standard", "high"}, Repair!handleTriageRequest(c,
     risk)
        PROVE  WorkInv'
    <2> DEFINE frame == [op |-> "triage", risk |-> risk]
    <2>1. /\ pc' = [pc EXCEPT ![c] = frame]
          /\ request # None
          /\ UNCHANGED <<request, estimates, approvals, orders>>
      BY <1>2 DEF Repair!handleTriageRequest, Repair!Begin, Repair!tables, Repair!Idle, WorkInv, Reported
    <2>2. pc'[c] = frame
      BY <2>1 DEF WorkInv
    <2>3. Relying(c)'
      BY <1>2, <2>1, <2>2 DEF Repair!handleTriageRequest, Repair!Under, WorkInv, Relying, Reported
    <2>4. QED
      BY <2>1, <2>3, RelyingGoes
  <1>3. ASSUME NEW c \in Client, NEW by \in Actor, Repair!handleCreateEstimate(c, by)
        PROVE  WorkInv'
    <2> DEFINE frame == [op |-> "estimate", by |-> by]
    <2>1. /\ pc' = [pc EXCEPT ![c] = frame]
          /\ request # None
          /\ UNCHANGED <<request, estimates, approvals, orders>>
      BY <1>3 DEF Repair!handleCreateEstimate, Repair!Begin, Repair!tables, Repair!Idle, WorkInv, Reported
    <2>2. pc'[c] = frame
      BY <2>1 DEF WorkInv
    <2>3. Relying(c)'
      BY <1>3, <2>1, <2>2 DEF Repair!handleCreateEstimate, Repair!Under, WorkInv, Relying, Reported
    <2>4. QED
      BY <2>1, <2>3, RelyingGoes
  <1>4. ASSUME NEW c \in Client, NEW by \in Actor, Repair!handleAssignWorkOrder(c, by)
        PROVE  WorkInv'
    <2> DEFINE frame == [op |-> "rejected", row |-> request, vendor |-> by]
    <2>1. /\ pc' = [pc EXCEPT ![c] = frame]
          /\ request # None
          /\ UNCHANGED <<request, estimates, approvals, orders>>
      BY <1>4 DEF Repair!handleAssignWorkOrder, Repair!Begin, Repair!tables, Repair!Idle, WorkInv, Reported
    <2>2. pc'[c] = frame
      BY <2>1 DEF WorkInv
    <2>3. Relying(c)'
      <3>1. 0 \notin DOMAIN estimates
        BY Rows DEF WorkInv
      <3>2. QED
        BY <1>4, <2>1, <2>2, <3>1 DEF Repair!handleAssignWorkOrder, Repair!decideEstimate, WorkInv, Reported, Relying, Request
    <2>4. QED
      BY <2>1, <2>3, RelyingGoes
  <1>5. ASSUME NEW c \in Client, NEW e \in DOMAIN estimates, Repair!handleSubmitEstimate(c, e)
        PROVE  WorkInv'
    <2> DEFINE frame == [op |-> "submit", estimate |-> e]
    <2>1. /\ pc' = [pc EXCEPT ![c] = frame]
          /\ request # None
          /\ UNCHANGED <<request, estimates, approvals, orders>>
      BY <1>5 DEF Repair!handleSubmitEstimate, Repair!Begin, Repair!tables, Repair!Idle, WorkInv, Reported
    <2>2. pc'[c] = frame
      BY <2>1 DEF WorkInv
    <2>3. Relying(c)'
      BY <1>5, <2>1, <2>2 DEF Repair!handleSubmitEstimate, Repair!Under, WorkInv, Relying, Reported
    <2>4. QED
      BY <2>1, <2>3, RelyingGoes
  <1>6. ASSUME NEW c \in Client, NEW by \in Actor, NEW decision \in {"approved", "rejected"},
     Repair!handleDecideRequestEstimate(c, by, decision)
        PROVE  WorkInv'
    <2> DEFINE frame == [op |-> "decide", estimate |-> request.estimate, by |-> by, decision |-> decision]
    <2>1. /\ pc' = [pc EXCEPT ![c] = frame]
          /\ request # None
          /\ UNCHANGED <<request, estimates, approvals, orders>>
      BY <1>6 DEF Repair!handleDecideRequestEstimate, Repair!Begin, Repair!decideEstimate, Repair!tables, Repair!Idle, WorkInv, Reported
    <2>2. pc'[c] = frame
      BY <2>1 DEF WorkInv
    <2>3. Relying(c)'
      <3>1. 0 \notin DOMAIN estimates
        BY Rows DEF WorkInv
      <3>2. QED
        BY <1>6, <2>1, <2>2, <3>1 DEF Repair!handleDecideRequestEstimate, Repair!decideEstimate, WorkInv, Reported, Relying, Request
    <2>4. QED
      BY <2>1, <2>3, RelyingGoes
  <1>7. ASSUME NEW c \in Client, NEW by \in Actor, NEW decision \in {"approved", "rejected"}, NEW e
     \in DOMAIN estimates, Repair!handleDecideEstimate(c, e, by, decision)
        PROVE  WorkInv'
    <2> DEFINE frame == [op |-> "decide", estimate |-> e, by |-> by, decision |-> decision]
    <2>1. /\ pc' = [pc EXCEPT ![c] = frame]
          /\ request # None
          /\ UNCHANGED <<request, estimates, approvals, orders>>
      BY <1>7 DEF Repair!handleDecideEstimate, Repair!Begin, Repair!decideEstimate, Repair!tables, Repair!Idle, WorkInv, Reported
    <2>2. pc'[c] = frame
      BY <2>1 DEF WorkInv
    <2>3. Relying(c)'
      BY <1>7, <2>1, <2>2 DEF Repair!handleDecideEstimate, Repair!Under, WorkInv, Relying, Reported, Repair!decideEstimate
    <2>4. QED
      BY <2>1, <2>3, RelyingGoes
  <1>8. ASSUME NEW c \in Client, NEW o \in DOMAIN orders, Repair!handleStartWorkOrder(c, o)
        PROVE  WorkInv'
    <2> DEFINE frame == [op |-> "approved", order |-> o]
    <2>1. /\ pc' = [pc EXCEPT ![c] = frame]
          /\ request # None
          /\ UNCHANGED <<request, estimates, approvals, orders>>
      BY <1>8 DEF Repair!handleStartWorkOrder, Repair!Begin, Repair!tables, Repair!Idle, WorkInv, Reported
    <2>2. pc'[c] = frame
      BY <2>1 DEF WorkInv
    <2>3. Relying(c)'
      BY <1>8, <2>1, <2>2 DEF Repair!handleStartWorkOrder, Repair!Under, WorkInv, Relying, Reported
    <2>4. QED
      BY <2>1, <2>3, RelyingGoes
  <1>9. ASSUME NEW c \in Client, NEW o \in DOMAIN orders, Repair!handleRecordWarranty(c, o)
        PROVE  WorkInv'
    <2> DEFINE frame == [op |-> "warranty", order |-> o]
    <2>1. /\ pc' = [pc EXCEPT ![c] = frame]
          /\ request # None
          /\ UNCHANGED <<request, estimates, approvals, orders>>
      BY <1>9 DEF Repair!handleRecordWarranty, Repair!Begin, Repair!tables, Repair!Idle, WorkInv, Reported
    <2>2. pc'[c] = frame
      BY <2>1 DEF WorkInv
    <2>3. Relying(c)'
      BY <1>9, <2>1, <2>2 DEF Repair!handleRecordWarranty, Repair!Under, WorkInv, Relying, Reported
    <2>4. QED
      BY <2>1, <2>3, RelyingGoes
  <1>10. ASSUME NEW c \in Client, NEW o \in DOMAIN orders, NEW by \in Actor,
     Repair!handleCompleteWorkOrder(c, o, by)
         PROVE  WorkInv'
    <2> DEFINE frame == [op |-> "finish", order |-> o]
    <2>1. /\ pc' = [pc EXCEPT ![c] = frame]
          /\ request # None
          /\ UNCHANGED <<request, estimates, approvals, orders>>
      BY <1>10 DEF Repair!handleCompleteWorkOrder, Repair!Begin, Repair!tables, Repair!Idle, WorkInv, Reported
    <2>2. pc'[c] = frame
      BY <2>1 DEF WorkInv
    <2>3. Relying(c)'
      BY <1>10, <2>1, <2>2 DEF Repair!handleCompleteWorkOrder, Repair!Under, WorkInv, Relying, Reported
    <2>4. QED
      BY <2>1, <2>3, RelyingGoes
  <1>11. ASSUME NEW c \in Client, NEW o \in DOMAIN orders, NEW by \in Actor,
     Repair!handleVerifyWorkOrder(c, o, by)
         PROVE  WorkInv'
    <2> DEFINE frame == [op |-> "verify", order |-> o, by |-> by]
    <2>1. /\ pc' = [pc EXCEPT ![c] = frame]
          /\ request # None
          /\ UNCHANGED <<request, estimates, approvals, orders>>
      BY <1>11 DEF Repair!handleVerifyWorkOrder, Repair!Begin, Repair!tables, Repair!Idle, WorkInv, Reported
    <2>2. pc'[c] = frame
      BY <2>1 DEF WorkInv
    <2>3. Relying(c)'
      BY <1>11, <2>1, <2>2 DEF Repair!handleVerifyWorkOrder, Repair!Under, WorkInv, Relying, Reported, Repair!ValidateVerifier
    <2>4. QED
      BY <2>1, <2>3, RelyingGoes
  <1>12. ASSUME NEW c \in Client, Repair!TriageRequest(c)
         PROVE  WorkInv'
    <2> DEFINE row == [request EXCEPT !.status = "triaged", !.risk = pc[c].risk]
    <2>1. /\ pc[c].op = "triage" /\ Relying(c) /\ request # None
          /\ request' = row
          /\ pc' = [pc EXCEPT ![c] = Repair!Idle]
          /\ UNCHANGED <<estimates, approvals, orders>>
      BY <1>12 DEF Repair!TriageRequest, Repair!Under, Repair!TriageStatement, Repair!Done, Repair!Goes,
                WorkInv, Reported, Repair!Idle
    <2>2. request \in Request /\ pc[c].risk \in {"standard", "high"}
      BY <2>1 DEF WorkInv, Reported, Relying
    <2>3. row \in Request /\ row.estimate = request.estimate
      BY <2>2 DEF Request
    <2>4. row # None
      BY <2>3, NoneIsNull
    <2>5. Reported'
      BY <2>1, <2>3, <2>4 DEF WorkInv, Reported
    <2>6. \A d \in Client : Relying(d)'
      BY <2>1, RelyingStays DEF WorkInv, Started
    <2>7. \A e \in DOMAIN estimates' : Decided(e)'
      BY <2>1, DecidedUnchanged DEF WorkInv
    <2>8. QED
      BY <2>1, <2>5, <2>6, <2>7 DEF WorkInv, Started
  <1>13. ASSUME NEW c \in Client, Repair!CreateEstimate(c)
         PROVE  WorkInv'
    <2>0. PICK new : new = Len(estimates) + 1
      OBVIOUS
    <2> DEFINE row == [by |-> pc[c].by, status |-> "draft"]
               moved == [request EXCEPT !.estimate = new]
    <2>1. /\ pc[c].op = "estimate" /\ Relying(c) /\ request # None
          /\ estimates' = Append(estimates, row)
          /\ request' = [request EXCEPT !.estimate = Len(estimates')]
          /\ pc' = [pc EXCEPT ![c] = Repair!Idle]
          /\ UNCHANGED <<approvals, orders>>
      BY <1>13 DEF Repair!CreateEstimate, Repair!Under, Repair!InsertEstimate, Repair!SetRequestEstimate,
                Repair!Done, Repair!Goes, WorkInv, Reported, Repair!Idle
    <2>2. row \in Estimate /\ row.status = "draft"
      BY <2>1 DEF Estimate, Relying
    <2>3. /\ estimates' \in Seq(Estimate) /\ Len(estimates') = new /\ new \notin DOMAIN estimates
          /\ DOMAIN estimates' = DOMAIN estimates \union {new}
          /\ \A e \in DOMAIN estimates : estimates'[e] = estimates[e]
          /\ estimates'[new] = row
      BY <2>0, <2>1, <2>2, Inserted DEF WorkInv
    <2>4. request \in Request /\ new \in Nat
      BY <2>0, <2>1, Rows DEF WorkInv, Reported
    <2>5. request' = moved /\ moved \in Request /\ moved.estimate = new
      BY <2>1, <2>3, <2>4 DEF Request
    <2>6. moved # None
      BY <2>5, NoneIsNull
    <2>7. Reported'
      BY <2>3, <2>5, <2>6 DEF Reported
    <2>8. \A d \in Client : Relying(d)'
      BY <2>1, <2>3, RelyingStays DEF WorkInv, Started
    <2>9. \A e \in DOMAIN estimates' : Decided(e)'
      <3>1. \A e : Of(e)' = Of(e)
        BY <2>1 DEF Of
      <3>2. \A e \in DOMAIN estimates : Decided(e)'
        BY <2>1, <2>3, <3>1, DecidedStays DEF WorkInv
      <3>3. Of(new) = {}
        BY <2>3 DEF WorkInv, Of
      <3>4. Decided(new)'
        BY <2>2, <2>3, <3>1, <3>3 DEF Decided
      <3>5. QED
        BY <2>3, <3>2, <3>4
    <2>10. \A o \in DOMAIN orders' : Started(o)'
      BY <2>1, <2>3 DEF WorkInv, Started
    <2>11. QED
      BY <2>1, <2>3, <2>7, <2>8, <2>9, <2>10 DEF WorkInv
  <1>14. ASSUME NEW c \in Client, Repair!SubmitEstimate(c)
         PROVE  WorkInv'
    <2>0. PICK e : e = pc[c].estimate
      OBVIOUS
    <2> DEFINE row == [estimates[e] EXCEPT !.status = "pending_approval"]
    <2>1. /\ e \in DOMAIN estimates /\ request # None
          /\ estimates[e].status = "draft"
          /\ estimates' = [estimates EXCEPT ![e] = row]
          /\ pc' = [pc EXCEPT ![c] = Repair!Idle]
          /\ UNCHANGED <<request, approvals, orders>>
      BY <1>14, <2>0 DEF Repair!SubmitEstimate, Repair!Under, Repair!SubmitStatement, Repair!MoveEstimate,
                Repair!Done, Repair!Goes, WorkInv, Reported, Relying, Repair!Idle
    <2>2. estimates[e] \in Estimate
      BY <2>1, Rows DEF WorkInv
    <2>3. row \in Estimate /\ row.by = estimates[e].by /\ row.status = "pending_approval"
      BY <2>2 DEF Estimate
    <2>4. /\ estimates' \in Seq(Estimate) /\ DOMAIN estimates' = DOMAIN estimates
          /\ \A d \in DOMAIN estimates : estimates'[d] = IF d = e THEN row ELSE estimates[d]
      BY <2>1, <2>3, Updated DEF WorkInv
    <2>5. \A d \in Client : Relying(d)'
      BY <2>1, <2>3, <2>4, RelyingStays DEF WorkInv, Started
    <2>6. \A d \in DOMAIN estimates' : Decided(d)'
      <3>1. \A d : Of(d)' = Of(d)
        BY <2>1 DEF Of
      <3>2. \A d \in DOMAIN estimates :
              /\ estimates'[d].by = estimates[d].by
              /\ \/ estimates'[d].status = estimates[d].status
                 \/ /\ estimates[d].status \notin {"approved", "rejected"}
                    /\ estimates'[d].status \notin {"approved", "rejected"}
        BY <2>1, <2>3, <2>4
      <3>3. QED
        BY <2>1, <2>4, <3>1, <3>2, DecidedStays DEF WorkInv
    <2>7. \A o \in DOMAIN orders' : Started(o)'
      BY <2>1, <2>4 DEF WorkInv, Started
    <2>8. QED
      BY <2>1, <2>4, <2>5, <2>6, <2>7 DEF WorkInv, Reported
  <1>15. ASSUME NEW c \in Client, Repair!DecideEstimate(c)
         PROVE  WorkInv'
    <2>0. PICK e : e = pc[c].estimate
      OBVIOUS
    <2> DEFINE f == pc[c]
               row == [estimates[e] EXCEPT !.status = f.decision]
               approval == [estimate |-> e, by |-> f.by, decision |-> f.decision]
               moved == [request EXCEPT !.status = Repair!DecidedStatus[f.decision],
                                        !.estimate = IF e = 0 THEN @ ELSE e]
    <2>1. /\ f.op = "decide" /\ Relying(c) /\ request # None
          /\ approvals' = Append(approvals, approval)
          /\ estimates[e].status = "pending_approval"
          /\ estimates' = [estimates EXCEPT ![e] = row]
          /\ request' = moved
          /\ pc' = [pc EXCEPT ![c] = Repair!Idle]
          /\ orders' = orders
      BY <1>15, <2>0 DEF Repair!DecideEstimate, Repair!Under, Repair!InsertApproval, Repair!DecideStatement,
                Repair!MoveEstimate, Repair!UpdateRequestStatus, Repair!Done, Repair!Goes, WorkInv, Reported,
                Repair!Idle
    <2>2. /\ e \in DOMAIN estimates /\ f.by \in Actor /\ f.by # estimates[e].by
          /\ f.decision \in {"approved", "rejected"}
      BY <2>0, <2>1 DEF Relying
    <2>3. estimates[e] \in Estimate /\ e \in Nat /\ request \in Request
      BY <2>1, <2>2, Rows DEF WorkInv, Reported
    <2>4. row \in Estimate /\ row.by = estimates[e].by /\ row.status = f.decision
      BY <2>2, <2>3 DEF Estimate
    <2>5. approval \in Decision
      BY <2>2, <2>3 DEF Decision
    <2>6. moved \in Request /\ moved.estimate \in {e, request.estimate}
      <3>1. Repair!DecidedStatus[f.decision] \in {"estimate_approved", "estimate_rejected"}
        BY <2>2 DEF Repair!DecidedStatus
      <3>2. QED
        BY <2>3, <3>1 DEF Request
    <2>7. /\ estimates' \in Seq(Estimate) /\ DOMAIN estimates' = DOMAIN estimates
          /\ \A d \in DOMAIN estimates : estimates'[d] = IF d = e THEN row ELSE estimates[d]
      BY <2>1, <2>2, <2>4, Updated DEF WorkInv
    <2> HIDE DEF approval
    <2>8. PICK new : /\ approvals' \in Seq(Decision) /\ new \notin DOMAIN approvals
                     /\ DOMAIN approvals' = DOMAIN approvals \union {new}
                     /\ \A a \in DOMAIN approvals : approvals'[a] = approvals[a]
                     /\ approvals'[new] = approval
      <3>1. approvals \in Seq(Decision) /\ approvals' = Append(approvals, approval)
        BY <2>1 DEF WorkInv
      <3>2. QED
        BY <2>5, <3>1, Inserted
    <2> USE DEF approval
    <2>9. moved # None
      BY <2>6, NoneIsNull
    <2>10. Reported'
      BY <2>1, <2>2, <2>6, <2>7, <2>9 DEF WorkInv, Reported
    <2>11. \A d \in Client : Relying(d)'
      BY <2>1, <2>4, <2>7, RelyingStays DEF WorkInv, Started
    <2>12. Of(e) = {}
      BY <2>1, <2>2 DEF WorkInv, Decided
    <2>13. Of(e)' = {new} /\ \A d \in DOMAIN estimates \ {e} : Of(d)' = Of(d)
      BY <2>8, <2>12 DEF Of
    <2>14. Decided(e)'
      <3>1. /\ estimates'[e].status \in {"approved", "rejected"} /\ new \in Of(e)' /\ Of(e)' = {new}
            /\ approvals'[new].decision = estimates'[e].status /\ approvals'[new].by # estimates'[e].by
        <4>1. estimates'[e] = row /\ approvals'[new] = approval
          BY <2>2, <2>7, <2>8
        <4>2. approval.decision = f.decision /\ approval.by = f.by
          OBVIOUS
        <4>3. QED
          BY <2>2, <2>4, <2>13, <4>1, <4>2
      <3>2. QED
        BY <3>1 DEF Decided
    <2>15. ASSUME NEW d \in DOMAIN estimates \ {e}
           PROVE  Decided(d)'
      <3>1. Decided(d) /\ estimates'[d] = estimates[d] /\ Of(d)' = Of(d)
        BY <2>7, <2>13 DEF WorkInv
      <3>2. \A a \in Of(d) : approvals'[a] = approvals[a]
        BY <2>8 DEF Of
      <3>3. QED
        BY <3>1, <3>2, DecidedStays
    <2>16. \A o \in DOMAIN orders' : Started(o)'
      BY <2>1, <2>7 DEF WorkInv, Started
    <2>17. \A a \in DOMAIN approvals' : approvals'[a].estimate \in DOMAIN estimates'
      BY <2>2, <2>7, <2>8 DEF WorkInv
    <2>18. QED
      BY <2>1, <2>7, <2>8, <2>10, <2>11, <2>14, <2>15, <2>16, <2>17 DEF WorkInv
  <1>16. ASSUME NEW c \in Client, Repair!GetEstimate(c)
         PROVE  WorkInv'
    <2> DEFINE frame == [pc[c] EXCEPT !.op = "assign"]
    <2>1. /\ pc' = [pc EXCEPT ![c] = frame]
          /\ request # None
          /\ UNCHANGED <<request, estimates, approvals, orders>>
      BY <1>16 DEF Repair!GetEstimate, Repair!Goes, Repair!Under, Repair!tables, Repair!Idle, WorkInv, Reported
    <2>2. pc'[c] = frame
      BY <2>1 DEF WorkInv
    <2>3. Relying(c)'
      BY <1>16, <2>1, <2>2 DEF Repair!GetEstimate, Repair!Under, WorkInv, Relying, Reported
    <2>4. QED
      BY <2>1, <2>3, RelyingGoes
  <1>17. ASSUME NEW c \in Client, Repair!AssignVendorWorkOrder(c)
         PROVE  WorkInv'
    <2> DEFINE f == pc[c]
               row == [estimate |-> f.row.estimate, vendor |-> f.vendor, risk |-> f.row.risk,
                       status |-> "assigned", verifiedBy |-> None]
    <2>1. /\ f.op = "assign" /\ Relying(c) /\ request # None
          /\ orders' = Append(orders, row)
          /\ pc' = [pc EXCEPT ![c] = Repair!Idle]
          /\ UNCHANGED <<request, estimates, approvals>>
      BY <1>17 DEF Repair!AssignVendorWorkOrder, Repair!Under, Repair!InsertWorkOrder, Repair!Done, Repair!Goes,
                WorkInv, Reported, Repair!Idle
    <2>2. f.row.estimate \in DOMAIN estimates /\ f.row.risk \in {"standard", "high"} /\ f.vendor \in Actor
      BY <2>1 DEF Relying
    <2>3. f.row.estimate \in Nat /\ f.vendor # None
      BY <2>2, Rows, NoneIsNull DEF WorkInv
    <2>4. row \in Order
      BY <2>2, <2>3 DEF Order
    <2>5. PICK new : /\ orders' \in Seq(Order) /\ new \notin DOMAIN orders
                     /\ DOMAIN orders' = DOMAIN orders \union {new}
                     /\ \A o \in DOMAIN orders : orders'[o] = orders[o]
                     /\ orders'[new] = row
      BY <2>1, <2>4, Inserted, SMTT(30) DEF WorkInv
    <2>6. \A d \in Client : Relying(d)'
      BY <2>1, <2>5, RelyingStays DEF WorkInv, Started
    <2>7. Started(new)'
      BY <2>1, <2>2, <2>3, <2>5 DEF Started
    <2>8. \A o \in DOMAIN orders : Started(o)'
      BY <2>1, <2>5 DEF WorkInv, Started
    <2>9. Reported'
      BY <2>1 DEF WorkInv, Reported
    <2>10. \A e \in DOMAIN estimates' : Decided(e)'
      BY <2>1, DecidedUnchanged DEF WorkInv
    <2>11. QED
      BY <2>1, <2>5, <2>6, <2>7, <2>8, <2>9, <2>10 DEF WorkInv
  <1>18. ASSUME NEW c \in Client, Repair!ValidateStartReady(c)
         PROVE  WorkInv'
    <2> DEFINE frame == [pc[c] EXCEPT !.op = "start"]
    <2>1. /\ pc' = [pc EXCEPT ![c] = frame]
          /\ request # None
          /\ UNCHANGED <<request, estimates, approvals, orders>>
      BY <1>18 DEF Repair!ValidateStartReady, Repair!Goes, Repair!Under, Repair!tables, Repair!Idle, WorkInv, Reported
    <2>2. pc'[c] = frame
      BY <2>1 DEF WorkInv
    <2>3. Relying(c)'
      BY <1>18, <2>1, <2>2 DEF Repair!ValidateStartReady, Repair!Under, WorkInv, Relying, Reported
    <2>4. QED
      BY <2>1, <2>3, RelyingGoes
  <1>19. ASSUME NEW c \in Client, Repair!StartWorkOrder(c)
         PROVE  WorkInv'
    <2>0. PICK o : o = pc[c].order
      OBVIOUS
    <2> DEFINE row == [orders[o] EXCEPT !.status = "in_progress"]
    <2>1. /\ pc[c].op = "start" /\ Relying(c) /\ request # None
          /\ orders' = [orders EXCEPT ![o] = row]
          /\ request' = [request EXCEPT !.status = "in_progress", !.estimate = request.estimate]
          /\ pc' = [pc EXCEPT ![c] = Repair!Idle]
          /\ UNCHANGED <<estimates, approvals>>
      BY <1>19, <2>0 DEF Repair!StartWorkOrder, Repair!Under, Repair!StartStatement, Repair!MoveOrder, Repair!UpdateRequestStatus, Repair!Done, Repair!Goes, WorkInv, Reported,
                Repair!Idle
    <2>2. o \in DOMAIN orders /\ estimates[orders[o].estimate].status = "approved"
      BY <1>19, <2>0, <2>1 DEF WorkInv, Started, Relying, Repair!StartWorkOrder, Repair!StartStatement, Repair!MoveOrder, Repair!UpdateRequestStatus
    <2>3. orders[o] \in Order /\ request \in Request
      BY <2>1, <2>2, Rows DEF WorkInv, Reported
    <2>4. /\ row \in Order /\ row.estimate = orders[o].estimate /\ row.vendor = orders[o].vendor
          /\ row.risk = orders[o].risk /\ row.status # "assigned"
      BY <2>3 DEF Order
    <2>5. row.risk = "high" => row.verifiedBy # row.vendor
      BY <2>0, <2>1, <2>2, <2>3, <2>4 DEF WorkInv, Started, Relying, Order
    <2>6. request' \in Request /\ request'.estimate = request.estimate
      BY <2>1, <2>3 DEF Request
    <2>7. QED
      BY <2>1, <2>2, <2>4, <2>5, <2>6, OrderMoves
  <1>20. ASSUME NEW c \in Client, Repair!CompleteWorkOrder(c)
         PROVE  WorkInv'
    <2>0. PICK o : o = pc[c].order
      OBVIOUS
    <2> DEFINE row == [orders[o] EXCEPT !.status = "completed"]
    <2>1. /\ pc[c].op = "finish" /\ Relying(c) /\ request # None
          /\ orders' = [orders EXCEPT ![o] = row]
          /\ request' = [request EXCEPT !.status = "completed", !.estimate = request.estimate]
          /\ pc' = [pc EXCEPT ![c] = Repair!Idle]
          /\ UNCHANGED <<estimates, approvals>>
      BY <1>20, <2>0 DEF Repair!CompleteWorkOrder, Repair!Under, Repair!CompleteStatement, Repair!MoveOrder, Repair!UpdateRequestStatus, Repair!Done, Repair!Goes, WorkInv, Reported,
                Repair!Idle
    <2>2. o \in DOMAIN orders /\ estimates[orders[o].estimate].status = "approved"
      BY <1>20, <2>0, <2>1 DEF WorkInv, Started, Relying, Repair!CompleteWorkOrder, Repair!CompleteStatement, Repair!MoveOrder, Repair!UpdateRequestStatus
    <2>3. orders[o] \in Order /\ request \in Request
      BY <2>1, <2>2, Rows DEF WorkInv, Reported
    <2>4. /\ row \in Order /\ row.estimate = orders[o].estimate /\ row.vendor = orders[o].vendor
          /\ row.risk = orders[o].risk /\ row.status # "assigned"
      BY <2>3 DEF Order
    <2>5. row.risk = "high" => row.verifiedBy # row.vendor
      BY <2>0, <2>1, <2>2, <2>3, <2>4 DEF WorkInv, Started, Relying, Order
    <2>6. request' \in Request /\ request'.estimate = request.estimate
      BY <2>1, <2>3 DEF Request
    <2>7. QED
      BY <2>1, <2>2, <2>4, <2>5, <2>6, OrderMoves
  <1>21. ASSUME NEW c \in Client, Repair!VerifyWorkOrder(c)
         PROVE  WorkInv'
    <2>0. PICK o : o = pc[c].order
      OBVIOUS
    <2> DEFINE row == [orders[o] EXCEPT !.status = "verified", !.verifiedBy = pc[c].by]
    <2>1. /\ pc[c].op = "verify" /\ Relying(c) /\ request # None
          /\ orders' = [orders EXCEPT ![o] = row]
          /\ request' = request
          /\ pc' = [pc EXCEPT ![c] = Repair!Idle]
          /\ UNCHANGED <<estimates, approvals>>
      BY <1>21, <2>0 DEF Repair!VerifyWorkOrder, Repair!Under, Repair!VerifyStatement, Repair!MoveOrder, Repair!Done, Repair!Goes, WorkInv, Reported,
                Repair!Idle
    <2>2. o \in DOMAIN orders /\ estimates[orders[o].estimate].status = "approved"
      BY <1>21, <2>0, <2>1 DEF WorkInv, Started, Relying, Repair!VerifyWorkOrder, Repair!VerifyStatement, Repair!MoveOrder
    <2>3. orders[o] \in Order /\ request \in Request
      BY <2>1, <2>2, Rows DEF WorkInv, Reported
    <2>4. /\ row \in Order /\ row.estimate = orders[o].estimate /\ row.vendor = orders[o].vendor
          /\ row.risk = orders[o].risk /\ row.status # "assigned"
      BY <2>1, <2>3 DEF Order, Relying
    <2>5. row.risk = "high" => row.verifiedBy # row.vendor
      BY <2>0, <2>1, <2>2, <2>3, <2>4 DEF WorkInv, Started, Relying, Order
    <2>6. request' \in Request /\ request'.estimate = request.estimate
      BY <2>1, <2>3
    <2>7. QED
      BY <2>1, <2>2, <2>4, <2>5, <2>6, OrderMoves
  <1>22. ASSUME NEW c \in Client, Repair!RecordWarranty(c)
         PROVE  WorkInv'
    <2>0. PICK o : o = pc[c].order
      OBVIOUS
    <2> DEFINE row == [orders[o] EXCEPT !.status = "closed"]
    <2>1. /\ pc[c].op = "warranty" /\ Relying(c) /\ request # None
          /\ orders' = [orders EXCEPT ![o] = row]
          /\ request' = request
          /\ pc' = [pc EXCEPT ![c] = Repair!Idle]
          /\ UNCHANGED <<estimates, approvals>>
      BY <1>22, <2>0 DEF Repair!RecordWarranty, Repair!Under, Repair!InsertWarranty, Repair!UpdateWorkOrderStatus, Repair!Done, Repair!Goes, WorkInv, Reported,
                Repair!Idle
    <2>2. o \in DOMAIN orders /\ estimates[orders[o].estimate].status = "approved"
      BY <1>22, <2>0, <2>1 DEF WorkInv, Started, Relying, Repair!RecordWarranty, Repair!InsertWarranty, Repair!UpdateWorkOrderStatus
    <2>3. orders[o] \in Order /\ request \in Request
      BY <2>1, <2>2, Rows DEF WorkInv, Reported
    <2>4. /\ row \in Order /\ row.estimate = orders[o].estimate /\ row.vendor = orders[o].vendor
          /\ row.risk = orders[o].risk /\ row.status # "assigned"
      BY <2>3 DEF Order
    <2>5. row.risk = "high" => row.verifiedBy # row.vendor
      BY <2>0, <2>1, <2>2, <2>3, <2>4 DEF WorkInv, Started, Relying, Order
    <2>6. request' \in Request /\ request'.estimate = request.estimate
      BY <2>1, <2>3
    <2>7. QED
      BY <2>1, <2>2, <2>4, <2>5, <2>6, OrderMoves
  <1>23. ASSUME NEW c \in Client, Repair!Abandon(c)
         PROVE  WorkInv'
    <2> DEFINE frame == Repair!Idle
    <2>1. /\ pc' = [pc EXCEPT ![c] = frame]
          /\ request # None
          /\ UNCHANGED <<request, estimates, approvals, orders>>
      BY <1>23 DEF Repair!Abandon, Repair!Dropped, Repair!Done, Repair!Goes, Repair!tables, Repair!Idle, WorkInv, Reported
    <2>2. pc'[c] = frame
      BY <2>1 DEF WorkInv
    <2>3. Relying(c)'
      BY <2>2 DEF Relying, Repair!Idle
    <2>4. QED
      BY <2>1, <2>3, RelyingGoes
  <1>24. QED
    BY <1>1, <1>2, <1>3, <1>4, <1>5, <1>6, <1>7, <1>8, <1>9, <1>10, <1>11, <1>12, <1>13, <1>14,
       <1>15, <1>16, <1>17, <1>18, <1>19, <1>20, <1>21, <1>22, <1>23 DEF Repair!Next

\* Work rests on an estimate approved by another than its preparer, and is verified by another than its vendor.
THEOREM WorkCorrect == Spec => []WorkIsApproved
  <1> DEFINE Inv == part = "repair" => WorkInv
  <1>1. Init => Inv
    <2> SUFFICES ASSUME Init, part = "repair"
                 PROVE  WorkInv
      OBVIOUS
    <2>1. PICK b \in Begun : /\ request = b.request /\ estimates = b.estimates
                             /\ approvals = b.approvals /\ orders = b.orders
      BY DEF Init, Repair!Init
    <2>2. pc = [c \in Client |-> Repair!Idle]
      BY DEF Init, Repair!Init, Repair!NoRequests
    <2>3. Reported
      BY <2>1, <2>2, BegunIsApproved, Empty DEF Reported
    <2>4. \A c \in Client : Relying(c)
      BY <2>2 DEF Relying, Repair!Idle
    <2>5. \A e \in DOMAIN estimates : Decided(e)
      <3>1. Repair!RestsOnApproval(estimates, approvals, orders)
        BY <2>1, BegunIsApproved
      <3>2. QED
        BY <3>1, Zenon DEF Decided, Of, Repair!RestsOnApproval
    <2>6. \A o \in DOMAIN orders : Started(o)
      BY <2>1, BegunIsApproved DEF Started, Repair!RestsOnApproval
    <2>7. QED
      BY <2>1, <2>2, <2>3, <2>4, <2>5, <2>6, BegunIsApproved DEF WorkInv
  <1>2. Inv /\ [Next]_vars => Inv'
    <2> SUFFICES ASSUME Inv, [Next]_vars, part' = "repair"
                 PROVE  WorkInv'
      OBVIOUS
    <2>1. part = "repair" /\ WorkInv
      BY Moves
    <2>2. CASE UNCHANGED <<repair, pc, requests>>
      <3>1. UNCHANGED <<request, estimates, approvals, orders, pc>>
        BY <2>2 DEF repair
      <3>2. \A e \in DOMAIN estimates' : Decided(e)'
        BY <2>1, <3>1, DecidedUnchanged DEF WorkInv
      <3>3. QED
        BY <2>1, <3>1, <3>2 DEF WorkInv, Reported, Relying, Started
    <2>3. QED
      BY <2>1, <2>2, WorkStep, Moves
  <1>3. Inv => WorkIsApproved
    BY DEF WorkIsApproved, Repair!WorkIsApproved, Repair!RestsOnApproval, WorkInv, Of, Decided, Started
  <1>4. QED
    BY <1>1, <1>2, <1>3, PTL DEF Spec

-----------------------------------------------------------------------------
(* The vehicle, its custody and its incidents *)

\* Before there is a vehicle nothing is known of it.
Unregistered ==
  asset = None => /\ custody = <<>>
                  /\ incidents = <<>>
                  /\ \A c \in Client : pc[c] = Vehicle!Idle

\* A handover, or a review that found nothing else open, is about to set the status to
\* one that is not frozen: every other incident that is open has been recorded beside it.
\* A check that found nothing open has no incident that was open when it began.
\* A custody transaction that has begun has a time.
Watching(c) ==
  LET f == pc[c] IN
  /\ f.op \in {"handover", "return"} => f.at \in Nat \union {None}
  /\ f.op = "handover" => f.to \in Person /\ Vehicle!OpenIncidents \subseteq raced
  /\ f.op = "reviewed" => /\ f.incident \in DOMAIN incidents
                          /\ f.remaining = {} => Vehicle!OpenIncidents \ {f.incident} \subseteq raced
  /\ f.op \in {"overdue", "open", "latest"} => f.begun \subseteq DOMAIN incidents
  /\ f.op = "latest" => (f.open = {} => f.begun \intersect Vehicle!OpenIncidents = {})

\* The custody event committed last tells who has the vehicle.
Told == asset # None => asset.custodian = (IF custody = <<>> THEN None ELSE Vehicle!Holder(custody[Len(custody)]))

CustodyInv ==
  /\ DOMAIN pc = Client
  /\ now \in Nat
  /\ \A e \in DOMAIN custody : custody[e].at \in Nat
  /\ asset \in Asset \union {None}
  /\ IsTable(custody)
  /\ IsTable(incidents)
  /\ Unregistered
  /\ \A c \in Client : Watching(c)
  /\ Vehicle!FrozenWhileOpen
  /\ Told

\* Unless one was overtaken, the event that is read as the latest is the last.
LEMMA LatestIsLast ==
  ASSUME IsTable(custody), custody # <<>>, ~Vehicle!Overtaken, \A e \in DOMAIN custody : custody[e].at \in Nat
  PROVE  Vehicle!LatestCustodyEvent = Len(custody)
  <1> DEFINE Latest(e) == \A d \in DOMAIN custody : custody[d].at <= custody[e].at
  <1>1. Len(custody) \in DOMAIN custody /\ \A d \in DOMAIN custody : d # Len(custody) => d < Len(custody)
    BY TableRows, EmptyTable
  <1>2. \A d \in DOMAIN custody : d # Len(custody) => custody[d].at < custody[Len(custody)].at
    BY <1>1 DEF Vehicle!Overtaken
  <1>3. Latest(Len(custody))
    BY <1>1, <1>2
  <1>4. \A e \in DOMAIN custody : Latest(e) => e = Len(custody)
    BY <1>1, <1>2
  <1>5. QED
    BY <1>1, <1>3, <1>4 DEF Vehicle!LatestCustodyEvent

\* What a frame relies on stays when no incident is opened again, and one that is
\* recorded beside the frame is known as such.
LEMMA WatchingStays ==
  ASSUME \A d \in Client : Watching(d) /\ pc'[d] \in {pc[d], Vehicle!Idle},
         DOMAIN incidents \subseteq DOMAIN incidents',
         raced \subseteq raced',
         Vehicle!OpenIncidents' \intersect DOMAIN incidents \subseteq Vehicle!OpenIncidents,
         Vehicle!Unfreezing => Vehicle!OpenIncidents' \subseteq Vehicle!OpenIncidents \union raced'
  PROVE  \A d \in Client : Watching(d)'
  <1> SUFFICES ASSUME NEW d \in Client
               PROVE  Watching(d)'
    OBVIOUS
  <1>1. CASE pc'[d] = Vehicle!Idle
    BY <1>1 DEF Watching, Vehicle!Idle
  <1>2. CASE pc'[d] = pc[d]
    <2>1. Watching(d)
      OBVIOUS
    <2>2. pc[d].op \in {"handover", "reviewed"} => Vehicle!OpenIncidents' \subseteq Vehicle!OpenIncidents \union raced'
      BY DEF Vehicle!Unfreezing
    <2>3. QED
      BY <1>2, <2>1, <2>2 DEF Watching
  <1>3. QED
    BY <1>1, <1>2

\* One frame goes on, the tables stay.
LEMMA WatchingGoes ==
  ASSUME CustodyInv, NEW c \in Client, NEW frame, pc' = [pc EXCEPT ![c] = frame],
         asset # None, now' \in Nat,
         UNCHANGED <<asset, custody, incidents, raced, answer>>,
         Watching(c)'
  PROVE  CustodyInv'
  <1>1. \A d \in Client : Watching(d)'
    <2> SUFFICES ASSUME NEW d \in Client \ {c}
                 PROVE  Watching(d)'
      OBVIOUS
    <2>1. pc'[d] = pc[d] /\ Watching(d)
      BY DEF CustodyInv
    <2>2. QED
      BY <2>1 DEF Watching, Vehicle!OpenIncidents
  <1>2. QED
    BY <1>1 DEF CustodyInv, Unregistered, Vehicle!FrozenWhileOpen, Vehicle!OpenIncidents,
                Vehicle!IsFrozen, Told

\* Whatever is about to set the status of the vehicle has seen every open incident, or
\* the incident is known to have been recorded beside it.
LEMMA CustodyStep ==
  ASSUME CustodyInv, Vehicle!Next
  PROVE  CustodyInv'
  <1> USE NoneIsNull
  <1>1. CASE Vehicle!handleCreateAsset
    <2>1. /\ asset = None
          /\ asset' = [custodian |-> None, status |-> "available"]
          /\ UNCHANGED <<custody, now, incidents, raced, answer, pc>>
      BY <1>1 DEF Vehicle!handleCreateAsset, Vehicle!CreateAsset, Vehicle!Served, Vehicle!InsertAsset
    <2>2. asset' \in Asset /\ asset'.custodian = None
      BY <2>1 DEF Asset
    <2>3. custody = <<>> /\ incidents = <<>>
      BY <2>1 DEF CustodyInv, Unregistered
    <2>4. Vehicle!OpenIncidents' = {} /\ Vehicle!OpenIncidents = {}
      BY <2>1, <2>3, EmptyTable DEF Vehicle!OpenIncidents
    <2>5. \A d \in Client : Watching(d)'
      BY <2>1, <2>4 DEF CustodyInv, Watching
    <2>6. asset' # None
      BY <2>2
    <2>7. QED
      BY <2>1, <2>2, <2>3, <2>4, <2>5, <2>6 DEF CustodyInv, Unregistered, Vehicle!FrozenWhileOpen,
         Told
  <1>2. CASE Vehicle!handleRecordIncident
    <2>0. PICK new : new = Len(incidents) + 1
      OBVIOUS
    <2>1. /\ asset # None
          /\ incidents' = Append(incidents, "open")
          /\ asset' = [asset EXCEPT !.status = "frozen"]
          /\ raced' = IF Vehicle!Unfreezing THEN raced \union {Len(incidents')} ELSE raced
          /\ UNCHANGED <<custody, now, answer, pc>>
      BY <1>2 DEF Vehicle!handleRecordIncident, Vehicle!RecordIncident, Vehicle!Served, Vehicle!InsertIncident,
                Vehicle!FreezeAsset
    <2>2. /\ IsTable(incidents') /\ Len(incidents') = new /\ new \notin DOMAIN incidents
          /\ DOMAIN incidents' = DOMAIN incidents \union {new}
          /\ \A i \in DOMAIN incidents : incidents'[i] = incidents[i]
          /\ incidents'[new] = "open"
      BY <2>0, <2>1, TableInserted DEF CustodyInv
    <2>3. Vehicle!OpenIncidents' = Vehicle!OpenIncidents \union {new}
      BY <2>2 DEF Vehicle!OpenIncidents
    <2>4. asset \in Asset
      BY <2>1 DEF CustodyInv
    <2>5. asset' \in Asset /\ asset'.custodian = asset.custodian /\ asset'.status = "frozen"
      BY <2>1, <2>4 DEF Asset
    <2>6. \A d \in Client : Watching(d)'
      <3>1. Vehicle!Unfreezing => new \in raced'
        BY <2>1, <2>2
      <3>2. raced \subseteq raced'
        BY <2>1
      <3>3. Vehicle!OpenIncidents' \intersect DOMAIN incidents \subseteq Vehicle!OpenIncidents
        BY <2>2, <2>3
      <3>4. QED
        BY <2>1, <2>2, <2>3, <3>1, <3>2, <3>3, WatchingStays DEF CustodyInv
    <2>7. asset' # None /\ asset # None
      BY <2>1, <2>5
    <2>8. Told'
      BY <2>1, <2>5, <2>7 DEF CustodyInv, Told
    <2>9. Vehicle!FrozenWhileOpen'
      BY <2>1, <2>5 DEF CustodyInv, Vehicle!FrozenWhileOpen, Vehicle!IsFrozen
    <2>10. QED
      BY <2>1, <2>2, <2>5, <2>6, <2>7, <2>8, <2>9 DEF CustodyInv, Unregistered
  <1>3. ASSUME NEW b \in BOOLEAN, Vehicle!handleScheduleSafetyItem(b)
        PROVE  CustodyInv'
    <2>1. UNCHANGED <<asset, custody, now, incidents, raced, answer, pc>>
      BY <1>3 DEF Vehicle!handleScheduleSafetyItem, Vehicle!ScheduleSafetyItem, Vehicle!Served
    <2>2. QED
      BY <2>1 DEF CustodyInv, Unregistered, Watching, Vehicle!FrozenWhileOpen, Vehicle!OpenIncidents,
         Vehicle!IsFrozen, Told
  <1>4. ASSUME NEW b \in BOOLEAN, Vehicle!handleRecordInspection(b)
        PROVE  CustodyInv'
    <2>1. UNCHANGED <<asset, custody, now, incidents, raced, answer, pc>>
      BY <1>4 DEF Vehicle!handleRecordInspection, Vehicle!RecordInspection, Vehicle!Served
    <2>2. QED
      BY <2>1 DEF CustodyInv, Unregistered, Watching, Vehicle!FrozenWhileOpen, Vehicle!OpenIncidents,
         Vehicle!IsFrozen, Told
  <1>5. ASSUME NEW i \in DOMAIN safetyItems, Vehicle!handleCompleteSafetyItem(i)
        PROVE  CustodyInv'
    <2>1. UNCHANGED <<asset, custody, now, incidents, raced, answer, pc>>
      BY <1>5 DEF Vehicle!handleCompleteSafetyItem, Vehicle!CompleteSafetyItem, Vehicle!Served
    <2>2. QED
      BY <2>1 DEF CustodyInv, Unregistered, Watching, Vehicle!FrozenWhileOpen, Vehicle!OpenIncidents,
         Vehicle!IsFrozen, Told
  <1>6. ASSUME NEW c \in Client, NEW from \in Person \union {None}, NEW to \in Person,
     Vehicle!handleHandover(c, from, to)
        PROVE  CustodyInv'
    <2> DEFINE frame == [op |-> "handover", from |-> from, to |-> to, at |-> None]
    <2>1. /\ pc' = [pc EXCEPT ![c] = frame]
          /\ asset # None
          /\ UNCHANGED <<asset, custody, now, incidents, raced, answer>>
      BY <1>6 DEF Vehicle!handleHandover, Vehicle!Begin, Vehicle!tables, CustodyInv, Unregistered, Vehicle!Idle
    <2>2. pc'[c] = frame
      BY <2>1 DEF CustodyInv
    <2>3. Watching(c)'
      BY <1>6, <2>1, <2>2 DEF Vehicle!handleHandover, Watching, CustodyInv, Vehicle!OpenIncidents, Vehicle!IsFrozen, Vehicle!FrozenWhileOpen
    <2>4. QED
      BY <2>1, <2>3, WatchingGoes DEF CustodyInv
  <1>7. ASSUME NEW c \in Client, NEW worker \in Person, Vehicle!handleCollectLocation(c, worker)
        PROVE  CustodyInv'
    <2> DEFINE frame == [op |-> "locate", worker |-> worker]
    <2>1. /\ pc' = [pc EXCEPT ![c] = frame]
          /\ asset # None
          /\ UNCHANGED <<asset, custody, now, incidents, raced, answer>>
      BY <1>7 DEF Vehicle!handleCollectLocation, Vehicle!Begin, Vehicle!tables, CustodyInv, Unregistered, Vehicle!Idle
    <2>2. pc'[c] = frame
      BY <2>1 DEF CustodyInv
    <2>3. Watching(c)'
      BY <1>7, <2>1, <2>2 DEF Vehicle!handleCollectLocation, Watching, CustodyInv, Vehicle!OpenIncidents, Vehicle!IsFrozen
    <2>4. QED
      BY <2>1, <2>3, WatchingGoes DEF CustodyInv
  <1>8. ASSUME NEW c \in Client, NEW i \in DOMAIN incidents, Vehicle!handleReviewIncident(c, i)
        PROVE  CustodyInv'
    <2> DEFINE frame == [op |-> "reviewed", incident |-> i, remaining |-> Vehicle!CountOpenIncidents(i)]
    <2>1. /\ pc' = [pc EXCEPT ![c] = frame]
          /\ asset # None
          /\ UNCHANGED <<asset, custody, now, incidents, raced, answer>>
      BY <1>8 DEF Vehicle!handleReviewIncident, Vehicle!Begin, Vehicle!tables, CustodyInv, Unregistered, Vehicle!Idle
    <2>2. pc'[c] = frame
      BY <2>1 DEF CustodyInv
    <2>3. Watching(c)'
      BY <1>8, <2>1, <2>2 DEF Vehicle!handleReviewIncident, Watching, CustodyInv, Vehicle!OpenIncidents, Vehicle!IsFrozen, Vehicle!CountOpenIncidents
    <2>4. QED
      BY <2>1, <2>3, WatchingGoes DEF CustodyInv
  <1>9. ASSUME NEW c \in Client, NEW to \in Person \union {None}, Vehicle!handleReturn(c, to)
        PROVE  CustodyInv'
    <2> DEFINE frame == [op |-> "return", from |-> asset.custodian, to |-> to, at |-> None]
    <2>1. /\ pc' = [pc EXCEPT ![c] = frame]
          /\ asset # None
          /\ UNCHANGED <<asset, custody, now, incidents, raced, answer>>
      BY <1>9 DEF Vehicle!handleReturn, Vehicle!Begin, Vehicle!tables, CustodyInv, Unregistered, Vehicle!Idle
    <2>2. pc'[c] = frame
      BY <2>1 DEF CustodyInv
    <2>3. Watching(c)'
      BY <1>9, <2>1, <2>2 DEF Vehicle!handleReturn, Watching, CustodyInv, Vehicle!OpenIncidents, Vehicle!IsFrozen
    <2>4. QED
      BY <2>1, <2>3, WatchingGoes DEF CustodyInv
  <1>10. ASSUME NEW c \in Client, Vehicle!handleDispatchEligibility(c)
         PROVE  CustodyInv'
    <2> DEFINE frame == [op |-> "overdue", row |-> asset, begun |-> Vehicle!OpenIncidents]
    <2>1. /\ pc' = [pc EXCEPT ![c] = frame]
          /\ asset # None
          /\ UNCHANGED <<asset, custody, now, incidents, raced, answer>>
      BY <1>10 DEF Vehicle!handleDispatchEligibility, Vehicle!Begin, Vehicle!tables, CustodyInv, Unregistered, Vehicle!Idle
    <2>2. pc'[c] = frame
      BY <2>1 DEF CustodyInv
    <2>3. Watching(c)'
      BY <1>10, <2>1, <2>2 DEF Vehicle!handleDispatchEligibility, Watching, CustodyInv, Vehicle!OpenIncidents, Vehicle!IsFrozen
    <2>4. QED
      BY <2>1, <2>3, WatchingGoes DEF CustodyInv
  <1>11. ASSUME NEW c \in Client, Vehicle!Handover(c)
         PROVE  CustodyInv'
    <2> DEFINE event == [type |-> "handover", from |-> pc[c].from, to |-> pc[c].to, at |-> pc[c].at]
    <2>1. /\ pc[c].op = "handover" /\ pc[c].at # None /\ Watching(c) /\ asset # None
          /\ custody' = Append(custody, event)
          /\ asset' = [custodian |-> pc[c].to, status |-> "assigned"]
          /\ pc' = [pc EXCEPT ![c] = Vehicle!Idle]
          /\ UNCHANGED <<now, incidents, raced, answer>>
      BY <1>11 DEF Vehicle!Handover, Vehicle!Under, Vehicle!InsertCustodyEvent, Vehicle!SetCustodian, Vehicle!Done,
                Vehicle!Goes, CustodyInv, Unregistered, Vehicle!Idle
    <2>2. /\ IsTable(custody') /\ Len(custody') = Len(custody) + 1 /\ Len(custody) \in Nat
          /\ custody'[Len(custody')] = event
          /\ \A e \in DOMAIN custody' : custody'[e].at \in Nat
      <3>1. event.at \in Nat
        BY <2>1 DEF Watching
      <3>2. /\ IsTable(custody') /\ Len(custody') = Len(custody) + 1 /\ Len(custody) \in Nat
            /\ DOMAIN custody' = DOMAIN custody \union {Len(custody) + 1}
            /\ \A e \in DOMAIN custody : custody'[e] = custody[e]
            /\ custody'[Len(custody) + 1] = event
        BY <2>1, TableInserted, TableRows DEF CustodyInv
      <3>3. \A e \in DOMAIN custody : custody[e].at \in Nat
        BY DEF CustodyInv
      <3>4. QED
        BY <3>1, <3>2, <3>3
    <2>3. custody' # <<>>
      BY <2>2, EmptyTable
    <2>4. asset \in Asset
      BY <2>1 DEF CustodyInv
    <2>5. asset' \in Asset /\ asset'.custodian = Vehicle!Holder(event)
      BY <2>1, <2>4 DEF Asset, Watching, Vehicle!Holder
    <2>6. Told'
      BY <2>2, <2>3, <2>5 DEF Told
    <2>7. Vehicle!FrozenWhileOpen'
      BY <2>1, <2>4 DEF CustodyInv, Vehicle!FrozenWhileOpen, Vehicle!OpenIncidents, Vehicle!IsFrozen, Watching, Asset
    <2>8. \A d \in Client : Watching(d)'
      BY <2>1, WatchingStays DEF CustodyInv, Vehicle!OpenIncidents
    <2>9. asset' # None
      BY <2>5
    <2>10. QED
      BY <2>1, <2>2, <2>5, <2>6, <2>7, <2>8, <2>9 DEF CustodyInv, Unregistered
  <1>12. ASSUME NEW c \in Client, Vehicle!Return(c)
         PROVE  CustodyInv'
    <2> DEFINE event == [type |-> "return", from |-> pc[c].from, to |-> pc[c].to, at |-> pc[c].at]
    <2>1. /\ pc[c].op = "return" /\ pc[c].at # None /\ Watching(c) /\ asset # None
          /\ custody' = Append(custody, event)
          /\ asset' = [custodian |-> None,
                       status |-> IF asset.status = "assigned" THEN "available" ELSE asset.status]
          /\ pc' = [pc EXCEPT ![c] = Vehicle!Idle]
          /\ UNCHANGED <<now, incidents, raced, answer>>
      BY <1>12 DEF Vehicle!Return, Vehicle!Under, Vehicle!InsertCustodyEvent, Vehicle!ClearCustodian, Vehicle!Done,
                Vehicle!Goes, CustodyInv, Unregistered, Vehicle!Idle
    <2>2. /\ IsTable(custody') /\ Len(custody') = Len(custody) + 1 /\ Len(custody) \in Nat
          /\ custody'[Len(custody')] = event
          /\ \A e \in DOMAIN custody' : custody'[e].at \in Nat
      <3>1. event.at \in Nat
        BY <2>1 DEF Watching
      <3>2. /\ IsTable(custody') /\ Len(custody') = Len(custody) + 1 /\ Len(custody) \in Nat
            /\ DOMAIN custody' = DOMAIN custody \union {Len(custody) + 1}
            /\ \A e \in DOMAIN custody : custody'[e] = custody[e]
            /\ custody'[Len(custody) + 1] = event
        BY <2>1, TableInserted, TableRows DEF CustodyInv
      <3>3. \A e \in DOMAIN custody : custody[e].at \in Nat
        BY DEF CustodyInv
      <3>4. QED
        BY <3>1, <3>2, <3>3
    <2>3. custody' # <<>>
      BY <2>2, EmptyTable
    <2>4. asset \in Asset
      BY <2>1 DEF CustodyInv
    <2>5. asset' \in Asset /\ asset'.custodian = Vehicle!Holder(event)
      BY <2>1, <2>4 DEF Asset, Watching, Vehicle!Holder
    <2>6. Told'
      BY <2>2, <2>3, <2>5 DEF Told
    <2>7. Vehicle!FrozenWhileOpen'
      BY <2>1, <2>4 DEF CustodyInv, Vehicle!FrozenWhileOpen, Vehicle!OpenIncidents, Vehicle!IsFrozen, Watching, Asset
    <2>8. \A d \in Client : Watching(d)'
      BY <2>1, WatchingStays DEF CustodyInv, Vehicle!OpenIncidents
    <2>9. asset' # None
      BY <2>5
    <2>10. QED
      BY <2>1, <2>2, <2>5, <2>6, <2>7, <2>8, <2>9 DEF CustodyInv, Unregistered
  <1>13. ASSUME NEW c \in Client, Vehicle!CollectLocation(c)
         PROVE  CustodyInv'
    <2> DEFINE frame == Vehicle!Idle
    <2>1. /\ pc' = [pc EXCEPT ![c] = frame]
          /\ asset # None
          /\ UNCHANGED <<asset, custody, now, incidents, raced, answer>>
      BY <1>13 DEF Vehicle!CollectLocation, Vehicle!Goes, Vehicle!Under, Vehicle!Done, Vehicle!tables, CustodyInv, Unregistered, Vehicle!Idle
    <2>2. pc'[c] = frame
      BY <2>1 DEF CustodyInv
    <2>3. Watching(c)'
      BY <1>13, <2>1, <2>2 DEF Vehicle!CollectLocation, Watching, CustodyInv, Vehicle!OpenIncidents, Vehicle!IsFrozen, Vehicle!Idle
    <2>4. QED
      BY <2>1, <2>3, WatchingGoes DEF CustodyInv
  <1>14. ASSUME NEW c \in Client, Vehicle!ReviewIncident(c)
         PROVE  CustodyInv'
    <2>0. PICK i : i = pc[c].incident
      OBVIOUS
    <2>1. /\ pc[c].op = "reviewed" /\ Watching(c) /\ asset # None
          /\ incidents' = [incidents EXCEPT ![i] = "resolved"]
          /\ IF pc[c].remaining = {} THEN asset' = [asset EXCEPT !.status = "available"] ELSE asset' = asset
          /\ pc' = [pc EXCEPT ![c] = Vehicle!Idle]
          /\ UNCHANGED <<custody, now, raced, answer>>
      BY <1>14, <2>0 DEF Vehicle!ReviewIncident, Vehicle!Under, Vehicle!ResolveIncident, Vehicle!UnfreezeAsset,
                      Vehicle!Done, Vehicle!Goes, CustodyInv, Unregistered, Vehicle!Idle
    <2>2. i \in DOMAIN incidents
      BY <2>0, <2>1 DEF Watching
    <2>3. /\ IsTable(incidents') /\ DOMAIN incidents' = DOMAIN incidents
          /\ \A j \in DOMAIN incidents : incidents'[j] = IF j = i THEN "resolved" ELSE incidents[j]
      BY <2>1, <2>2, TableUpdated DEF CustodyInv
    <2>4. Vehicle!OpenIncidents' = Vehicle!OpenIncidents \ {i}
      BY <2>3 DEF Vehicle!OpenIncidents
    <2>5. asset \in Asset
      BY <2>1 DEF CustodyInv
    <2>6. asset' \in Asset /\ asset'.custodian = asset.custodian
      BY <2>1, <2>5 DEF Asset
    <2>7. \A d \in Client : Watching(d)'
      BY <2>1, <2>3, <2>4, WatchingStays DEF CustodyInv
    <2>8. Vehicle!FrozenWhileOpen'
      BY <2>0, <2>1, <2>4 DEF CustodyInv, Vehicle!FrozenWhileOpen, Vehicle!IsFrozen, Watching
    <2>9. asset' # None
      BY <2>6
    <2>10. Told'
      BY <2>1, <2>6 DEF CustodyInv, Told
    <2>11. QED
      BY <2>1, <2>3, <2>6, <2>7, <2>8, <2>9, <2>10 DEF CustodyInv, Unregistered
  <1>15. ASSUME NEW c \in Client, Vehicle!ListOverdueSafetyItems(c)
         PROVE  CustodyInv'
    <2> DEFINE frame == [op |-> "open", row |-> pc[c].row, begun |-> pc[c].begun,
                        overdue |-> {i \in DOMAIN safetyItems : safetyItems[i].status = "open" /\ safetyItems[i].due}]
    <2>1. /\ pc' = [pc EXCEPT ![c] = frame]
          /\ asset # None
          /\ UNCHANGED <<asset, custody, now, incidents, raced, answer>>
      BY <1>15 DEF Vehicle!ListOverdueSafetyItems, Vehicle!Goes, Vehicle!Under, Vehicle!tables, CustodyInv, Unregistered, Vehicle!Idle
    <2>2. pc'[c] = frame
      BY <2>1 DEF CustodyInv
    <2>3. Watching(c)'
      BY <1>15, <2>1, <2>2 DEF Vehicle!ListOverdueSafetyItems, Watching, CustodyInv, Vehicle!OpenIncidents, Vehicle!IsFrozen, Vehicle!Under
    <2>4. QED
      BY <2>1, <2>3, WatchingGoes DEF CustodyInv
  <1>16. ASSUME NEW c \in Client, Vehicle!ListOpenIncidents(c)
         PROVE  CustodyInv'
    <2> DEFINE frame == [op |-> "latest", row |-> pc[c].row, begun |-> pc[c].begun, overdue |-> pc[c].overdue,
                        open |-> Vehicle!OpenIncidents]
    <2>1. /\ pc' = [pc EXCEPT ![c] = frame]
          /\ asset # None
          /\ UNCHANGED <<asset, custody, now, incidents, raced, answer>>
      BY <1>16 DEF Vehicle!ListOpenIncidents, Vehicle!Goes, Vehicle!Under, Vehicle!tables, CustodyInv, Unregistered, Vehicle!Idle
    <2>2. pc'[c] = frame
      BY <2>1 DEF CustodyInv
    <2>3. Watching(c)'
      BY <1>16, <2>1, <2>2 DEF Vehicle!ListOpenIncidents, Watching, CustodyInv, Vehicle!OpenIncidents, Vehicle!IsFrozen, Vehicle!Under
    <2>4. QED
      BY <2>1, <2>3, WatchingGoes DEF CustodyInv
  <1>17. ASSUME NEW c \in Client, Vehicle!DispatchEligibility(c)
         PROVE  CustodyInv'
    <2> DEFINE f == pc[c]
    <2>1. /\ f.op = "latest" /\ Watching(c) /\ asset # None
          /\ answer' = [allowed |-> Vehicle!EvaluateDispatch(f.row, f.overdue, f.open, Vehicle!LatestInspection),
                        held |-> f.begun \intersect Vehicle!OpenIncidents # {}]
          /\ pc' = [pc EXCEPT ![c] = Vehicle!Idle]
          /\ UNCHANGED <<asset, custody, now, incidents, raced>>
      BY <1>17 DEF Vehicle!DispatchEligibility, Vehicle!Under, Vehicle!Done, Vehicle!Goes, Vehicle!tables,
                CustodyInv, Unregistered, Vehicle!Idle
    <2>2. ~(answer'.allowed /\ answer'.held)
      BY <2>1 DEF Watching, Vehicle!EvaluateDispatch
    <2>3. \A d \in Client : Watching(d)'
      BY <2>1, WatchingStays DEF CustodyInv, Vehicle!OpenIncidents
    <2>4. Vehicle!FrozenWhileOpen'
      BY <2>1, <2>2 DEF CustodyInv, Vehicle!FrozenWhileOpen, Vehicle!IsFrozen, Vehicle!OpenIncidents
    <2>5. QED
      BY <2>1, <2>3, <2>4 DEF CustodyInv, Unregistered, Told
  <1>18. ASSUME NEW c \in Client, Vehicle!Abandon(c)
         PROVE  CustodyInv'
    <2> DEFINE frame == Vehicle!Idle
    <2>1. /\ pc' = [pc EXCEPT ![c] = frame]
          /\ asset # None
          /\ UNCHANGED <<asset, custody, now, incidents, raced, answer>>
      BY <1>18 DEF Vehicle!Abandon, Vehicle!Goes, Vehicle!Under, Vehicle!Done, Vehicle!Dropped, Vehicle!tables, CustodyInv, Unregistered, Vehicle!Idle
    <2>2. pc'[c] = frame
      BY <2>1 DEF CustodyInv
    <2>3. Watching(c)'
      BY <1>18, <2>1, <2>2 DEF Vehicle!Abandon, Watching, CustodyInv, Vehicle!OpenIncidents, Vehicle!IsFrozen, Vehicle!Idle
    <2>4. QED
      BY <2>1, <2>3, WatchingGoes DEF CustodyInv
  <1>19. ASSUME NEW c \in Client, Vehicle!BeginTx(c)
         PROVE  CustodyInv'
    <2> DEFINE frame == [op |-> pc[c].op, from |-> pc[c].from, to |-> pc[c].to, at |-> now']
    <2>1. /\ pc[c].op \in {"handover", "return"} /\ Watching(c) /\ asset # None
          /\ pc' = [pc EXCEPT ![c] = frame]
          /\ now' = now + 1
          /\ UNCHANGED <<asset, custody, incidents, raced, answer>>
      BY <1>19 DEF Vehicle!BeginTx, Vehicle!Goes, Vehicle!tables, CustodyInv, Unregistered, Vehicle!Idle
    <2>2. pc'[c] = frame /\ now' \in Nat
      BY <2>1 DEF CustodyInv
    <2>3. Watching(c)'
      BY <2>1, <2>2 DEF Watching, Vehicle!OpenIncidents
    <2>4. QED
      BY <2>1, <2>2, <2>3, WatchingGoes
  <1>20. QED
    BY <1>1, <1>2, <1>3, <1>4, <1>5, <1>6, <1>7, <1>8, <1>9, <1>10, <1>11, <1>12, <1>13, <1>14,
       <1>15, <1>16, <1>17, <1>18, <1>19 DEF Vehicle!Next

\* An incident freezes the vehicle unless it was recorded while a handover or a review was under way, and whoever
\* hands the vehicle over, the custody event committed last tells who has it; the one read as the latest only
\* if transactions committed in the order they began in (fleet/service.go, fleet/store.go: LatestCustodyEvent).
THEOREM CustodyCorrect == Spec => []CustodyIsTrue
  <1> DEFINE Inv == part = "vehicle" => CustodyInv
  <1>1. Init => Inv
    <2> SUFFICES ASSUME Init
                 PROVE  CustodyInv
      OBVIOUS
    <2>1. /\ asset = None /\ custody = <<>> /\ incidents = <<>> /\ answer = None /\ now = 0
          /\ pc = [c \in Client |-> Vehicle!Idle]
      BY DEF Init, Vehicle!Init, Vehicle!NoRequests
    <2>2. Vehicle!OpenIncidents = {}
      BY <2>1, EmptyTable DEF Vehicle!OpenIncidents
    <2>3. \A c \in Client : Watching(c)
      BY <2>1 DEF Watching, Vehicle!Idle
    <2>4. QED
      BY <2>1, <2>2, <2>3, EmptyTable DEF CustodyInv, Unregistered, Vehicle!FrozenWhileOpen,
         Told
  <1>2. Inv /\ [Next]_vars => Inv'
    <2> SUFFICES ASSUME Inv, [Next]_vars, part' = "vehicle"
                 PROVE  CustodyInv'
      OBVIOUS
    <2>1. part = "vehicle" /\ CustodyInv
      BY Moves
    <2>2. CASE UNCHANGED <<vehicle, pc, requests>>
      BY <2>1, <2>2 DEF vehicle, CustodyInv, Unregistered, Watching, Vehicle!FrozenWhileOpen, Vehicle!OpenIncidents,
                         Vehicle!IsFrozen, Told
    <2>3. QED
      BY <2>1, <2>2, CustodyStep, Moves
  <1>3. Inv => CustodyIsTrue
    <2> SUFFICES ASSUME CustodyInv
                 PROVE  Vehicle!FrozenWhileOpen /\ Vehicle!CustodyTellsCustodian
      BY DEF CustodyIsTrue, Vehicle!CustodyIsTrue
    <2>1. custody # <<>> /\ ~Vehicle!Overtaken => Vehicle!LatestCustodyEvent = Len(custody)
      BY LatestIsLast DEF CustodyInv
    <2>2. QED
      BY <2>1 DEF CustodyInv, Told, Vehicle!CustodyTellsCustodian
  <1>4. QED
    BY <1>1, <1>2, <1>3, PTL DEF Spec

-----------------------------------------------------------------------------
(* The versions of the package *)

\* What an activation has superseded is all that was active, but for versions known
\* to have been activated beside it.
Replacing(c) ==
  LET f == pc[c] IN
  /\ f.op \in {"activate", "activating", "reject"} => f.version \in DOMAIN versions
  /\ f.op = "activating" => Package!Active \ f.superseded \subseteq activatedBeside

VersionsInv ==
  /\ DOMAIN pc = Client
  /\ IsTable(versions)
  /\ \A v \in DOMAIN versions : DOMAIN versions[v] = {"number", "status", "lines"}
  /\ \A c \in Client : Replacing(c)
  /\ Package!PackageIsReplaced

\* One frame goes on, the versions stay.
LEMMA ReplacingGoes ==
  ASSUME VersionsInv, NEW c \in Client, NEW frame, pc' = [pc EXCEPT ![c] = frame],
         UNCHANGED <<versions, activatedBeside>>,
         Replacing(c)'
  PROVE  VersionsInv'
  <1>1. \A d \in Client : Replacing(d)'
    <2> SUFFICES ASSUME NEW d \in Client \ {c}
                 PROVE  Replacing(d)'
      OBVIOUS
    <2>1. pc'[d] = pc[d] /\ Replacing(d)
      BY DEF VersionsInv
    <2>2. QED
      BY <2>1 DEF Replacing, Package!Active
  <1>2. QED
    BY <1>1 DEF VersionsInv, Package!PackageIsReplaced, Package!Active

\* A version is inserted, or moved on otherwise than to active or from it.
LEMMA ReplacingStays ==
  ASSUME VersionsInv, NEW c \in Client, pc' = [pc EXCEPT ![c] = Package!Idle],
         activatedBeside' = activatedBeside,
         DOMAIN versions \subseteq DOMAIN versions',
         Package!Active' = Package!Active
  PROVE  \A d \in Client : Replacing(d)'
  <1> SUFFICES ASSUME NEW d \in Client
               PROVE  Replacing(d)'
    OBVIOUS
  <1>1. pc'[d] = Package!Idle \/ pc'[d] = pc[d]
    BY DEF VersionsInv
  <1>2. CASE pc'[d] = Package!Idle
    BY <1>2 DEF Replacing, Package!Idle
  <1>3. CASE pc'[d] = pc[d]
    BY <1>3 DEF VersionsInv, Replacing
  <1>4. QED
    BY <1>1, <1>2, <1>3

\* An activation leaves active its own version and what came in beside it.
LEMMA VersionsStep ==
  ASSUME VersionsInv, Package!Next
  PROVE  VersionsInv'
  <1>1. ASSUME NEW item \in [sku : Sku, status : {"active", "disabled"}],
     Package!handleCreateItem(item)
        PROVE  VersionsInv'
    <2>1. UNCHANGED <<versions, activatedBeside, pc>>
      BY <1>1 DEF Package!handleCreateItem, Package!CreateCatalogItem, Package!Served
    <2>2. QED
      BY <2>1 DEF VersionsInv, Replacing, Package!PackageIsReplaced, Package!Active
  <1>2. ASSUME NEW i \in DOMAIN items, Package!handleAddClaimEvidence(i)
        PROVE  VersionsInv'
    <2>1. UNCHANGED <<versions, activatedBeside, pc>>
      BY <1>2 DEF Package!handleAddClaimEvidence, Package!AddClaimEvidence, Package!Served
    <2>2. QED
      BY <2>1 DEF VersionsInv, Replacing, Package!PackageIsReplaced, Package!Active
  <1>3. ASSUME NEW bundle \in Package!Lines, Package!handleCreateTemplate(bundle)
        PROVE  VersionsInv'
    <2>1. UNCHANGED <<versions, activatedBeside, pc>>
      BY <1>3 DEF Package!handleCreateTemplate, Package!CreatePackageTemplate, Package!Served
    <2>2. QED
      BY <2>1 DEF VersionsInv, Replacing, Package!PackageIsReplaced, Package!Active
  <1>4. ASSUME NEW c \in Client, NEW direct \in Package!Lines \union {<<>>}, NEW bundles \in
     Package!SeqOf(DOMAIN templates, 1), Package!handleCreatePackageVersion(c, direct, bundles)
        PROVE  VersionsInv'
    <2> DEFINE frame == [op |-> "create", lines |-> Package!resolvePackageLines(direct, bundles)]
    <2>1. /\ pc' = [pc EXCEPT ![c] = frame]
          /\ UNCHANGED <<versions, activatedBeside>>
      BY <1>4 DEF Package!handleCreatePackageVersion, Package!Begin, Package!tables
    <2>2. pc'[c] = frame
      BY <2>1 DEF VersionsInv
    <2>3. Replacing(c)'
      BY <1>4, <2>1, <2>2 DEF Package!handleCreatePackageVersion, Replacing, VersionsInv, Package!Active
    <2>4. QED
      BY <2>1, <2>3, ReplacingGoes
  <1>5. ASSUME NEW c \in Client, NEW v \in DOMAIN versions, Package!handleActivatePackageVersion(c,
     v)
        PROVE  VersionsInv'
    <2> DEFINE frame == [op |-> "activate", version |-> v]
    <2>1. /\ pc' = [pc EXCEPT ![c] = frame]
          /\ UNCHANGED <<versions, activatedBeside>>
      BY <1>5 DEF Package!handleActivatePackageVersion, Package!Begin, Package!tables
    <2>2. pc'[c] = frame
      BY <2>1 DEF VersionsInv
    <2>3. Replacing(c)'
      BY <1>5, <2>1, <2>2 DEF Package!handleActivatePackageVersion, Replacing, VersionsInv, Package!Active
    <2>4. QED
      BY <2>1, <2>3, ReplacingGoes
  <1>6. ASSUME NEW c \in Client, NEW v \in DOMAIN versions, Package!handleRejectPackageVersion(c, v)
        PROVE  VersionsInv'
    <2> DEFINE frame == [op |-> "reject", version |-> v]
    <2>1. /\ pc' = [pc EXCEPT ![c] = frame]
          /\ UNCHANGED <<versions, activatedBeside>>
      BY <1>6 DEF Package!handleRejectPackageVersion, Package!Begin, Package!tables
    <2>2. pc'[c] = frame
      BY <2>1 DEF VersionsInv
    <2>3. Replacing(c)'
      BY <1>6, <2>1, <2>2 DEF Package!handleRejectPackageVersion, Replacing, VersionsInv, Package!Active
    <2>4. QED
      BY <2>1, <2>3, ReplacingGoes
  <1>7. ASSUME NEW c \in Client, Package!CreatePropertyPackageVersion(c)
        PROVE  VersionsInv'
    <2>0. PICK new : new = Len(versions) + 1
      OBVIOUS
    <2> DEFINE row == [number |-> Package!NextVersionNumber, status |-> "draft", lines |-> pc[c].lines]
    <2>1. /\ versions' = Append(versions, row)
          /\ pc' = [pc EXCEPT ![c] = Package!Idle]
          /\ activatedBeside' = activatedBeside
      BY <1>7 DEF Package!CreatePropertyPackageVersion, Package!InsertPackageVersion, Package!Done, Package!Goes
    <2>2. /\ IsTable(versions') /\ new \notin DOMAIN versions
          /\ DOMAIN versions' = DOMAIN versions \union {new}
          /\ \A v \in DOMAIN versions : versions'[v] = versions[v]
          /\ versions'[new] = row
      BY <2>0, <2>1, TableInserted DEF VersionsInv
    <2>3. row.status = "draft" /\ DOMAIN row = {"number", "status", "lines"}
      OBVIOUS
    <2>4. Package!Active' = Package!Active
      BY <2>2, <2>3 DEF Package!Active
    <2>5. \A d \in Client : Replacing(d)'
      BY <2>1, <2>2, <2>4, ReplacingStays
    <2>6. Package!PackageIsReplaced'
      BY <2>1, <2>2, <2>3, <2>4 DEF VersionsInv, Package!PackageIsReplaced
    <2>7. QED
      BY <2>1, <2>2, <2>3, <2>5, <2>6 DEF VersionsInv
  <1>8. ASSUME NEW c \in Client, Package!SupersedeActiveVersions(c)
        PROVE  VersionsInv'
    <2> DEFINE frame == [op |-> "activating", version |-> pc[c].version, superseded |-> Package!Active]
    <2>1. /\ pc' = [pc EXCEPT ![c] = frame]
          /\ UNCHANGED <<versions, activatedBeside>>
      BY <1>8 DEF Package!SupersedeActiveVersions, Package!Goes, Package!Under, Package!tables
    <2>2. pc'[c] = frame
      BY <2>1 DEF VersionsInv
    <2>3. Replacing(c)'
      BY <1>8, <2>1, <2>2 DEF Package!SupersedeActiveVersions, Replacing, VersionsInv, Package!Active, Package!Under
    <2>4. QED
      BY <2>1, <2>3, ReplacingGoes
  <1>9. ASSUME NEW c \in Client, Package!ActivatePropertyPackageVersion(c)
        PROVE  VersionsInv'
    <2>0. PICK v, superseded : v = pc[c].version /\ superseded = pc[c].superseded
      OBVIOUS
    <2> DEFINE Row(w) == IF w = v THEN [versions[w] EXCEPT !.status = "active"]
                         ELSE IF w \in superseded /\ w \in Package!Active
                              THEN [versions[w] EXCEPT !.status = "superseded"]
                              ELSE versions[w]
    <2>1. /\ v \in DOMAIN versions /\ versions[v].status = "draft"
          /\ Package!Active \ superseded \subseteq activatedBeside
          /\ versions' = [w \in DOMAIN versions |-> Row(w)]
          /\ activatedBeside' = IF Package!Others(c) THEN activatedBeside \union {v} ELSE activatedBeside
          /\ pc' = [pc EXCEPT ![c] = Package!Idle]
      BY <1>9, <2>0 DEF Package!ActivatePropertyPackageVersion, Package!Under, Package!ActivateStatement,
                      Package!Done, Package!Goes, VersionsInv, Replacing
    <2>2. versions' \in [DOMAIN versions -> {Row(w) : w \in DOMAIN versions}]
      BY <2>1
    <2>3. IsTable(versions') /\ DOMAIN versions' = DOMAIN versions
      BY <2>2, TableRewritten DEF VersionsInv
    <2>4. ASSUME NEW w \in DOMAIN versions
          PROVE  /\ DOMAIN versions'[w] = {"number", "status", "lines"}
                 /\ versions'[w].status = IF w = v THEN "active"
                                          ELSE IF w \in superseded /\ w \in Package!Active THEN "superseded"
                                          ELSE versions[w].status
      BY <2>1 DEF VersionsInv
    <2>5. Package!Active' = (Package!Active \ superseded) \union {v}
      BY <2>1, <2>3, <2>4 DEF Package!Active
    <2>6. Package!PackageIsReplaced'
      BY <2>1, <2>5 DEF Package!PackageIsReplaced
    <2>7. ASSUME NEW d \in Client
          PROVE  Replacing(d)'
      <3>1. CASE d = c
        BY <2>1, <3>1 DEF VersionsInv, Replacing, Package!Idle
      <3>2. CASE d # c
        <4>1. pc'[d] = pc[d] /\ Replacing(d)
          BY <2>1, <3>2 DEF VersionsInv
        <4>2. pc[d].op = "activating" => v \in activatedBeside'
          BY <2>1, <3>2 DEF Package!Others, Package!Under
        <4>3. QED
          BY <2>1, <2>3, <2>5, <4>1, <4>2 DEF Replacing
      <3>3. QED
        BY <3>1, <3>2
    <2>8. QED
      BY <2>1, <2>3, <2>4, <2>6, <2>7 DEF VersionsInv
  <1>10. ASSUME NEW c \in Client, Package!RejectPropertyPackageVersion(c)
         PROVE  VersionsInv'
    <2>0. PICK v : v = pc[c].version
      OBVIOUS
    <2> DEFINE row == [versions[v] EXCEPT !.status = "rejected"]
    <2>1. /\ v \in DOMAIN versions /\ versions[v].status = "draft"
          /\ versions' = [versions EXCEPT ![v] = row]
          /\ pc' = [pc EXCEPT ![c] = Package!Idle]
          /\ activatedBeside' = activatedBeside
      BY <1>10, <2>0 DEF Package!RejectPropertyPackageVersion, Package!Under, Package!RejectStatement,
                      Package!Done, Package!Goes, VersionsInv, Replacing
    <2>2. row.status = "rejected" /\ DOMAIN row = {"number", "status", "lines"}
      BY <2>1 DEF VersionsInv
    <2>3. /\ IsTable(versions') /\ DOMAIN versions' = DOMAIN versions
          /\ \A w \in DOMAIN versions : versions'[w] = IF w = v THEN row ELSE versions[w]
      BY <2>1, TableUpdated DEF VersionsInv
    <2>4. Package!Active' = Package!Active
      BY <2>1, <2>2, <2>3 DEF Package!Active
    <2>5. \A d \in Client : Replacing(d)'
      BY <2>1, <2>3, <2>4, ReplacingStays
    <2>6. Package!PackageIsReplaced'
      BY <2>1, <2>2, <2>3, <2>4 DEF VersionsInv, Package!PackageIsReplaced
    <2>7. QED
      BY <2>1, <2>2, <2>3, <2>5, <2>6 DEF VersionsInv
  <1>11. ASSUME NEW c \in Client, Package!Abandon(c)
         PROVE  VersionsInv'
    <2> DEFINE frame == Package!Idle
    <2>1. /\ pc' = [pc EXCEPT ![c] = frame]
          /\ UNCHANGED <<versions, activatedBeside>>
      BY <1>11 DEF Package!Abandon, Package!Dropped, Package!Done, Package!Goes, Package!Under, Package!tables
    <2>2. pc'[c] = frame
      BY <2>1 DEF VersionsInv
    <2>3. Replacing(c)'
      BY <1>11, <2>1, <2>2 DEF Package!Abandon, Replacing, VersionsInv, Package!Active, Package!Idle
    <2>4. QED
      BY <2>1, <2>3, ReplacingGoes
  <1>12. QED
    BY <1>1, <1>2, <1>3, <1>4, <1>5, <1>6, <1>7, <1>8, <1>9, <1>10, <1>11 DEF Package!Next

\* Of the active versions one at most had no other activation beside it, and no version is superseded for none.
THEOREM PackageCorrect == Spec => []PackageIsReplaced
  <1> DEFINE Inv == part = "package" => VersionsInv
  <1>1. Init => Inv
    <2> SUFFICES ASSUME Init, part = "package"
                 PROVE  VersionsInv
      OBVIOUS
    <2>1. PICK s \in Stocked : versions = s.versions
      BY DEF Init, Package!Init
    <2>2. activatedBeside = {} /\ pc = [c \in Client |-> Package!Idle]
      BY DEF Init, Package!Init, Package!NoRequests
    <2>3. versions \in Seq(Version)
      BY <2>1, StockedIsReplaced
    <2>4. \A v \in DOMAIN versions : DOMAIN versions[v] = {"number", "status", "lines"}
      <3>1. \A row \in Version : DOMAIN row = {"number", "status", "lines"}
        BY DEF Version
      <3>2. QED
        BY <2>3, <3>1, Rows
    <2>5. Package!PackageIsReplaced
      BY <2>1, StockedIsReplaced DEF Package!PackageIsReplaced, Package!Active
    <2>6. QED
      BY <2>2, <2>3, <2>4, <2>5, TableOf DEF VersionsInv, Replacing, Package!Idle
  <1>2. Inv /\ [Next]_vars => Inv'
    <2> SUFFICES ASSUME Inv, [Next]_vars, part' = "package"
                 PROVE  VersionsInv'
      OBVIOUS
    <2>1. part = "package" /\ VersionsInv
      BY Moves
    <2>2. CASE UNCHANGED <<package, pc, requests>>
      BY <2>1, <2>2 DEF package, VersionsInv, Replacing, Package!PackageIsReplaced, Package!Active
    <2>3. QED
      BY <2>1, <2>2, VersionsStep, Moves
  <1>3. Inv => PackageIsReplaced
    BY DEF PackageIsReplaced, VersionsInv
  <1>4. QED
    BY <1>1, <1>2, <1>3, PTL DEF Spec

-----------------------------------------------------------------------------
(* The subledger and the controls of finance *)

\* What the tables of finance hold.
Document == [kind : {"charge", "invoice", "credit"}, key : Key, amount : Amount,
             status : {"pending", "applied", "issued"}]
Entry == [document : Nat, amount : Amount \union {-a : a \in Amount}]
Posted(document) == IF document.kind = "credit" THEN -document.amount ELSE document.amount
Asked == [type : RequestType, key : Key \union {None}, createdBy : Person, needs : BOOLEAN,
          status : {"draft", "pending_verification", "pending_approval", "approved", "rejected"},
          approvedBy : Person \union {None}, rejectedBy : Person \union {None}]
Approval == [request : Nat \union {None}, approver : Person, decision : Finance!Decisions, compared : BOOLEAN]

\* No two charges, invoices or credits have one key.
OncePerKey ==
  \A d, e \in DOMAIN documents :
    documents[d].kind = documents[e].kind /\ documents[d].key = documents[e].key => d = e

\* Document and entry are numbered alike, an entry is what its document posts;
\* an insert under way knows what to insert.
LedgerInv ==
  /\ DOMAIN pc = Client
  /\ documents \in Seq(Document)
  /\ entries \in Seq(Entry)
  /\ Len(entries) = Len(documents)
  /\ \A d \in DOMAIN documents : entries[d] = [document |-> d, amount |-> Posted(documents[d])]
  /\ OncePerKey
  /\ \A c \in Client :
       /\ pc[c].op \in {"charge", "invoice", "credit"} => pc[c].key \in Key /\ pc[c].amount \in Amount
       /\ pc[c].op = "apply" => pc[c].charge \in DOMAIN documents

\* Of requests: what was decided has its approval on record by another than its maker,
\* and what needs verification waits for it.
Verified(r) == verifications[r] # None /\ verifications[r].verified
OnRecord(r) ==
  asked[r].status \in Finance!Decisions =>
    \E n \in DOMAIN decisions :
      decisions[n] = [request  |-> r,
                      approver |-> IF asked[r].status = "approved" THEN asked[r].approvedBy ELSE asked[r].rejectedBy,
                      decision |-> asked[r].status, compared |-> TRUE]

\* A submission or decision under way is of a request that had got so far when it
\* was read, and what it then relied on, the maker and the verification, stays.
Deciding(c) ==
  LET f == pc[c] IN
  /\ f.op = "ask" => f.row \in Asked /\ f.row.status = IF f.row.needs THEN "pending_verification" ELSE "draft"
  /\ f.op \in {"submit", "decide", "expire", "confirm"} => f.request \in DOMAIN asked
  /\ f.op = "submit" => ~asked[f.request].needs
  /\ f.op = "decide" => /\ f.actor \in Person \ {asked[f.request].createdBy}
                        /\ f.decision \in Finance!Decisions
                        /\ asked[f.request].needs => Verified(f.request)
  /\ f.op \in {"expire", "confirm"} => verifications[f.request] # None

\* No approval on record whose request was read is by the maker of that request.
ByAnother ==
  \A n \in DOMAIN decisions :
    decisions[n].compared =>
      /\ decisions[n].request \in DOMAIN asked
      /\ decisions[n].approver # asked[decisions[n].request].createdBy

ControlsInv ==
  /\ DOMAIN pc = Client
  /\ asked \in Seq(Asked)
  /\ verifications \in Seq(Verification \union {None})
  /\ Len(verifications) = Len(asked)
  /\ decisions \in Seq(Approval)
  /\ \A r \in DOMAIN asked :
       /\ OnRecord(r)
       /\ asked[r].needs /\ asked[r].status # "pending_verification" => Verified(r)
  /\ ByAnother
  /\ \A c \in Client : Deciding(c)

\* The unique index keeps a second document of a key out, and each insert posts.
LEMMA LedgerStep ==
  ASSUME LedgerInv, Finance!Next
  PROVE  LedgerInv'
  <1>1. ASSUME NEW c \in Client, NEW key \in Key, NEW amount \in Amount,
     Finance!handleCreateCharge(c, key, amount)
        PROVE  LedgerInv'
    BY <1>1 DEF Finance!handleCreateCharge, Finance!Begin, Finance!Idle, Finance!tables,
       Finance!ledger, LedgerInv, OncePerKey
  <1>2. ASSUME NEW c \in Client, NEW key \in Key, NEW amount \in Amount,
     Finance!handleIssueInvoice(c, key, amount)
        PROVE  LedgerInv'
    BY <1>2 DEF Finance!handleIssueInvoice, Finance!Begin, Finance!Idle, Finance!tables,
       Finance!ledger, LedgerInv, OncePerKey
  <1>3. ASSUME NEW c \in Client, NEW key \in Key, NEW amount \in Amount,
     Finance!handleIssueCredit(c, key, amount)
        PROVE  LedgerInv'
    BY <1>3 DEF Finance!handleIssueCredit, Finance!Begin, Finance!Idle, Finance!tables,
       Finance!ledger, LedgerInv, OncePerKey
  <1>4. ASSUME NEW c \in Client, NEW d \in DOMAIN documents, Finance!handleApplyCharge(c, d)
        PROVE  LedgerInv'
    BY <1>4 DEF Finance!handleApplyCharge, Finance!Begin, Finance!Idle, Finance!tables,
       Finance!ledger, LedgerInv, OncePerKey
  <1>5. ASSUME NEW c \in Client, NEW p \in Person, NEW type \in RequestType, NEW needs \in BOOLEAN,
     NEW key \in Key \union {None}, Finance!handleCreateMakerCheckerRequest(c, p, type, needs, key)
        PROVE  LedgerInv'
    BY <1>5 DEF Finance!handleCreateMakerCheckerRequest, Finance!Begin, Finance!Idle,
       Finance!tables, Finance!ledger, LedgerInv, OncePerKey
  <1>6. ASSUME NEW c \in Client, NEW r \in DOMAIN asked, NEW p \in Person,
     Finance!handleSubmitMakerCheckerRequest(c, r, p)
        PROVE  LedgerInv'
    BY <1>6 DEF Finance!handleSubmitMakerCheckerRequest, Finance!Begin, Finance!Idle,
       Finance!tables, Finance!ledger, LedgerInv, OncePerKey
  <1>7. ASSUME NEW c \in Client, NEW r \in DOMAIN asked, NEW p \in Person, NEW d \in
     Finance!Decisions, Finance!handleDecideMakerCheckerRequest(c, r, p, d)
        PROVE  LedgerInv'
    BY <1>7 DEF Finance!handleDecideMakerCheckerRequest, Finance!Begin, Finance!Idle,
       Finance!tables, Finance!ledger, LedgerInv, OncePerKey
  <1>8. ASSUME NEW c \in Client, NEW r \in DOMAIN asked, Finance!handleConfirmBankVerification(c, r)
        PROVE  LedgerInv'
    BY <1>8 DEF Finance!handleConfirmBankVerification, Finance!Begin, Finance!Idle, Finance!tables,
       Finance!ledger, LedgerInv, OncePerKey
  <1>9. ASSUME NEW c \in Client, NEW e \in DOMAIN exceptions, NEW p \in Person,
     Finance!handleResolveReconciliationException(c, e, p)
        PROVE  LedgerInv'
    BY <1>9 DEF Finance!handleResolveReconciliationException, Finance!Begin, Finance!Idle,
       Finance!tables, Finance!ledger, LedgerInv, OncePerKey
  <1>10. ASSUME NEW c \in Client, Finance!CreateCharge(c)
         PROVE  LedgerInv'
    <2> DEFINE row == [kind |-> pc[c].op, key |-> pc[c].key, amount |-> pc[c].amount, status |-> "pending"]
               entry == [document |-> Len(documents'), amount |-> pc[c].amount]
    <2>1. /\ pc[c].op = "charge"
          /\ documents' = Append(documents, row)
          /\ \A d \in DOMAIN documents : documents[d].kind = row.kind => documents[d].key # row.key
          /\ entries' = Append(entries, entry)
          /\ pc' = [pc EXCEPT ![c] = Finance!Idle]
      BY <1>10 DEF Finance!CreateCharge, Finance!Enter, Finance!InsertDocument, Finance!InsertSubledgerEntry,
                  Finance!Created, Finance!Done
    <2>2. row \in Document
      BY <2>1 DEF LedgerInv, Document
    <2>3. /\ documents' \in Seq(Document) /\ Len(documents') = Len(documents) + 1
          /\ Len(documents) + 1 \notin DOMAIN documents
          /\ DOMAIN documents' = DOMAIN documents \union {Len(documents) + 1}
          /\ \A d \in DOMAIN documents : documents'[d] = documents[d]
          /\ documents'[Len(documents) + 1] = row
      BY <2>1, <2>2, Inserted DEF LedgerInv
    <2>4. Posted(row) = entry.amount
      BY <2>1 DEF Posted
    <2>5. entry \in Entry
      BY <2>1, <2>3, Rows DEF LedgerInv, Entry
    <2>6. /\ entries' \in Seq(Entry) /\ Len(entries') = Len(documents')
          /\ \A d \in DOMAIN documents : entries'[d] = entries[d]
          /\ entries'[Len(documents) + 1] = entry
      BY <2>1, <2>3, <2>5, Inserted, Rows DEF LedgerInv
    <2>7. \A d \in DOMAIN documents' : entries'[d] = [document |-> d, amount |-> Posted(documents'[d])]
      BY <2>3, <2>4, <2>6 DEF LedgerInv
    <2>8. OncePerKey'
      <3>1. row.kind = pc[c].op /\ row.key = pc[c].key
        OBVIOUS
      <3>2. OncePerKey
        BY DEF LedgerInv
      <3>3. QED
        BY <2>1, <2>3, <3>1, <3>2 DEF OncePerKey
    <2>9. QED
      BY <2>1, <2>3, <2>6, <2>7, <2>8 DEF LedgerInv, Finance!Idle
  <1>11. ASSUME NEW c \in Client, Finance!IssueInvoice(c)
         PROVE  LedgerInv'
    <2> DEFINE row == [kind |-> pc[c].op, key |-> pc[c].key, amount |-> pc[c].amount, status |-> "issued"]
               entry == [document |-> Len(documents'), amount |-> pc[c].amount]
    <2>1. /\ pc[c].op = "invoice"
          /\ documents' = Append(documents, row)
          /\ \A d \in DOMAIN documents : documents[d].kind = row.kind => documents[d].key # row.key
          /\ entries' = Append(entries, entry)
          /\ pc' = [pc EXCEPT ![c] = Finance!Idle]
      BY <1>11 DEF Finance!IssueInvoice, Finance!Enter, Finance!InsertDocument, Finance!InsertSubledgerEntry,
                  Finance!Created, Finance!Done
    <2>2. row \in Document
      BY <2>1 DEF LedgerInv, Document
    <2>3. /\ documents' \in Seq(Document) /\ Len(documents') = Len(documents) + 1
          /\ Len(documents) + 1 \notin DOMAIN documents
          /\ DOMAIN documents' = DOMAIN documents \union {Len(documents) + 1}
          /\ \A d \in DOMAIN documents : documents'[d] = documents[d]
          /\ documents'[Len(documents) + 1] = row
      BY <2>1, <2>2, Inserted DEF LedgerInv
    <2>4. Posted(row) = entry.amount
      BY <2>1 DEF Posted
    <2>5. entry \in Entry
      BY <2>1, <2>3, Rows DEF LedgerInv, Entry
    <2>6. /\ entries' \in Seq(Entry) /\ Len(entries') = Len(documents')
          /\ \A d \in DOMAIN documents : entries'[d] = entries[d]
          /\ entries'[Len(documents) + 1] = entry
      BY <2>1, <2>3, <2>5, Inserted, Rows DEF LedgerInv
    <2>7. \A d \in DOMAIN documents' : entries'[d] = [document |-> d, amount |-> Posted(documents'[d])]
      BY <2>3, <2>4, <2>6 DEF LedgerInv
    <2>8. OncePerKey'
      <3>1. row.kind = pc[c].op /\ row.key = pc[c].key
        OBVIOUS
      <3>2. OncePerKey
        BY DEF LedgerInv
      <3>3. QED
        BY <2>1, <2>3, <3>1, <3>2 DEF OncePerKey
    <2>9. QED
      BY <2>1, <2>3, <2>6, <2>7, <2>8 DEF LedgerInv, Finance!Idle
  <1>12. ASSUME NEW c \in Client, Finance!IssueCredit(c)
         PROVE  LedgerInv'
    <2> DEFINE row == [kind |-> pc[c].op, key |-> pc[c].key, amount |-> pc[c].amount, status |-> "issued"]
               entry == [document |-> Len(documents'), amount |-> -pc[c].amount]
    <2>1. /\ pc[c].op = "credit"
          /\ documents' = Append(documents, row)
          /\ \A d \in DOMAIN documents : documents[d].kind = row.kind => documents[d].key # row.key
          /\ entries' = Append(entries, entry)
          /\ pc' = [pc EXCEPT ![c] = Finance!Idle]
      BY <1>12 DEF Finance!IssueCredit, Finance!Enter, Finance!InsertDocument, Finance!InsertSubledgerEntry,
                  Finance!Created, Finance!Done
    <2>2. row \in Document
      BY <2>1 DEF LedgerInv, Document
    <2>3. /\ documents' \in Seq(Document) /\ Len(documents') = Len(documents) + 1
          /\ Len(documents) + 1 \notin DOMAIN documents
          /\ DOMAIN documents' = DOMAIN documents \union {Len(documents) + 1}
          /\ \A d \in DOMAIN documents : documents'[d] = documents[d]
          /\ documents'[Len(documents) + 1] = row
      BY <2>1, <2>2, Inserted DEF LedgerInv
    <2>4. Posted(row) = entry.amount
      BY <2>1 DEF Posted
    <2>5. entry \in Entry
      BY <2>1, <2>3, Rows DEF LedgerInv, Entry
    <2>6. /\ entries' \in Seq(Entry) /\ Len(entries') = Len(documents')
          /\ \A d \in DOMAIN documents : entries'[d] = entries[d]
          /\ entries'[Len(documents) + 1] = entry
      BY <2>1, <2>3, <2>5, Inserted, Rows DEF LedgerInv
    <2>7. \A d \in DOMAIN documents' : entries'[d] = [document |-> d, amount |-> Posted(documents'[d])]
      BY <2>3, <2>4, <2>6 DEF LedgerInv
    <2>8. OncePerKey'
      <3>1. row.kind = pc[c].op /\ row.key = pc[c].key
        OBVIOUS
      <3>2. OncePerKey
        BY DEF LedgerInv
      <3>3. QED
        BY <2>1, <2>3, <3>1, <3>2 DEF OncePerKey
    <2>9. QED
      BY <2>1, <2>3, <2>6, <2>7, <2>8 DEF LedgerInv, Finance!Idle
  <1>13. ASSUME NEW c \in Client, Finance!ApplyCharge(c)
         PROVE  LedgerInv'
    <2> DEFINE d == pc[c].charge
               row == [documents[d] EXCEPT !.status = "applied"]
    <2>1. /\ d \in DOMAIN documents
          /\ documents' = [documents EXCEPT ![d] = row]
          /\ pc' = [pc EXCEPT ![c] = Finance!Idle]
          /\ entries' = entries
      BY <1>13 DEF Finance!ApplyCharge, Finance!Done, LedgerInv
    <2>2. /\ row \in Document
          /\ row.kind = documents[d].kind /\ row.key = documents[d].key /\ row.amount = documents[d].amount
      <3>1. documents[d] \in Document
        BY <2>1, Rows DEF LedgerInv
      <3>2. QED
        BY <3>1 DEF Document
    <2>3. /\ documents' \in Seq(Document) /\ Len(documents') = Len(documents)
          /\ DOMAIN documents' = DOMAIN documents
          /\ \A e \in DOMAIN documents : documents'[e] = IF e = d THEN row ELSE documents[e]
      BY <2>1, <2>2, Updated DEF LedgerInv
    <2>4. \A e \in DOMAIN documents : Posted(documents'[e]) = Posted(documents[e])
      BY <2>2, <2>3 DEF Posted
    <2>5. QED
      BY <2>1, <2>2, <2>3, <2>4, SMTT(30) DEF LedgerInv, OncePerKey, Finance!Idle
  <1>14. ASSUME NEW c \in Client, Finance!CreateMakerCheckerRequest(c)
         PROVE  LedgerInv'
    BY <1>14 DEF Finance!CreateMakerCheckerRequest, Finance!InsertMakerCheckerRequest, Finance!Done,
       Finance!Idle, Finance!ledger, LedgerInv, OncePerKey
  <1>15. ASSUME NEW c \in Client, Finance!SubmitMakerCheckerRequest(c)
         PROVE  LedgerInv'
    BY <1>15 DEF Finance!SubmitMakerCheckerRequest, Finance!Done, Finance!Idle, Finance!ledger,
       LedgerInv, OncePerKey
  <1>16. ASSUME NEW c \in Client, Finance!DecideMakerCheckerRequest(c)
         PROVE  LedgerInv'
    BY <1>16 DEF Finance!DecideMakerCheckerRequest, Finance!UpdateMakerCheckerRequestStatus,
       Finance!InsertFinancialApproval, Finance!Done, Finance!Idle, Finance!ledger, LedgerInv,
       OncePerKey
  <1>17. ASSUME NEW c \in Client, Finance!ExpireBankVerification(c)
         PROVE  LedgerInv'
    BY <1>17 DEF Finance!ExpireBankVerification, Finance!Done, Finance!Idle, Finance!ledger,
       LedgerInv, OncePerKey
  <1>18. ASSUME NEW c \in Client, Finance!ConfirmBankVerification(c)
         PROVE  LedgerInv'
    BY <1>18 DEF Finance!ConfirmBankVerification, Finance!UpdateMakerCheckerRequestStatus,
       Finance!Done, Finance!Idle, Finance!ledger, LedgerInv, OncePerKey
  <1>19. ASSUME NEW c \in Client, Finance!ResolveReconciliationException(c)
         PROVE  LedgerInv'
    BY <1>19 DEF Finance!ResolveReconciliationException, Finance!Done, Finance!Idle, Finance!ledger,
       Finance!controls, LedgerInv, OncePerKey
  <1>20. ASSUME NEW c \in Client, Finance!Abandon(c)
         PROVE  LedgerInv'
    BY <1>20 DEF Finance!Abandon, Finance!Done, Finance!Idle, Finance!tables, Finance!ledger,
       Finance!controls, LedgerInv, OncePerKey
  <1>21. ASSUME NEW r \in DOMAIN asked \union {None}, NEW p \in Person, NEW d \in Finance!Decisions,
     NEW read \in BOOLEAN, Finance!handleDecideFinancialApproval(r, p, d, read)
         PROVE  LedgerInv'
    BY <1>21 DEF Finance!handleDecideFinancialApproval, Finance!Served,
       Finance!DecideFinancialApproval, Finance!InsertFinancialApproval, Finance!ledger, LedgerInv,
       OncePerKey
  <1>22. ASSUME NEW r \in DOMAIN asked, Finance!handleCreateBankVerification(r)
         PROVE  LedgerInv'
    BY <1>22 DEF Finance!handleCreateBankVerification, Finance!Served,
       Finance!CreateBankVerification, Finance!ledger, LedgerInv, OncePerKey
  <1>23. ASSUME NEW r \in DOMAIN asked, Finance!PassExpiry(r)
         PROVE  LedgerInv'
    BY <1>23 DEF Finance!PassExpiry, Finance!ledger, LedgerInv, OncePerKey
  <1>24. ASSUME NEW p \in Person, Finance!handleRecordReconciliationException(p)
         PROVE  LedgerInv'
    BY <1>24 DEF Finance!handleRecordReconciliationException, Finance!Served,
       Finance!RecordReconciliationException, Finance!ledger, Finance!controls, LedgerInv,
       OncePerKey
  <1>25. CASE Finance!handleCreateAccountingExport
    BY <1>25 DEF Finance!handleCreateAccountingExport, Finance!Served,
       Finance!CreateAccountingExport, Finance!ledger, Finance!controls, LedgerInv, OncePerKey
  <1>26. QED
    BY <1>1, <1>2, <1>3, <1>4, <1>5, <1>6, <1>7, <1>8, <1>9, <1>10, <1>11, <1>12, <1>13, <1>14,
       <1>15, <1>16, <1>17, <1>18, <1>19, <1>20, <1>21, <1>22, <1>23, <1>24, <1>25 DEF Finance!Next


\* Requests that race under one key leave one document of a kind, and every document its own entry.
THEOREM LedgerCorrect == Spec => []LedgerMatches
  <1> DEFINE Inv == part = "finance" => LedgerInv
  <1>1. Init => Inv
    <2> SUFFICES ASSUME Init
                 PROVE  LedgerInv
      OBVIOUS
    <2>1. documents = <<>> /\ entries = <<>> /\ pc = [c \in Client |-> Finance!Idle]
      BY DEF Init, Finance!Init
    <2>2. QED
      BY <2>1, Empty DEF LedgerInv, OncePerKey, Finance!Idle
  <1>2. Inv /\ [Next]_vars => Inv'
    <2> SUFFICES ASSUME Inv, [Next]_vars, part' = "finance"
                 PROVE  LedgerInv'
      OBVIOUS
    <2>1. part = "finance" /\ LedgerInv
      BY Moves
    <2>2. CASE UNCHANGED <<finance, pc, requests>>
      BY <2>1, <2>2 DEF finance, LedgerInv, OncePerKey
    <2>3. QED
      BY <2>1, <2>2, LedgerStep, Moves
  <1>3. Inv => LedgerMatches
    <2> SUFFICES ASSUME LedgerInv
                 PROVE  Finance!LedgerMatches
      BY DEF LedgerMatches
    <2>1. ASSUME NEW d \in DOMAIN documents
          PROVE  {n \in DOMAIN entries : entries[n].document = d} = {d}
      <3>1. DOMAIN entries = DOMAIN documents
        BY Rows DEF LedgerInv
      <3>2. QED
        BY <3>1 DEF LedgerInv
    <2>2. \A d \in DOMAIN documents : d \in DOMAIN entries /\ entries[d].amount = Posted(documents[d])
      <3>1. \A d \in DOMAIN documents : d \in DOMAIN entries /\ entries[d] = [document |-> d, amount |-> Posted(documents[d])]
        BY Rows DEF LedgerInv
      <3>2. \A d, amount : [document |-> d, amount |-> amount].amount = amount
        OBVIOUS
      <3>3. QED
        BY <3>1, <3>2
    <2>3. OncePerKey
      BY DEF LedgerInv
    <2>4. QED
      BY <2>1, <2>2, <2>3, Zenon DEF OncePerKey, Finance!LedgerMatches, Posted
  <1>4. QED
    BY <1>1, <1>2, <1>3, PTL DEF Spec

\* What a frame relies on stays when rows of requests keep maker and need, and what
\* is verified stays so.
LEMMA DecidingStays ==
  ASSUME \A d \in Client : Deciding(d) /\ pc'[d] \in {pc[d], Finance!Idle},
         DOMAIN asked \subseteq DOMAIN asked',
         \A r \in DOMAIN asked : /\ asked'[r].createdBy = asked[r].createdBy
                                 /\ asked'[r].needs = asked[r].needs
                                 /\ verifications[r] # None => verifications'[r] # None
                                 /\ Verified(r) => Verified(r)'
  PROVE  \A d \in Client : Deciding(d)'
  BY DEF Deciding, Finance!Idle


LEMMA ControlsStep ==
  ASSUME ControlsInv, Finance!Next
  PROVE  ControlsInv'
  <1> USE NoneIsNull
  <1>1. ASSUME NEW c \in Client, NEW key \in Key, NEW amount \in Amount,
     Finance!handleCreateCharge(c, key, amount)
        PROVE  ControlsInv'
    BY <1>1 DEF Finance!handleCreateCharge, Finance!Begin, Finance!Idle, Finance!tables,
       Finance!ledger, Finance!controls, ControlsInv, ByAnother, Deciding, OnRecord, Verified
  <1>2. ASSUME NEW c \in Client, NEW key \in Key, NEW amount \in Amount,
     Finance!handleIssueInvoice(c, key, amount)
        PROVE  ControlsInv'
    BY <1>2 DEF Finance!handleIssueInvoice, Finance!Begin, Finance!Idle, Finance!tables,
       Finance!ledger, Finance!controls, ControlsInv, ByAnother, Deciding, OnRecord, Verified
  <1>3. ASSUME NEW c \in Client, NEW key \in Key, NEW amount \in Amount,
     Finance!handleIssueCredit(c, key, amount)
        PROVE  ControlsInv'
    BY <1>3 DEF Finance!handleIssueCredit, Finance!Begin, Finance!Idle, Finance!tables,
       Finance!ledger, Finance!controls, ControlsInv, ByAnother, Deciding, OnRecord, Verified
  <1>4. ASSUME NEW c \in Client, NEW d \in DOMAIN documents, Finance!handleApplyCharge(c, d)
        PROVE  ControlsInv'
    BY <1>4 DEF Finance!handleApplyCharge, Finance!Begin, Finance!Idle, Finance!tables,
       Finance!ledger, Finance!controls, ControlsInv, ByAnother, Deciding, OnRecord, Verified
  <1>5. ASSUME NEW c \in Client, NEW p \in Person, NEW type \in RequestType, NEW needs \in BOOLEAN,
     NEW key \in Key \union {None}, Finance!handleCreateMakerCheckerRequest(c, p, type, needs, key)
        PROVE  ControlsInv'
    <2> DEFINE row == [type |-> type, key |-> key, createdBy |-> p, needs |-> needs,
                       status |-> IF needs THEN "pending_verification" ELSE "draft",
                       approvedBy |-> None, rejectedBy |-> None]
               frame == [op |-> "ask", row |-> row]
    <2>1. /\ pc' = [pc EXCEPT ![c] = frame]
          /\ UNCHANGED <<asked, verifications, decisions>>
      BY <1>5 DEF Finance!handleCreateMakerCheckerRequest, Finance!Begin, Finance!tables, Finance!controls
    <2>2. row \in Asked
      BY DEF Asked
    <2>3. Deciding(c)'
      <3>1. pc'[c] = frame
        BY <2>1 DEF ControlsInv
      <3>2. QED
        BY <2>2, <3>1 DEF Deciding
    <2>4. QED
      BY <2>1, <2>3 DEF ControlsInv, ByAnother, Deciding, OnRecord, Verified
  <1>6. ASSUME NEW c \in Client, NEW r \in DOMAIN asked, NEW p \in Person,
     Finance!handleSubmitMakerCheckerRequest(c, r, p)
        PROVE  ControlsInv'
    BY <1>6 DEF Finance!handleSubmitMakerCheckerRequest, Finance!Begin, Finance!Idle,
       Finance!tables, Finance!ledger, Finance!controls, ControlsInv, ByAnother, Deciding, OnRecord,
       Verified
  <1>7. ASSUME NEW c \in Client, NEW r \in DOMAIN asked, NEW p \in Person, NEW d \in
     Finance!Decisions, Finance!handleDecideMakerCheckerRequest(c, r, p, d)
        PROVE  ControlsInv'
    BY <1>7 DEF Finance!handleDecideMakerCheckerRequest, Finance!Begin, Finance!Idle,
       Finance!tables, Finance!ledger, Finance!controls, ControlsInv, ByAnother, Deciding, OnRecord,
       Verified
  <1>8. ASSUME NEW c \in Client, NEW r \in DOMAIN asked, Finance!handleConfirmBankVerification(c, r)
        PROVE  ControlsInv'
    BY <1>8 DEF Finance!handleConfirmBankVerification, Finance!Begin, Finance!Idle, Finance!tables,
       Finance!ledger, Finance!controls, ControlsInv, ByAnother, Deciding, OnRecord, Verified
  <1>9. ASSUME NEW c \in Client, NEW e \in DOMAIN exceptions, NEW p \in Person,
     Finance!handleResolveReconciliationException(c, e, p)
        PROVE  ControlsInv'
    BY <1>9 DEF Finance!handleResolveReconciliationException, Finance!Begin, Finance!Idle,
       Finance!tables, Finance!ledger, Finance!controls, ControlsInv, ByAnother, Deciding, OnRecord,
       Verified
  <1>10. ASSUME NEW c \in Client, Finance!CreateCharge(c)
         PROVE  ControlsInv'
    BY <1>10 DEF Finance!CreateCharge, Finance!Enter, Finance!InsertDocument,
       Finance!InsertSubledgerEntry, Finance!Done, Finance!Idle, Finance!controls, ControlsInv,
       ByAnother, Deciding, OnRecord, Verified
  <1>11. ASSUME NEW c \in Client, Finance!IssueInvoice(c)
         PROVE  ControlsInv'
    BY <1>11 DEF Finance!IssueInvoice, Finance!Enter, Finance!InsertDocument,
       Finance!InsertSubledgerEntry, Finance!Done, Finance!Idle, Finance!controls, ControlsInv,
       ByAnother, Deciding, OnRecord, Verified
  <1>12. ASSUME NEW c \in Client, Finance!IssueCredit(c)
         PROVE  ControlsInv'
    BY <1>12 DEF Finance!IssueCredit, Finance!Enter, Finance!InsertDocument,
       Finance!InsertSubledgerEntry, Finance!Done, Finance!Idle, Finance!controls, ControlsInv,
       ByAnother, Deciding, OnRecord, Verified
  <1>13. ASSUME NEW c \in Client, Finance!ApplyCharge(c)
         PROVE  ControlsInv'
    BY <1>13 DEF Finance!ApplyCharge, Finance!Done, Finance!Idle, Finance!controls, ControlsInv,
       ByAnother, Deciding, OnRecord, Verified
  <1>14. ASSUME NEW c \in Client, Finance!CreateMakerCheckerRequest(c)
         PROVE  ControlsInv'
    <2> DEFINE row == pc[c].row
    <2>0. PICK new : new = Len(asked) + 1
      OBVIOUS
    <2>1. /\ Deciding(c) /\ pc[c].op = "ask"
          /\ asked' = Append(asked, row)
          /\ verifications' = Append(verifications, None)
          /\ pc' = [pc EXCEPT ![c] = Finance!Idle]
          /\ decisions' = decisions
      BY <1>14 DEF Finance!CreateMakerCheckerRequest, Finance!InsertMakerCheckerRequest, Finance!Done, ControlsInv
    <2>2. row \in Asked /\ row.status = IF row.needs THEN "pending_verification" ELSE "draft"
      BY <2>1 DEF Deciding
    <2>3. /\ asked' \in Seq(Asked) /\ Len(asked') = new
          /\ new \notin DOMAIN asked /\ DOMAIN asked' = DOMAIN asked \union {new}
          /\ \A r \in DOMAIN asked : asked'[r] = asked[r]
          /\ asked'[new] = row
      BY <2>0, <2>1, <2>2, Inserted DEF ControlsInv
    <2>4. /\ verifications' \in Seq(Verification \union {None}) /\ Len(verifications') = new
          /\ \A r \in DOMAIN asked : verifications'[r] = verifications[r]
      BY <2>0, <2>1, Inserted, Rows DEF ControlsInv
    <2>5. \A r \in DOMAIN asked : Verified(r)' = Verified(r) /\ OnRecord(r)' = OnRecord(r)
      BY <2>1, <2>3, <2>4 DEF Verified, OnRecord
    <2>6. /\ OnRecord(new)'
          /\ asked'[new].needs => asked'[new].status = "pending_verification"
      BY <2>2, <2>3 DEF OnRecord, Finance!Decisions
    <2>7. \A d \in Client : Deciding(d)'
      BY <2>1, <2>3, <2>4, <2>5, DecidingStays DEF ControlsInv
    <2>8. QED
      BY <2>1, <2>3, <2>4, <2>5, <2>6, <2>7 DEF ControlsInv, ByAnother
  <1>15. ASSUME NEW c \in Client, Finance!SubmitMakerCheckerRequest(c)
         PROVE  ControlsInv'
    <2>0. PICK r : r = pc[c].request
      OBVIOUS
    <2> DEFINE row == [asked[r] EXCEPT !.status = "pending_approval"]
    <2>1. /\ pc[c].op = "submit" /\ Deciding(c)
          /\ asked' = [asked EXCEPT ![r] = row]
          /\ pc' = [pc EXCEPT ![c] = Finance!Idle]
          /\ UNCHANGED <<verifications, decisions>>
      BY <1>15, <2>0 DEF Finance!SubmitMakerCheckerRequest, Finance!Done, ControlsInv
    <2>2. r \in DOMAIN asked /\ ~asked[r].needs
      BY <2>0, <2>1 DEF Deciding
    <2>3. asked[r] \in Asked
      BY <2>2, Rows DEF ControlsInv
    <2>4. row \in Asked /\ row.createdBy = asked[r].createdBy /\ row.needs = asked[r].needs
      BY <2>3 DEF Asked
    <2>5. /\ asked' \in Seq(Asked) /\ Len(asked') = Len(asked) /\ DOMAIN asked' = DOMAIN asked
          /\ \A q \in DOMAIN asked : asked'[q] = IF q = r THEN row ELSE asked[q]
      BY <2>1, <2>2, <2>4, Updated DEF ControlsInv
    <2>6. \A q \in DOMAIN asked : Verified(q)' = Verified(q) /\ (OnRecord(q) => OnRecord(q)')
      BY <2>1, <2>5 DEF Verified, OnRecord, Finance!Decisions
    <2>7. \A d \in Client : Deciding(d)'
      BY <2>1, <2>4, <2>5, <2>6, DecidingStays DEF ControlsInv
    <2>8. QED
      BY <2>1, <2>2, <2>4, <2>5, <2>6, <2>7 DEF ControlsInv, ByAnother
  <1>16. ASSUME NEW c \in Client, Finance!DecideMakerCheckerRequest(c)
         PROVE  ControlsInv'
    <2>0. PICK r : r = pc[c].request
      OBVIOUS
    <2> DEFINE f == pc[c]
               row == [asked[r] EXCEPT !.status = f.decision,
                         !.approvedBy = IF f.decision = "approved" THEN f.actor ELSE None,
                         !.rejectedBy = IF f.decision = "rejected" THEN f.actor ELSE None]
               approval == [request |-> r, approver |-> f.actor, decision |-> f.decision, compared |-> TRUE]
    <2>1. /\ f.op = "decide" /\ Deciding(c)
          /\ asked' = [asked EXCEPT ![r] = row]
          /\ decisions' = Append(decisions, approval)
          /\ pc' = [pc EXCEPT ![c] = Finance!Idle]
          /\ verifications' = verifications
      BY <1>16, <2>0 DEF Finance!DecideMakerCheckerRequest, Finance!UpdateMakerCheckerRequestStatus,
                  Finance!InsertFinancialApproval, Finance!Done, ControlsInv
    <2>2. /\ r \in DOMAIN asked /\ f.actor \in Person \ {asked[r].createdBy}
          /\ f.decision \in {"approved", "rejected"}
          /\ asked[r].needs => Verified(r)
      BY <2>0, <2>1 DEF Deciding, Finance!Decisions
    <2>3. asked[r] \in Asked /\ r \in Nat
      BY <2>2, Rows DEF ControlsInv
    <2>4. row \in Asked /\ row.createdBy = asked[r].createdBy /\ row.needs = asked[r].needs
      BY <2>2, <2>3 DEF Asked
    <2>5. /\ asked' \in Seq(Asked) /\ Len(asked') = Len(asked) /\ DOMAIN asked' = DOMAIN asked
          /\ \A q \in DOMAIN asked : asked'[q] = IF q = r THEN row ELSE asked[q]
      BY <2>1, <2>2, <2>4, Updated DEF ControlsInv
    <2>6. approval \in Approval
      BY <2>2, <2>3 DEF Approval, Finance!Decisions
    <2>7. /\ decisions' \in Seq(Approval)
          /\ DOMAIN decisions' = DOMAIN decisions \union {Len(decisions) + 1}
          /\ \A n \in DOMAIN decisions : decisions'[n] = decisions[n]
          /\ decisions'[Len(decisions) + 1] = approval
      BY <2>1, <2>6, Inserted DEF ControlsInv
    <2>8. \A q \in DOMAIN asked : Verified(q)' = Verified(q)
      BY <2>1 DEF Verified
    <2>9. ASSUME NEW q \in DOMAIN asked
          PROVE  OnRecord(q)'
      <3>1. CASE q = r
        <4>1. asked'[r].status = f.decision
          BY <2>2, <2>3, <2>5 DEF Asked
        <4>2. f.actor = IF asked'[r].status = "approved" THEN asked'[r].approvedBy ELSE asked'[r].rejectedBy
          BY <2>2, <2>3, <2>5 DEF Asked
        <4>3. QED
          BY <2>7, <3>1, <4>1, <4>2 DEF OnRecord
      <3>2. CASE q # r
        <4>1. OnRecord(q) /\ asked'[q] = asked[q]
          BY <2>5, <3>2 DEF ControlsInv
        <4>2. QED
          BY <2>7, <4>1 DEF OnRecord
      <3>3. QED
        BY <3>1, <3>2
    <2>10. \A d \in Client : Deciding(d)'
      BY <2>1, <2>4, <2>5, <2>8, DecidingStays DEF ControlsInv
    <2>11. ByAnother'
      <3>1. /\ \A q \in DOMAIN asked : asked'[q].createdBy = asked[q].createdBy
            /\ approval.request = r /\ approval.approver # asked[r].createdBy
        BY <2>2, <2>4, <2>5
      <3>2. ByAnother
        BY DEF ControlsInv
      <3>3. QED
        BY <2>2, <2>5, <2>7, <3>1, <3>2 DEF ByAnother
    <2>12. QED
      BY <2>1, <2>2, <2>4, <2>5, <2>7, <2>8, <2>9, <2>10, <2>11 DEF ControlsInv
  <1>17. ASSUME NEW c \in Client, Finance!ExpireBankVerification(c)
         PROVE  ControlsInv'
    <2>0. PICK r : r = pc[c].request
      OBVIOUS
    <2> DEFINE row == [verifications[r] EXCEPT !.status = "expired"]
    <2>1. /\ /\ pc[c].op = "expire" /\ Deciding(c)
          /\ r = pc[c].request
          /\ verifications' = [verifications EXCEPT ![r] = row]
          /\ pc' = [pc EXCEPT ![c] = Finance!Idle]
          /\ UNCHANGED <<asked, decisions>>
      BY <1>17, <2>0 DEF Finance!ExpireBankVerification, Finance!Done, ControlsInv
    <2>2. r \in DOMAIN asked /\ DOMAIN verifications = DOMAIN asked
      BY <2>1, Rows DEF ControlsInv, Deciding
    <2>3. verifications[r] \in Verification \union {None}
      BY <2>2, Rows DEF ControlsInv
    <2>4. row \in Verification /\ verifications[r] # None /\ row.verified = verifications[r].verified
      BY <2>1, <2>3 DEF Verification, Deciding
    <2>5. /\ verifications' \in Seq(Verification \union {None}) /\ Len(verifications') = Len(verifications)
          /\ \A q \in DOMAIN asked : verifications'[q] = IF q = r THEN row ELSE verifications[q]
      BY <2>1, <2>2, <2>4, Updated DEF ControlsInv
    <2>6. \A q \in DOMAIN asked : (Verified(q) => Verified(q)') /\ OnRecord(q)' = OnRecord(q)
      BY <2>1, <2>4, <2>5 DEF Verified, OnRecord
    <2>7. \A d \in Client : Deciding(d)'
      BY <2>1, <2>4, <2>5, <2>6, DecidingStays DEF ControlsInv
    <2>8. QED
      BY <2>1, <2>2, <2>5, <2>6, <2>7 DEF ControlsInv, ByAnother
  <1>18. ASSUME NEW c \in Client, Finance!ConfirmBankVerification(c)
         PROVE  ControlsInv'
    <2>0. PICK r : r = pc[c].request
      OBVIOUS
    <2> DEFINE row == [asked[r] EXCEPT !.status = "pending_approval", !.approvedBy = None, !.rejectedBy = None]
               verification == [verifications[r] EXCEPT !.status = "verified", !.verified = TRUE]
    <2>1. /\ pc[c].op = "confirm" /\ Deciding(c)
          /\ verifications' = [verifications EXCEPT ![r] = verification]
          /\ IF asked[r].status = "pending_verification" THEN asked' = [asked EXCEPT ![r] = row] ELSE asked' = asked
          /\ pc' = [pc EXCEPT ![c] = Finance!Idle]
          /\ decisions' = decisions
      BY <1>18, <2>0 DEF Finance!ConfirmBankVerification, Finance!UpdateMakerCheckerRequestStatus,
                  Finance!Done, ControlsInv
    <2>2. r \in DOMAIN asked /\ verifications[r] # None
      BY <2>0, <2>1 DEF Deciding
    <2>3. asked[r] \in Asked /\ r \in DOMAIN verifications /\ verifications[r] \in Verification
      BY <2>2, Rows DEF ControlsInv
    <2>4. row \in Asked /\ row.createdBy = asked[r].createdBy /\ row.needs = asked[r].needs
          /\ row.status = "pending_approval"
      BY <2>3 DEF Asked
    <2>5. verification \in Verification /\ verification.verified
      BY <2>3 DEF Verification
    <2>6. /\ asked' \in Seq(Asked) /\ Len(asked') = Len(asked) /\ DOMAIN asked' = DOMAIN asked
          /\ \A q \in DOMAIN asked : asked'[q] = asked[q] \/ (q = r /\ asked'[q] = row)
      <3>1. asked \in Seq(Asked)
        BY DEF ControlsInv
      <3>2. CASE asked' = asked
        BY <3>1, <3>2
      <3>3. CASE asked' = [asked EXCEPT ![r] = row]
        BY <2>2, <2>4, <3>1, <3>3, Updated
      <3>4. QED
        BY <2>1, <3>2, <3>3
    <2>7. /\ verifications' \in Seq(Verification \union {None}) /\ Len(verifications') = Len(verifications)
          /\ \A q \in DOMAIN verifications : verifications'[q] = IF q = r THEN verification ELSE verifications[q]
      BY <2>1, <2>3, <2>5, Updated DEF ControlsInv
    <2>8. DOMAIN verifications = DOMAIN asked
      BY Rows DEF ControlsInv
    <2>9. \A q \in DOMAIN asked : (Verified(q) \/ q = r => Verified(q)') /\ (OnRecord(q) => OnRecord(q)')
      <3>1. verification # None
        BY <2>5
      <3>2. \A q \in DOMAIN asked : Verified(q) \/ q = r => Verified(q)'
        BY <2>5, <2>7, <2>8, <3>1 DEF Verified
      <3>3. \A q \in DOMAIN asked : OnRecord(q) => OnRecord(q)'
        BY <2>1, <2>4, <2>6 DEF OnRecord, Finance!Decisions
      <3>4. QED
        BY <3>2, <3>3
    <2>10. \A d \in Client : Deciding(d)'
      BY <2>1, <2>4, <2>5, <2>6, <2>7, <2>8, <2>9, DecidingStays DEF ControlsInv
    <2>11. ByAnother'
      <3>1. ByAnother /\ \A q \in DOMAIN asked : asked'[q].createdBy = asked[q].createdBy
        BY <2>4, <2>6 DEF ControlsInv
      <3>2. QED
        BY <2>1, <2>6, <3>1 DEF ByAnother
    <2>12. \A q \in DOMAIN asked : asked'[q].needs /\ asked'[q].status # "pending_verification" => Verified(q)'
      BY <2>2, <2>4, <2>6, <2>9 DEF ControlsInv
    <2>13. QED
      BY <2>1, <2>2, <2>6, <2>7, <2>9, <2>10, <2>11, <2>12 DEF ControlsInv
  <1>19. ASSUME NEW c \in Client, Finance!ResolveReconciliationException(c)
         PROVE  ControlsInv'
    BY <1>19 DEF Finance!ResolveReconciliationException, Finance!Done, Finance!Idle, Finance!ledger,
       Finance!controls, ControlsInv, ByAnother, Deciding, OnRecord, Verified
  <1>20. ASSUME NEW c \in Client, Finance!Abandon(c)
         PROVE  ControlsInv'
    BY <1>20 DEF Finance!Abandon, Finance!Done, Finance!Idle, Finance!tables, Finance!ledger,
       Finance!controls, ControlsInv, ByAnother, Deciding, OnRecord, Verified
  <1>21. ASSUME NEW r \in DOMAIN asked \union {None}, NEW p \in Person, NEW d \in Finance!Decisions,
     NEW read \in BOOLEAN, Finance!handleDecideFinancialApproval(r, p, d, read)
         PROVE  ControlsInv'
    <2> DEFINE approval == [request |-> r, approver |-> p, decision |-> d, compared |-> read]
    <2>1. /\ read => r \in DOMAIN asked /\ asked[r].createdBy # p
          /\ decisions' = Append(decisions, approval)
          /\ UNCHANGED <<asked, verifications, pc>>
      BY <1>21 DEF Finance!handleDecideFinancialApproval, Finance!Served, Finance!DecideFinancialApproval,
                  Finance!InsertFinancialApproval
    <2>2. approval \in Approval
      BY Rows DEF Approval, ControlsInv
    <2>3. /\ decisions' \in Seq(Approval)
          /\ DOMAIN decisions' = DOMAIN decisions \union {Len(decisions) + 1}
          /\ \A n \in DOMAIN decisions : decisions'[n] = decisions[n]
          /\ decisions'[Len(decisions) + 1] = approval
      BY <2>1, <2>2, Inserted DEF ControlsInv
    <2>4. \A q \in DOMAIN asked : Verified(q)' = Verified(q) /\ (OnRecord(q) => OnRecord(q)')
      BY <2>1, <2>3 DEF Verified, OnRecord
    <2>5. ByAnother'
      BY <2>1, <2>3 DEF ControlsInv, ByAnother
    <2>6. QED
      BY <2>1, <2>3, <2>4, <2>5 DEF ControlsInv, Deciding, Verified
  <1>22. ASSUME NEW r \in DOMAIN asked, Finance!handleCreateBankVerification(r)
         PROVE  ControlsInv'
    <2> DEFINE row == [status |-> "pending", verified |-> FALSE, due |-> FALSE]
    <2>1. /\ verifications[r] = None
          /\ verifications' = [verifications EXCEPT ![r] = row]
          /\ pc' = pc
          /\ UNCHANGED <<asked, decisions>>
      BY <1>22 DEF Finance!handleCreateBankVerification, Finance!Served, Finance!CreateBankVerification, ControlsInv
    <2>2. r \in DOMAIN asked /\ DOMAIN verifications = DOMAIN asked
      BY <2>1, Rows DEF ControlsInv, Deciding
    <2>3. verifications[r] \in Verification \union {None}
      BY <2>2, Rows DEF ControlsInv
    <2>4. row \in Verification
      BY <2>1, <2>3 DEF Verification
    <2>5. /\ verifications' \in Seq(Verification \union {None}) /\ Len(verifications') = Len(verifications)
          /\ \A q \in DOMAIN asked : verifications'[q] = IF q = r THEN row ELSE verifications[q]
      BY <2>1, <2>2, <2>4, Updated DEF ControlsInv
    <2>6. \A q \in DOMAIN asked : (Verified(q) => Verified(q)') /\ OnRecord(q)' = OnRecord(q)
      BY <2>1, <2>4, <2>5 DEF Verified, OnRecord
    <2>7. \A d \in Client : Deciding(d)'
      BY <2>1, <2>4, <2>5, <2>6, DecidingStays DEF ControlsInv
    <2>8. QED
      BY <2>1, <2>2, <2>5, <2>6, <2>7 DEF ControlsInv, ByAnother
  <1>23. ASSUME NEW r \in DOMAIN asked, Finance!PassExpiry(r)
         PROVE  ControlsInv'
    <2> DEFINE row == [verifications[r] EXCEPT !.due = TRUE]
    <2>1. /\ verifications[r] # None
          /\ verifications' = [verifications EXCEPT ![r] = row]
          /\ pc' = pc
          /\ UNCHANGED <<asked, decisions>>
      BY <1>23 DEF Finance!PassExpiry, Finance!ledger, ControlsInv
    <2>2. r \in DOMAIN asked /\ DOMAIN verifications = DOMAIN asked
      BY <2>1, Rows DEF ControlsInv, Deciding
    <2>3. verifications[r] \in Verification \union {None}
      BY <2>2, Rows DEF ControlsInv
    <2>4. row \in Verification /\ verifications[r] # None /\ row.verified = verifications[r].verified
      BY <2>1, <2>3 DEF Verification
    <2>5. /\ verifications' \in Seq(Verification \union {None}) /\ Len(verifications') = Len(verifications)
          /\ \A q \in DOMAIN asked : verifications'[q] = IF q = r THEN row ELSE verifications[q]
      BY <2>1, <2>2, <2>4, Updated DEF ControlsInv
    <2>6. \A q \in DOMAIN asked : (Verified(q) => Verified(q)') /\ OnRecord(q)' = OnRecord(q)
      BY <2>1, <2>4, <2>5 DEF Verified, OnRecord
    <2>7. \A d \in Client : Deciding(d)'
      BY <2>1, <2>4, <2>5, <2>6, DecidingStays DEF ControlsInv
    <2>8. QED
      BY <2>1, <2>2, <2>5, <2>6, <2>7 DEF ControlsInv, ByAnother
  <1>24. ASSUME NEW p \in Person, Finance!handleRecordReconciliationException(p)
         PROVE  ControlsInv'
    BY <1>24 DEF Finance!handleRecordReconciliationException, Finance!Served,
       Finance!RecordReconciliationException, Finance!ledger, Finance!controls, ControlsInv,
       ByAnother, Deciding, OnRecord, Verified
  <1>25. CASE Finance!handleCreateAccountingExport
    BY <1>25 DEF Finance!handleCreateAccountingExport, Finance!Served,
       Finance!CreateAccountingExport, Finance!ledger, Finance!controls, ControlsInv, ByAnother,
       Deciding, OnRecord, Verified
  <1>26. QED
    BY <1>1, <1>2, <1>3, <1>4, <1>5, <1>6, <1>7, <1>8, <1>9, <1>10, <1>11, <1>12, <1>13, <1>14,
       <1>15, <1>16, <1>17, <1>18, <1>19, <1>20, <1>21, <1>22, <1>23, <1>24, <1>25 DEF Finance!Next


\* No decision is by the maker of the request, but for financial approvals whose request could not be read, and
\* none overtakes the verification the request waits for (billing/service.go: DecideFinancialApproval).
THEOREM ControlsCorrect == Spec => []ApprovedUnderControls
  <1> DEFINE Inv == part = "finance" => ControlsInv
  <1>1. Init => Inv
    <2> SUFFICES ASSUME Init
                 PROVE  ControlsInv
      OBVIOUS
    <2>1. asked = <<>> /\ verifications = <<>> /\ decisions = <<>> /\ pc = [c \in Client |-> Finance!Idle]
      BY DEF Init, Finance!Init
    <2>2. QED
      BY <2>1, Empty DEF ControlsInv, ByAnother, Deciding, Finance!Idle
  <1>2. Inv /\ [Next]_vars => Inv'
    <2> SUFFICES ASSUME Inv, [Next]_vars, part' = "finance"
                 PROVE  ControlsInv'
      OBVIOUS
    <2>1. part = "finance" /\ ControlsInv
      BY Moves
    <2>2. CASE UNCHANGED <<finance, pc, requests>>
      BY <2>1, <2>2 DEF finance, ControlsInv, ByAnother, Deciding, OnRecord, Verified
    <2>3. QED
      BY <2>1, <2>2, ControlsStep, Moves
  <1>3. Inv => ApprovedUnderControls
    BY DEF ApprovedUnderControls, Finance!ApprovedUnderControls, Finance!FourEyes,
          Finance!VerifiedBeforeApproval, ControlsInv, OnRecord, Verified, ByAnother
  <1>4. QED
    BY <1>1, <1>2, <1>3, PTL DEF Spec

-----------------------------------------------------------------------------
(* The reports and what they were made of *)

\* What has been asked so far of a projection lies between two moments of the source.
Between(kind, low, answers, high) ==
  \A n \in DOMAIN answers : low[Reports!Asked[kind][n]] <= answers[n] /\ answers[n] <= high[Reports!Asked[kind][n]]

Moment == [Reports!Query -> Nat]
NotAfter(low, high) == \A q \in Reports!Query : low[q] <= high[q]

\* A payload has no field but these two, so that payloads are compared by them.
IsPayload(data) == data = [answers |-> data.answers, period |-> data.period]

Reading(c) ==
  LET f == pc[c] IN
  /\ f.op \in {"rebuild", "verify", "insert", "update"} =>
       /\ f.kind \in Kind
       /\ f.answers \in Seq(Nat)
       /\ Len(f.answers) <= Len(Reports!Asked[f.kind])
       /\ f.since \in Moment
       /\ NotAfter(f.since, source)
       /\ Between(f.kind, f.since, f.answers, source)
  /\ f.op \in {"insert", "update"} => Len(f.answers) = Len(Reports!Asked[f.kind])
  /\ f.op = "verify" => f.form = Kept /\ IsPayload(f.stored)

\* A verification that has been answered.
Answered ==
  verified # None =>
    LET stored == verified.stored.answers
        since == Reports!Held(verified.kind, verified.since)
        until == Reports!Held(verified.kind, verified.until)
    IN  /\ verified.match => Reports!AtMost(since, stored) /\ Reports!AtMost(stored, until)
        /\ since = until => (verified.match <=> stored = since /\ Reports!ShownAsKept(verified))

SnapshotsInv ==
  /\ DOMAIN pc = Client
  /\ DOMAIN snapshots = Kind /\ DOMAIN asOf = Kind
  /\ source \in Moment
  /\ \A k \in Kind : snapshots[k] # None =>
       /\ DOMAIN snapshots[k].data.answers = DOMAIN Reports!Asked[k]
       /\ \A n \in DOMAIN snapshots[k].data.answers : snapshots[k].data.answers[n] \in Nat
       /\ Between(k, asOf[k], snapshots[k].data.answers, source)
       /\ IsPayload(snapshots[k].data)
  /\ \A c \in Client : Reading(c)
  /\ Answered

\* What a projection asks is a sequence of queries.
LEMMA AskedIsTable ==
  ASSUME NEW k \in Kind
  PROVE  /\ Len(Reports!Asked[k]) \in Nat
         /\ DOMAIN Reports!Asked[k] = 1 .. Len(Reports!Asked[k])
         /\ \A n \in DOMAIN Reports!Asked[k] : Reports!Asked[k][n] \in Reports!Query
  <1> DEFINE Good(queries) == Len(queries) \in Nat /\ DOMAIN queries = 1 .. Len(queries)
  <1>1. Good(Reports!buildPropertyContribution)
    BY DEF Reports!buildPropertyContribution
  <1>2. Good(Reports!buildOwnerMonthlyReport)
    <2> DEFINE Name == {"charges", "credits", "recoveries", "closed tickets", "incidents", "open recoveries",
                        "movements", "incidents shown", "recoveries shown", "exceptions shown"}
    <2>1. Reports!buildPropertyContribution \in Seq(Name)
      BY DEF Reports!buildPropertyContribution
    <2>2. <<"closed tickets", "incidents", "open recoveries", "movements",
            "incidents shown", "recoveries shown", "exceptions shown">> \in Seq(Name)
      OBVIOUS
    <2>3. Reports!buildOwnerMonthlyReport \in Seq(Name)
      BY <2>1, <2>2, ConcatProperties DEF Reports!buildOwnerMonthlyReport
    <2>4. QED
      BY <2>3, LenProperties
  <1>3. /\ Good(Reports!buildReadiness)
        /\ Good(Reports!buildServiceLevelSummary)
        /\ Good(Reports!buildInventorySummary)
        /\ Good(Reports!buildApprovalPipeline)
        /\ Good(Reports!buildDocumentStatus)
        /\ Good(Reports!buildLaborTravelSummary)
    BY DEF Reports!buildReadiness, Reports!buildServiceLevelSummary, Reports!buildInventorySummary,
           Reports!buildApprovalPipeline, Reports!buildDocumentStatus, Reports!buildLaborTravelSummary
  <1>4. k \in DOMAIN Reports!Asked
    BY KindIsAsked
  <1>5. Good(Reports!Asked[k])
    <2> HIDE DEF Good
    <2>1. QED
      BY <1>1, <1>2, <1>3, <1>4 DEF Reports!Asked
  <1>6. QED
    BY <1>5 DEF Reports!Query

\* The source only goes on: what lay between two moments still does.
LEMMA BetweenStays ==
  ASSUME NEW k \in Kind, NEW low, NEW answers, NEW high \in Moment, NEW higher \in Moment,
         NotAfter(high, higher), Between(k, low, answers, high),
         DOMAIN answers \subseteq DOMAIN Reports!Asked[k], \A n \in DOMAIN answers : answers[n] \in Nat
  PROVE  Between(k, low, answers, higher)
  <1> SUFFICES ASSUME NEW n \in DOMAIN answers
               PROVE  answers[n] <= higher[Reports!Asked[k][n]]
    BY DEF Between
  <1>1. Reports!Asked[k][n] \in Reports!Query
    BY AskedIsTable
  <1>2. QED
    BY <1>1 DEF Between, NotAfter, Moment

\* Answers to all that is asked, compared with what the source held.
LEMMA BetweenHeld ==
  ASSUME NEW k \in Kind, NEW low, NEW answers, NEW high,
         DOMAIN answers = DOMAIN Reports!Asked[k],
         Between(k, low, answers, high)
  PROVE  Reports!AtMost(Reports!Held(k, low), answers) /\ Reports!AtMost(answers, Reports!Held(k, high))
  BY DEF Between, Reports!AtMost, Reports!Held

\* One frame goes on, the tables stay.
LEMMA ReadingGoes ==
  ASSUME SnapshotsInv, NEW c \in Client, NEW frame, pc' = [pc EXCEPT ![c] = frame],
         UNCHANGED <<source, snapshots, asOf, verified>>,
         Reading(c)'
  PROVE  SnapshotsInv'
  <1>1. \A d \in Client : Reading(d)'
    <2> SUFFICES ASSUME NEW d \in Client \ {c}
                 PROVE  Reading(d)'
      OBVIOUS
    <2>1. pc'[d] = pc[d] /\ Reading(d)
      BY DEF SnapshotsInv
    <2>2. QED
      BY <2>1 DEF Reading
  <1>2. QED
    BY <1>1 DEF SnapshotsInv, Answered

\* The source goes on and the answers are taken from it, so what a frame has read lies
\* between its beginning and the moment, and so does what it stores or answers.
LEMMA SnapshotsStep ==
  ASSUME SnapshotsInv, Reports!Next
  PROVE  SnapshotsInv'
  <1>1. ASSUME NEW q \in Edited, Reports!EditSource(q)
        PROVE  SnapshotsInv'
    <2>1. /\ source' = [source EXCEPT ![q] = @ + 1]
          /\ UNCHANGED <<snapshots, asOf, verified, pc>>
      BY <1>1 DEF Reports!EditSource, Reports!ghosts
    <2>2. source \in Moment /\ source' \in Moment /\ NotAfter(source, source')
      <3>1. source \in [Reports!Query -> Nat]
        BY DEF SnapshotsInv, Moment
      <3>2. \A p \in Reports!Query : source'[p] = IF p = q THEN source[p] + 1 ELSE source[p]
        BY <2>1, <3>1
      <3>3. DOMAIN source' = Reports!Query /\ source' = [p \in Reports!Query |-> source'[p]]
        BY <2>1, <3>1
      <3>4. \A p \in Reports!Query : source[p] \in Nat /\ source'[p] \in Nat /\ source[p] <= source'[p]
        BY <3>1, <3>2
      <3>5. QED
        BY <3>1, <3>3, <3>4 DEF Moment, NotAfter
    <2>3. ASSUME NEW k \in Kind, snapshots[k] # None
          PROVE  Between(k, asOf[k], snapshots[k].data.answers, source')
      <3>1. /\ DOMAIN snapshots[k].data.answers = DOMAIN Reports!Asked[k]
            /\ Between(k, asOf[k], snapshots[k].data.answers, source)
            /\ \A n \in DOMAIN snapshots[k].data.answers : snapshots[k].data.answers[n] \in Nat
        BY <2>3 DEF SnapshotsInv
      <3>2. QED
        BY <2>2, <3>1, BetweenStays
    <2>4. ASSUME NEW c \in Client
          PROVE  Reading(c)'
      <3>1. Reading(c) /\ pc'[c] = pc[c]
        BY <2>1 DEF SnapshotsInv
      <3>2. ASSUME pc[c].op \in {"rebuild", "verify", "insert", "update"}
            PROVE  Between(pc[c].kind, pc[c].since, pc[c].answers, source') /\ NotAfter(pc[c].since, source')
        <4>1. /\ pc[c].kind \in Kind /\ pc[c].answers \in Seq(Nat)
              /\ Len(pc[c].answers) <= Len(Reports!Asked[pc[c].kind])
              /\ pc[c].since \in Moment /\ NotAfter(pc[c].since, source)
              /\ Between(pc[c].kind, pc[c].since, pc[c].answers, source)
          BY <3>1, <3>2 DEF Reading
        <4>2. /\ DOMAIN pc[c].answers \subseteq DOMAIN Reports!Asked[pc[c].kind]
              /\ \A n \in DOMAIN pc[c].answers : pc[c].answers[n] \in Nat
          BY <4>1, AskedIsTable, Rows
        <4>3. NotAfter(pc[c].since, source')
          BY <2>2, <4>1 DEF NotAfter, Moment
        <4>4. QED
          BY <2>2, <4>1, <4>2, <4>3, BetweenStays
      <3>3. QED
        BY <3>1, <3>2 DEF Reading
    <2>5. QED
      BY <2>1, <2>2, <2>3, <2>4 DEF SnapshotsInv, Answered
  <1>2. CASE Reports!handleRecordWorkerMetric
    <2>1. UNCHANGED <<source, snapshots, asOf, verified, pc>>
      BY <1>2 DEF Reports!handleRecordWorkerMetric, Reports!RecordWorkerMetric, Reports!Served, Reports!ghosts
    <2>2. QED
      BY <2>1 DEF SnapshotsInv, Reading, Answered
  <1>3. ASSUME NEW c \in Client, NEW k \in Kind, NEW form \in Written, Reports!handleRebuildSnapshot(c, k, form)
        PROVE  SnapshotsInv'
    <2> DEFINE frame == Reports!Building(k, "rebuild", form, None)
    <2>1. /\ pc' = [pc EXCEPT ![c] = frame]
          /\ UNCHANGED <<source, snapshots, asOf, verified>>
      BY <1>3 DEF Reports!handleRebuildSnapshot, Reports!Begin, Reports!tables, Reports!ghosts
    <2>2. pc'[c] = frame
      BY <2>1 DEF SnapshotsInv
    <2>3. Reading(c)'
      <3>1. /\ frame.kind = k /\ frame.answers = <<>> /\ frame.since = source
            /\ frame.op = "rebuild"
        BY DEF Reports!Building
      <3>2. <<>> \in Seq(Nat) /\ Len(<<>>) = 0 /\ DOMAIN <<>> = {}
        BY Empty
      <3>3. source' = source /\ source \in Moment /\ NotAfter(source, source)
        BY <2>1 DEF SnapshotsInv, Moment, NotAfter
      <3>4. Between(k, source, <<>>, source)
        BY <3>2 DEF Between
      <3>5. 0 <= Len(Reports!Asked[k])
        BY AskedIsTable
      <3>6. QED
        BY <2>2, <3>1, <3>2, <3>3, <3>4, <3>5 DEF Reading
    <2>4. QED
      BY <2>1, <2>3, ReadingGoes
  <1>4. ASSUME NEW c \in Client, NEW k \in Kind, Reports!handleVerifySnapshot(c, k)
        PROVE  SnapshotsInv'
    <2> DEFINE frame == Reports!Building(k, "verify", Kept, snapshots[k].data)
    <2>1. /\ pc' = [pc EXCEPT ![c] = frame]
          /\ UNCHANGED <<source, snapshots, asOf, verified>>
      BY <1>4 DEF Reports!handleVerifySnapshot, Reports!Begin, Reports!tables, Reports!ghosts
    <2>2. pc'[c] = frame
      BY <2>1 DEF SnapshotsInv
    <2>3. Reading(c)'
      <3>1. /\ frame.kind = k /\ frame.answers = <<>> /\ frame.since = source
            /\ frame.op = "verify" /\ frame.form = Kept /\ IsPayload(frame.stored)
        BY <1>4 DEF Reports!Building, Reports!handleVerifySnapshot, SnapshotsInv
      <3>2. <<>> \in Seq(Nat) /\ Len(<<>>) = 0 /\ DOMAIN <<>> = {}
        BY Empty
      <3>3. source' = source /\ source \in Moment /\ NotAfter(source, source)
        BY <2>1 DEF SnapshotsInv, Moment, NotAfter
      <3>4. Between(k, source, <<>>, source)
        BY <3>2 DEF Between
      <3>5. 0 <= Len(Reports!Asked[k])
        BY AskedIsTable
      <3>6. QED
        BY <2>2, <3>1, <3>2, <3>3, <3>4, <3>5 DEF Reading
    <2>4. QED
      BY <2>1, <2>3, ReadingGoes
  <1>5. ASSUME NEW c \in Client, Reports!Ask(c)
        PROVE  SnapshotsInv'
    <2> DEFINE frame == [pc[c] EXCEPT !.answers = Append(@, source[Reports!Asked[pc[c].kind][Len(@) + 1]])]
    <2>1. /\ pc' = [pc EXCEPT ![c] = frame]
          /\ UNCHANGED <<source, snapshots, asOf, verified>>
      BY <1>5 DEF Reports!Ask, Reports!Goes, Reports!Under, Reports!tables, Reports!ghosts
    <2>2. pc'[c] = frame
      BY <2>1 DEF SnapshotsInv
    <2>3. Reading(c)'
      <3> DEFINE f == pc[c]
                 told == source[Reports!Asked[f.kind][Len(f.answers) + 1]]
      <3>1. f.op \in {"rebuild", "verify"} /\ Len(f.answers) # Len(Reports!Asked[f.kind]) /\ Reading(c)
        BY <1>5 DEF Reports!Ask, Reports!Built, SnapshotsInv
      <3>2. /\ f.kind \in Kind /\ f.answers \in Seq(Nat) /\ Len(f.answers) <= Len(Reports!Asked[f.kind])
            /\ f.since \in Moment /\ NotAfter(f.since, source) /\ Between(f.kind, f.since, f.answers, source)
        BY <3>1 DEF Reading
      <3>3. Reports!Asked[f.kind][Len(f.answers) + 1] \in Reports!Query
        <4>1. Len(f.answers) \in Nat /\ Len(Reports!Asked[f.kind]) \in Nat
          BY <3>2, AskedIsTable, Rows
        <4>2. Len(f.answers) + 1 \in 1 .. Len(Reports!Asked[f.kind])
          BY <3>1, <3>2, <4>1
        <4>3. QED
          BY <3>2, <4>2, AskedIsTable
      <3>4. told \in Nat /\ f.since[Reports!Asked[f.kind][Len(f.answers) + 1]] <= told
        BY <3>2, <3>3, SMTT(30) DEF SnapshotsInv, Moment, NotAfter
      <3>5. /\ Append(f.answers, told) \in Seq(Nat)
            /\ Len(Append(f.answers, told)) = Len(f.answers) + 1
            /\ DOMAIN Append(f.answers, told) = DOMAIN f.answers \union {Len(f.answers) + 1}
            /\ \A n \in DOMAIN f.answers : Append(f.answers, told)[n] = f.answers[n]
            /\ Append(f.answers, told)[Len(f.answers) + 1] = told
        BY <3>2, <3>4, Inserted, SMTT(30)
      <3>6. Between(f.kind, f.since, Append(f.answers, told), source)
        <4>1. told <= source[Reports!Asked[f.kind][Len(f.answers) + 1]]
          BY <3>4
        <4>2. QED
          BY <3>2, <3>4, <3>5, <4>1 DEF Between
      <3>7. Len(f.answers) + 1 <= Len(Reports!Asked[f.kind])
        BY <3>1, <3>2, AskedIsTable, Rows
      <3>8. /\ pc'[c].op = f.op /\ pc'[c].kind = f.kind /\ pc'[c].since = f.since
            /\ pc'[c].form = f.form /\ pc'[c].stored = f.stored
            /\ pc'[c].answers = Append(f.answers, told)
        BY <2>2
      <3>9. source' = source
        BY <2>1
      <3>10. f.op = "verify" => f.form = Kept /\ IsPayload(f.stored)
        BY <3>1 DEF Reading
      <3>11. pc'[c].op = "verify" => pc'[c].form = Kept /\ IsPayload(pc'[c].stored)
        BY <3>8, <3>10
      <3>12. /\ pc'[c].kind \in Kind /\ pc'[c].answers \in Seq(Nat)
             /\ Len(pc'[c].answers) <= Len(Reports!Asked[pc'[c].kind])
             /\ pc'[c].since \in Moment /\ NotAfter(pc'[c].since, source')
             /\ Between(pc'[c].kind, pc'[c].since, pc'[c].answers, source')
        <4> HIDE DEF f, told, frame
        <4>1. QED
          BY <3>2, <3>5, <3>6, <3>7, <3>8, <3>9
      <3>13. pc'[c].op \notin {"insert", "update"}
        BY <3>1, <3>8
      <3>14. QED
        BY <3>11, <3>12, <3>13 DEF Reading
    <2>4. QED
      BY <2>1, <2>3, ReadingGoes
  <1>6. ASSUME NEW c \in Client, Reports!RebuildSnapshot(c)
        PROVE  SnapshotsInv'
    <2> DEFINE frame == [pc[c] EXCEPT !.op = IF snapshots[pc[c].kind] = None THEN "insert" ELSE "update"]
    <2>1. /\ pc' = [pc EXCEPT ![c] = frame]
          /\ UNCHANGED <<source, snapshots, asOf, verified>>
      BY <1>6 DEF Reports!RebuildSnapshot, Reports!Goes, Reports!Under, Reports!tables, Reports!ghosts
    <2>2. pc'[c] = frame
      BY <2>1 DEF SnapshotsInv
    <2>3. Reading(c)'
      BY <1>6, <2>1, <2>2 DEF Reports!RebuildSnapshot, Reports!Under, Reports!Built, SnapshotsInv, Reading
    <2>4. QED
      BY <2>1, <2>3, ReadingGoes
  <1>7. ASSUME NEW c \in Client, Reports!InsertSnapshot(c)
        PROVE  SnapshotsInv'
    <2>0. PICK k : k = pc[c].kind
      OBVIOUS
    <2> DEFINE f == pc[c]
               row == [data |-> Reports!Payload(f.kind, f.answers, f.form), version |-> 1]
    <2>1. /\ f.op \in {"insert", "update"} /\ Reading(c)
          /\ snapshots' = [snapshots EXCEPT ![k] = row]
          /\ asOf' = [asOf EXCEPT ![k] = f.since]
          /\ pc' = [pc EXCEPT ![c] = Reports!Idle]
          /\ UNCHANGED <<source, verified>>
      BY <1>7, <2>0 DEF Reports!InsertSnapshot, Reports!Under, Reports!Stored, Reports!Done, Reports!Goes, SnapshotsInv
    <2>2. k \in Kind /\ f.answers \in Seq(Nat) /\ Len(f.answers) = Len(Reports!Asked[k])
          /\ Between(k, f.since, f.answers, source)
      BY <2>0, <2>1 DEF Reading
    <2>3. DOMAIN f.answers = DOMAIN Reports!Asked[k] /\ \A n \in DOMAIN f.answers : f.answers[n] \in Nat
      BY <2>2, Rows, AskedIsTable
    <2>4. /\ snapshots'[k] = row /\ asOf'[k] = f.since
          /\ \A j \in Kind : j # k => snapshots'[j] = snapshots[j] /\ asOf'[j] = asOf[j]
      BY <2>1, <2>2 DEF SnapshotsInv
    <2>5. row.data.answers = f.answers /\ IsPayload(row.data)
      BY DEF Reports!Payload, IsPayload
    <2>6. \A j \in Kind : snapshots'[j] # None =>
            /\ DOMAIN snapshots'[j].data.answers = DOMAIN Reports!Asked[j]
            /\ \A n \in DOMAIN snapshots'[j].data.answers : snapshots'[j].data.answers[n] \in Nat
            /\ Between(j, asOf'[j], snapshots'[j].data.answers, source')
            /\ IsPayload(snapshots'[j].data)
      BY <2>1, <2>2, <2>3, <2>4, <2>5 DEF SnapshotsInv
    <2>7. ASSUME NEW d \in Client
          PROVE  Reading(d)'
      <3>1. pc'[d] = Reports!Idle \/ pc'[d] = pc[d]
        BY <2>1 DEF SnapshotsInv
      <3>2. QED
        BY <2>1, <3>1 DEF SnapshotsInv, Reading, Reports!Idle
    <2>8. QED
      BY <2>1, <2>6, <2>7 DEF SnapshotsInv, Answered
  <1>8. ASSUME NEW c \in Client, Reports!UpdateSnapshot(c)
        PROVE  SnapshotsInv'
    <2>0. PICK k : k = pc[c].kind
      OBVIOUS
    <2> DEFINE f == pc[c]
               row == [data |-> Reports!Payload(f.kind, f.answers, f.form), version |-> snapshots[pc[c].kind].version + 1]
    <2>1. /\ f.op \in {"insert", "update"} /\ Reading(c)
          /\ snapshots' = [snapshots EXCEPT ![k] = row]
          /\ asOf' = [asOf EXCEPT ![k] = f.since]
          /\ pc' = [pc EXCEPT ![c] = Reports!Idle]
          /\ UNCHANGED <<source, verified>>
      BY <1>8, <2>0 DEF Reports!UpdateSnapshot, Reports!Under, Reports!Stored, Reports!Done, Reports!Goes, SnapshotsInv
    <2>2. k \in Kind /\ f.answers \in Seq(Nat) /\ Len(f.answers) = Len(Reports!Asked[k])
          /\ Between(k, f.since, f.answers, source)
      BY <2>0, <2>1 DEF Reading
    <2>3. DOMAIN f.answers = DOMAIN Reports!Asked[k] /\ \A n \in DOMAIN f.answers : f.answers[n] \in Nat
      BY <2>2, Rows, AskedIsTable
    <2>4. /\ snapshots'[k] = row /\ asOf'[k] = f.since
          /\ \A j \in Kind : j # k => snapshots'[j] = snapshots[j] /\ asOf'[j] = asOf[j]
      BY <2>1, <2>2 DEF SnapshotsInv
    <2>5. row.data.answers = f.answers /\ IsPayload(row.data)
      BY DEF Reports!Payload, IsPayload
    <2>6. \A j \in Kind : snapshots'[j] # None =>
            /\ DOMAIN snapshots'[j].data.answers = DOMAIN Reports!Asked[j]
            /\ \A n \in DOMAIN snapshots'[j].data.answers : snapshots'[j].data.answers[n] \in Nat
            /\ Between(j, asOf'[j], snapshots'[j].data.answers, source')
            /\ IsPayload(snapshots'[j].data)
      BY <2>1, <2>2, <2>3, <2>4, <2>5 DEF SnapshotsInv
    <2>7. ASSUME NEW d \in Client
          PROVE  Reading(d)'
      <3>1. pc'[d] = Reports!Idle \/ pc'[d] = pc[d]
        BY <2>1 DEF SnapshotsInv
      <3>2. QED
        BY <2>1, <3>1 DEF SnapshotsInv, Reading, Reports!Idle
    <2>8. QED
      BY <2>1, <2>6, <2>7 DEF SnapshotsInv, Answered
  <1>9. ASSUME NEW c \in Client, Reports!VerifySnapshot(c)
        PROVE  SnapshotsInv'
    <2> DEFINE f == pc[c]
               stored == f.stored
               fresh == Reports!Payload(f.kind, f.answers, f.form)
               since == Reports!Held(f.kind, f.since)
               until == Reports!Held(f.kind, source)
    <2>1. /\ f.op = "verify" /\ Reading(c) /\ Len(f.answers) = Len(Reports!Asked[f.kind])
          /\ verified' = [kind |-> f.kind, stored |-> f.stored,
                          since |-> f.since, until |-> source,
                          match |-> Reports!Matches(f.kind, f.stored, fresh)]
          /\ pc' = [pc EXCEPT ![c] = Reports!Idle]
          /\ UNCHANGED <<source, snapshots, asOf>>
      BY <1>9 DEF Reports!VerifySnapshot, Reports!Under, Reports!Built, Reports!Done, Reports!Goes,
                Reports!tables, SnapshotsInv
    <2>2. /\ f.kind \in Kind /\ DOMAIN f.answers = DOMAIN Reports!Asked[f.kind]
          /\ f.answers \in [DOMAIN f.answers -> Nat]
          /\ Between(f.kind, f.since, f.answers, source)
          /\ f.since \in Moment /\ source \in Moment
      BY <2>1, Rows, AskedIsTable, LenProperties DEF Reading, SnapshotsInv
    <2>3. Reports!AtMost(since, f.answers) /\ Reports!AtMost(f.answers, until)
      BY <2>2, BetweenHeld
    <2>4. /\ fresh.answers = f.answers /\ fresh.period = Reports!PeriodShown(f.kind, Kept) /\ IsPayload(fresh)
          /\ IsPayload(stored)
      BY <2>1 DEF Reports!Payload, IsPayload, Reading
    <2>10. Reports!Matches(f.kind, stored, fresh)
             <=> stored.answers = f.answers /\ stored.period = Reports!PeriodShown(f.kind, Kept)
      <3>1. stored = fresh <=> stored.answers = fresh.answers /\ stored.period = fresh.period
        BY <2>4 DEF IsPayload
      <3>2. QED
        BY <2>4, <3>1 DEF Reports!Matches
    <2>5. ASSUME since = until
          PROVE  f.answers = since
      <3>1. DOMAIN since = DOMAIN f.answers /\ since \in [DOMAIN since -> Nat]
        BY <2>2, AskedIsTable DEF Reports!Held, Moment
      <3>2. \A n \in DOMAIN f.answers : f.answers[n] = since[n]
        BY <2>2, <2>3, <2>5, <3>1 DEF Reports!AtMost
      <3>3. QED
        BY <2>2, <3>1, <3>2
    <2>6. Answered'
      <3>1. /\ verified'.stored = stored /\ verified'.kind = f.kind
            /\ verified'.since = f.since /\ verified'.until = source
            /\ verified'.match <=> stored.answers = f.answers /\ stored.period = Reports!PeriodShown(f.kind, Kept)
        BY <2>1, <2>10
      <3>2. QED
        BY <2>3, <2>5, <3>1 DEF Answered, Reports!ShownAsKept
    <2>7. ASSUME NEW d \in Client
          PROVE  Reading(d)'
      <3>1. pc'[d] = Reports!Idle \/ pc'[d] = pc[d]
        BY <2>1 DEF SnapshotsInv
      <3>2. QED
        BY <2>1, <3>1 DEF SnapshotsInv, Reading, Reports!Idle
    <2>8. QED
      BY <2>1, <2>6, <2>7 DEF SnapshotsInv
  <1>10. ASSUME NEW c \in Client, Reports!Abandon(c)
         PROVE  SnapshotsInv'
    <2> DEFINE frame == Reports!Idle
    <2>1. /\ pc' = [pc EXCEPT ![c] = frame]
          /\ UNCHANGED <<source, snapshots, asOf, verified>>
      BY <1>10 DEF Reports!Abandon, Reports!Dropped, Reports!Done, Reports!Goes, Reports!tables, Reports!ghosts
    <2>2. pc'[c] = frame
      BY <2>1 DEF SnapshotsInv
    <2>3. Reading(c)'
      BY <2>2 DEF Reading, Reports!Idle
    <2>4. QED
      BY <2>1, <2>3, ReadingGoes
  <1>11. QED
    BY <1>1, <1>2, <1>3, <1>4, <1>5, <1>6, <1>7, <1>8, <1>9, <1>10 DEF Reports!Next

\* A verification is right about a source that kept still, unless a report shows its period otherwise than the
\* database gives it back, and a snapshot holds what was there after its rebuild began
\* (reporting/service.go: VerifySnapshot).
THEOREM SnapshotsCorrect == Spec => []SnapshotsVerify
  <1> DEFINE Inv == part = "reports" => SnapshotsInv
  <1>1. Init => Inv
    <2> SUFFICES ASSUME Init, part = "reports"
                 PROVE  SnapshotsInv
      OBVIOUS
    <2>1. /\ source = [q \in Reports!Query |-> 0]
          /\ asOf = [k \in Kind |-> source] /\ verified = None
          /\ pc = [c \in Client |-> Reports!Idle]
          /\ \/ snapshots = [k \in Kind |-> None]
             \/ \E form \in Written :
                  snapshots = [k \in Kind |-> [data |-> Reports!Payload(k, Reports!Held(k, source), form), version |-> 1]]
      BY DEF Init, Reports!Init, Reports!NoRequests
    <2>2. ASSUME NEW k \in Kind, snapshots[k] # None
          PROVE  /\ DOMAIN snapshots[k].data.answers = DOMAIN Reports!Asked[k]
                 /\ \A n \in DOMAIN snapshots[k].data.answers : snapshots[k].data.answers[n] \in Nat
                 /\ Between(k, asOf[k], snapshots[k].data.answers, source)
                 /\ IsPayload(snapshots[k].data)
      <3>1. snapshots[k].data.answers = Reports!Held(k, source) /\ asOf[k] = source /\ IsPayload(snapshots[k].data)
        BY <2>1, <2>2 DEF Reports!Payload, IsPayload
      <3>2. \A n \in DOMAIN Reports!Asked[k] : source[Reports!Asked[k][n]] \in Nat
                                                 /\ Reports!Held(k, source)[n] \in Nat
        BY <2>1, AskedIsTable DEF Reports!Held
      <3>3. QED
        BY <3>1, <3>2 DEF Reports!Held, Between
    <2>3. \A c \in Client : Reading(c)
      BY <2>1 DEF Reading, Reports!Idle
    <2>4. QED
      BY <2>1, <2>2, <2>3 DEF SnapshotsInv, Answered, Moment
  <1>2. Inv /\ [Next]_vars => Inv'
    <2> SUFFICES ASSUME Inv, [Next]_vars, part' = "reports"
                 PROVE  SnapshotsInv'
      OBVIOUS
    <2>1. part = "reports" /\ SnapshotsInv
      BY Moves
    <2>2. CASE UNCHANGED <<reports, pc, requests>>
      BY <2>1, <2>2 DEF reports, SnapshotsInv, Reading, Answered
    <2>3. QED
      BY <2>1, <2>2, SnapshotsStep, Moves
  <1>3. Inv => SnapshotsVerify
    <2> SUFFICES ASSUME SnapshotsInv
                 PROVE  Reports!SnapshotsVerify
      BY DEF SnapshotsVerify
    <2>1. \A k \in Kind : snapshots[k] # None =>
            /\ Reports!AtMost(Reports!Held(k, asOf[k]), snapshots[k].data.answers)
            /\ Reports!AtMost(snapshots[k].data.answers, Reports!Held(k, source))
      BY BetweenHeld DEF SnapshotsInv
    <2>2. QED
      BY <2>1 DEF SnapshotsInv, Answered, Reports!SnapshotsVerify
  <1>4. QED
    BY <1>1, <1>2, <1>3, PTL DEF Spec
=============================================================================
