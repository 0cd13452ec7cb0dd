-------------------------------- MODULE Fleet --------------------------------
(* One electric vehicle (internal/fleet): its custody, the incidents that     *)
(* freeze it until they are reviewed, its safety items and inspections, the   *)
(* check of what forbids its dispatch, and the locations collected from its   *)
(* custodian.  A handover reads the asset before the transaction that sets    *)
(* its custodian and status; its custody event has the time at which that     *)
(* transaction began, which need not be the order they commit in.  A review   *)
(* counts the open incidents it can see in its transaction, which is not what *)
(* others are about to commit.                                                *)
EXTENDS Requests, Sequences

CONSTANTS None, Worker,
          MaxRows        \* bound: rows of each table

VARIABLES asset,         \* the row of fleet_assets, with its battery; None before
          custody,       \* fleet_custody_events, as they were committed: [type, from, to, at]
          now,           \* the time, which goes on as custody transactions begin
          incidents,     \* fleet_incidents, by their status
          items,         \* fleet_maintenance: [status, due], due or not due yet
          inspections,   \* fleet_inspections, passing or not
          samples,       \* fleet_tracking_events: [worker, event]
          raced,         \* incidents recorded beside a handover or a review
          answer         \* the last answer of the check, and what was open all through it

tables == <<asset, custody, incidents, items, inspections, samples>>
vars == <<tables, now, raced, answer, pc, requests>>

Init ==
  /\ asset = None
  /\ custody = <<>>
  /\ now = 0
  /\ incidents = <<>>
  /\ items = <<>>
  /\ inspections = <<>>
  /\ samples = {}
  /\ raced = {}
  /\ answer = None
  /\ NoRequests

OpenIncidents == {i \in DOMAIN incidents : incidents[i] = "open"}
IsFrozen(row) == row.status = "frozen"
Room(rows) == Len(rows) < MaxRows

----------------------------------------------------------------------------
(* The statements of the store                                               *)

InsertAsset == asset' = [custodian |-> None, status |-> "available"]

FreezeAsset == asset' = [asset EXCEPT !.status = "frozen"]

UnfreezeAsset == IsFrozen(asset) /\ asset' = [asset EXCEPT !.status = "available"]

SetCustodian(to) == asset' = [custodian |-> to, status |-> "assigned"]

(* A frozen asset is returned and stays frozen.                               *)
ClearCustodian ==
  asset' = [custodian |-> None, status |-> IF asset.status = "assigned" THEN "available" ELSE asset.status]

(* created_at is NOW(), the time at which the transaction began ...           *)
InsertCustodyEvent(type, from, to, at) ==
  Room(custody) /\ custody' = Append(custody, [type |-> type, from |-> from, to |-> to, at |-> at])

(* ... and it is what the events are ordered by.                              *)
LatestCustodyEvent == CHOOSE e \in DOMAIN custody : \A d \in DOMAIN custody : custody[d].at <= custody[e].at

InsertInspection(passing) == Room(inspections) /\ inspections' = Append(inspections, passing)

InsertMaintenanceRecord(due) == Room(items) /\ items' = Append(items, [status |-> "open", due |-> due])

CompleteMaintenanceRecord(i) ==
  /\ items[i].status = "open"
  /\ items' = [items EXCEPT ![i].status = "completed"]

InsertIncident == Room(incidents) /\ incidents' = Append(incidents, "open")

ResolveIncident(i) == incidents[i] = "open" /\ incidents' = [incidents EXCEPT ![i] = "resolved"]

(* A fault: the incident under review is the only one looked at.              *)
CountThisIncident(i) == {}

(* The incidents that are open but for the one resolved in the transaction.   *)
CountOpenIncidents(i) == OpenIncidents \ {i}

InsertTrackingEvent(worker, event) == samples' = samples \union {[worker |-> worker, event |-> event]}

----------------------------------------------------------------------------
(* The asset, its safety items and its inspections                           *)

CreateAsset == asset = None /\ InsertAsset /\ UNCHANGED <<custody, now, incidents, items, inspections, samples, raced, answer>>
handleCreateAsset == Served /\ CreateAsset

ScheduleSafetyItem(due) ==
  /\ asset # None
  /\ InsertMaintenanceRecord(due)
  /\ UNCHANGED <<asset, custody, now, incidents, inspections, samples, raced, answer>>
handleScheduleSafetyItem(due) == Served /\ ScheduleSafetyItem(due)

CompleteSafetyItem(i) ==
  /\ CompleteMaintenanceRecord(i)
  /\ UNCHANGED <<asset, custody, now, incidents, inspections, samples, raced, answer>>
handleCompleteSafetyItem(i) == Served /\ CompleteSafetyItem(i)

RecordInspection(passing) ==
  /\ asset # None
  /\ InsertInspection(passing)
  /\ UNCHANGED <<asset, custody, now, incidents, items, samples, raced, answer>>
handleRecordInspection(passing) == Served /\ RecordInspection(passing)

----------------------------------------------------------------------------
(* Custody                                                                   *)

handleHandover(c, from, to) ==
  /\ asset # None
  /\ asset.custodian \in {None, from}
  /\ ~IsFrozen(asset)
  /\ Begin(c, [op |-> "handover", from |-> from, to |-> to, at |-> None])
  /\ UNCHANGED <<tables, now, raced, answer>>

(* A return may name who received the vehicle; nobody is its custodian then.  *)
handleReturn(c, to) ==
  /\ asset # None
  /\ asset.custodian # None
  /\ Begin(c, [op |-> "return", from |-> asset.custodian, to |-> to, at |-> None])
  /\ UNCHANGED <<tables, now, raced, answer>>

(* WithTx: the time the transaction has is that of its beginning.             *)
BeginTx(c) ==
  /\ pc[c].op \in {"handover", "return"}
  /\ pc[c].at = None
  /\ now' = now + 1
  /\ Goes(c, [op |-> pc[c].op, from |-> pc[c].from, to |-> pc[c].to, at |-> now'])
  /\ UNCHANGED <<tables, raced, answer>>

(* Its update of the asset holds the row until it commits.                    *)
Handover(c) ==
  LET f == pc[c] IN
  /\ Under(c, "handover")
  /\ f.at # None
  /\ InsertCustodyEvent("handover", f.from, f.to, f.at)
  /\ SetCustodian(f.to)
  /\ Done(c)
  /\ UNCHANGED <<now, incidents, items, inspections, samples, raced, answer>>

Return(c) ==
  LET f == pc[c] IN
  /\ Under(c, "return")
  /\ f.at # None
  /\ InsertCustodyEvent("return", f.from, f.to, f.at)
  /\ ClearCustodian
  /\ Done(c)
  /\ UNCHANGED <<now, incidents, items, inspections, samples, raced, answer>>

(* GetAssetByCustodian, and then whatever event is the latest by then.        *)
handleCollectLocation(c, worker) ==
  /\ asset # None
  /\ asset.custodian = worker
  /\ Begin(c, [op |-> "locate", worker |-> worker])
  /\ UNCHANGED <<tables, now, raced, answer>>

CollectLocation(c) ==
  /\ Under(c, "locate")
  /\ custody # <<>>
  /\ InsertTrackingEvent(pc[c].worker, LatestCustodyEvent)
  /\ Done(c)
  /\ UNCHANGED <<asset, custody, now, incidents, items, inspections, raced, answer>>

----------------------------------------------------------------------------
(* Incidents                                                                 *)

Unfreezing == \E c \in Client : pc[c].op \in {"handover", "reviewed"}

RecordIncident ==
  /\ asset # None
  /\ InsertIncident
  /\ FreezeAsset
  /\ raced' = IF Unfreezing THEN raced \union {Len(incidents')} ELSE raced
  /\ UNCHANGED <<custody, now, items, inspections, samples, answer>>
handleRecordIncident == Served /\ RecordIncident

(* One transaction in two steps: what others commit between its count of the  *)
(* open incidents and its update of the asset it does not see.                *)
handleReviewIncident(c, i) ==
  /\ incidents[i] = "open"
  /\ Begin(c, [op |-> "reviewed", incident |-> i, remaining |-> CountOpenIncidents(i)])
  /\ UNCHANGED <<tables, now, raced, answer>>

ReviewIncident(c) ==
  LET f == pc[c] IN
  /\ Under(c, "reviewed")
  /\ ResolveIncident(f.incident)
  /\ IF f.remaining = {} THEN UnfreezeAsset ELSE UNCHANGED asset
  /\ Done(c)
  /\ UNCHANGED <<custody, now, items, inspections, samples, raced, answer>>

----------------------------------------------------------------------------
(* The check before a dispatch: four reads and a pure policy                 *)

EvaluateDispatch(row, overdue, open, latest) == ~IsFrozen(row) /\ open = {} /\ overdue = {} /\ latest

handleDispatchEligibility(c) ==
  /\ asset # None
  /\ Begin(c, [op |-> "overdue", row |-> asset, begun |-> OpenIncidents])
  /\ UNCHANGED <<tables, now, raced, answer>>

ListOverdueSafetyItems(c) ==
  /\ Under(c, "overdue")
  /\ Goes(c, [op |-> "open", row |-> pc[c].row, begun |-> pc[c].begun,
              overdue |-> {i \in DOMAIN items : items[i].status = "open" /\ items[i].due}])
  /\ UNCHANGED <<tables, now, raced, answer>>

ListOpenIncidents(c) ==
  /\ Under(c, "open")
  /\ Goes(c, [op |-> "latest", row |-> pc[c].row, begun |-> pc[c].begun, overdue |-> pc[c].overdue,
              open |-> OpenIncidents])
  /\ UNCHANGED <<tables, now, raced, answer>>

LatestInspection == inspections = <<>> \/ inspections[Len(inspections)]

DispatchEligibility(c) ==
  LET f == pc[c] IN
  /\ Under(c, "latest")
  /\ answer' = [allowed |-> EvaluateDispatch(f.row, f.overdue, f.open, LatestInspection),
                held |-> f.begun \intersect OpenIncidents # {}]
  /\ Done(c)
  /\ UNCHANGED <<tables, now, raced>>

----------------------------------------------------------------------------

Abandon(c) == Dropped(c) /\ UNCHANGED <<tables, now, raced, answer>>

Next ==
  \/ handleCreateAsset \/ handleRecordIncident
  \/ \E b \in BOOLEAN : handleScheduleSafetyItem(b) \/ handleRecordInspection(b)
  \/ \E i \in DOMAIN items : handleCompleteSafetyItem(i)
  \/ \E c \in Client :
       \/ \E from \in Worker \union {None}, to \in Worker : handleHandover(c, from, to)
       \/ \E worker \in Worker : handleCollectLocation(c, worker)
       \/ \E i \in DOMAIN incidents : handleReviewIncident(c, i)
       \/ \E to \in Worker \union {None} : handleReturn(c, to)
       \/ handleDispatchEligibility(c)
       \/ BeginTx(c) \/ Handover(c) \/ Return(c) \/ CollectLocation(c) \/ ReviewIncident(c)
       \/ ListOverdueSafetyItems(c) \/ ListOpenIncidents(c) \/ DispatchEligibility(c)
       \/ Abandon(c)

Spec == Init /\ [][Next]_vars

----------------------------------------------------------------------------

(* An asset with an open incident is frozen, unless the incident was recorded *)
(* while a handover or a review was under way, which then set its status by   *)
(* what they had read before (VEH-005); and an incident that is open all      *)
(* through a check forbids the dispatch even then.                            *)
FrozenWhileOpen ==
  /\ OpenIncidents \ raced # {} => IsFrozen(asset)
  /\ answer # None => ~(answer.allowed /\ answer.held)

(* Who has the asset after an event: a return leaves it with nobody, whoever  *)
(* it names as the recipient.                                                 *)
Holder(event) == IF event.type = "handover" THEN event.to ELSE None

(* An event that was committed after one whose transaction had begun later.   *)
Overtaken == \E d, e \in DOMAIN custody : d < e /\ custody[d].at >= custody[e].at

(* The custody event committed last tells who has the asset, though handovers *)
(* and returns may name somebody who had not got it any more; the event that  *)
(* is read as the latest tells so too, unless transactions overlapped and     *)
(* committed in another order than they began in.                             *)
CustodyTellsCustodian ==
  /\ asset # None =>
       asset.custodian = (IF custody = <<>> THEN None ELSE Holder(custody[Len(custody)]))
  /\ asset # None /\ custody # <<>> /\ ~Overtaken =>
       asset.custodian = Holder(custody[LatestCustodyEvent])

(* The latest event as it is read tells who has the asset: does not hold, the *)
(* transaction that began first may commit last.                              *)
LatestTellsCustodian ==
  asset # None /\ custody # <<>> => asset.custodian = Holder(custody[LatestCustodyEvent])


(* "Unfreezes the asset once no open incident remains": does not hold, of two *)
(* reviews at once each still counts the incident of the other.               *)
ThawedOnceReviewed == asset # None /\ IsFrozen(asset) => OpenIncidents # {}

(* What is on record of a vehicle is true of it, but for the races named.     *)
CustodyIsTrue == FrozenWhileOpen /\ CustodyTellsCustodian
=============================================================================
