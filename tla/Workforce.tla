------------------------------ MODULE Workforce ------------------------------
(* One worker (internal/workforce): the status that only a human review of an *)
(* adverse action changes, the certifications that restricted work needs, and *)
(* what is recorded about the worker's days.  A review holds the worker's row *)
(* locked; everything else reads the worker, and the certifications, before   *)
(* the transaction that inserts its row, and looks at neither again.          *)
EXTENDS Requests, Sequences

CONSTANTS None,
          Initial,       \* statuses a worker may be created with
          WorkType,      \* kinds of work
          Restricted,    \* those that need a certification or a specialist vendor
          MaxTime        \* bound of the clock

VARIABLES worker,        \* the row of workers, None before it is created;
                         \* history "created": the status it was created with
          certifications,\* worker_certifications: [type, until, status];
                         \* history "judged": the day its status is of
          reviews,       \* adverse_action_reviews
          assignments,   \* workforce_assignments, by the kind of work; history
                         \* "version": of the worker looked up, "checked": when
          recorded,      \* which of the registers about the worker have a row
          now

tables == <<worker, certifications, reviews, assignments, recorded>>
vars == <<tables, now, pc, requests>>

Init ==
  /\ worker = None
  /\ certifications = {}
  /\ reviews = <<>>
  /\ assignments = {}
  /\ recorded = {}
  /\ now = 0
  /\ NoRequests

IsDeactivatingStatus(status) == status \in {"inactive", "suspended", "rejected", "terminated"}
AdverseStatus == [reject |-> "rejected", suspend |-> "suspended", terminate |-> "terminated"]

CertificationStatus(until) == IF until < now THEN "expired" ELSE "valid"

----------------------------------------------------------------------------
(* The statements of the store                                               *)

InsertWorker(row) == worker' = row

InsertCertification(cert) == certifications' = certifications \union {cert}

InsertAdverseAction(action) ==
  reviews' = Append(reviews, [action |-> action, version |-> worker.version])

UpdateWorkerStatus(status) == worker' = [worker EXCEPT !.status = status, !.version = @ + 1]

InsertAssignment(f) ==
  assignments' = assignments \union {[type |-> f.type, version |-> f.version, checked |-> f.checked]}

Insert(register) ==
  /\ worker # None
  /\ recorded' = recorded \union {register}
  /\ UNCHANGED <<worker, certifications, reviews, assignments, now>>

InsertRating             == Insert("worker_ratings")
InsertAvailabilityWindow == Insert("availability_windows")
InsertTimeEntry          == Insert("time_entries")
InsertExpense            == Insert("expenses")
InsertGrievance          == Insert("grievances")
InsertSOSEvent           == Insert("sos_events")
InsertEmploymentTerm     == Insert("employment_terms")

----------------------------------------------------------------------------
(* The worker                                                                *)

CreateWorker(status, adult, specialist) ==
  /\ worker = None
  /\ InsertWorker([status |-> status, created |-> status, adult |-> adult, specialist |-> specialist,
                   version |-> 1])
  /\ UNCHANGED <<certifications, reviews, assignments, recorded, now>>
handleCreateWorker(status, adult, specialist) == Served /\ CreateWorker(status, adult, specialist)

(* A fault: the rating carries out the status its caller desires.             *)
RateAndApply(desired) ==
  /\ worker # None
  /\ recorded' = recorded \union {"worker_ratings"}
  /\ worker' = IF desired = None THEN worker ELSE [worker EXCEPT !.status = desired]
  /\ UNCHANGED <<certifications, reviews, assignments, now>>

(* A rating that desires the worker deactivated is refused.                   *)
RecordRating(desired) == ~IsDeactivatingStatus(desired) /\ InsertRating
handleRecordRating(desired) == Served /\ RecordRating(desired)

(* The worker's row is locked from its read to the commit.                    *)
ReviewAdverseAction(action) ==
  /\ worker # None
  /\ InsertAdverseAction(action)
  /\ UpdateWorkerStatus(AdverseStatus[action])
  /\ UNCHANGED <<certifications, assignments, recorded, now>>
handleReviewAdverseAction(action) == Served /\ ReviewAdverseAction(action)

----------------------------------------------------------------------------
(* Certifications and assignments                                            *)

(* The status of a certification is what its expiry makes it on this day, and *)
(* no statement changes it afterwards.                                        *)
handleAddCertification(c, type, until) ==
  /\ worker # None
  /\ ~IsDeactivatingStatus(worker.status)
  /\ Begin(c, [op |-> "certify",
               cert |-> [type |-> type, until |-> until, status |-> CertificationStatus(until), judged |-> now]])
  /\ UNCHANGED <<tables, now>>

AddCertification(c) ==
  /\ Under(c, "certify")
  /\ InsertCertification(pc[c].cert)
  /\ Done(c)
  /\ UNCHANGED <<worker, reviews, assignments, recorded, now>>

GetWorker(c, type) ==
  /\ worker # None
  /\ worker.adult
  /\ worker.status = "active"
  /\ Begin(c, [op |-> IF type \in Restricted /\ ~worker.specialist THEN "certified" ELSE "assign",
               type |-> type, version |-> worker.version, checked |-> now])
  /\ UNCHANGED <<tables, now>>

(* The status of a certification is the one it was recorded with.             *)
checkOperationsAssignment(c) ==
  /\ Under(c, "certified")
  /\ \E cert \in certifications : cert.type = pc[c].type /\ cert.status = "valid"
  /\ Goes(c, [op |-> "assign", type |-> pc[c].type, version |-> pc[c].version, checked |-> now])
  /\ UNCHANGED <<tables, now>>

AssignOperations(c) ==
  /\ Under(c, "assign")
  /\ InsertAssignment(pc[c])
  /\ Done(c)
  /\ UNCHANGED <<worker, certifications, reviews, recorded, now>>

----------------------------------------------------------------------------
(* What is recorded about the worker's days                                  *)

CreateAvailabilityWindow == InsertAvailabilityWindow
RecordExpense            == InsertExpense
SubmitGrievance          == InsertGrievance
CreateEmploymentTerm     == InsertEmploymentTerm

handleCreateAvailabilityWindow == Served /\ CreateAvailabilityWindow
handleRecordExpense            == Served /\ RecordExpense
handleSubmitGrievance          == Served /\ SubmitGrievance
handleSubmitGrievanceGlobal    == Served /\ SubmitGrievance
handleCreateEmploymentTerm     == Served /\ CreateEmploymentTerm

(* The worker is read and audited as frozen; the row stays as it was.         *)
TriggerSOS == InsertSOSEvent
handleTriggerSOS == Served /\ TriggerSOS

ReadWorker(c) ==
  /\ worker # None
  /\ ~IsDeactivatingStatus(worker.status)
  /\ Begin(c, [op |-> "time"])
  /\ UNCHANGED <<tables, now>>

handleRecordTimeEntry(c)       == ReadWorker(c)
handleRecordTimeEntryGlobal(c) == ReadWorker(c)

RecordTimeEntry(c) == Under(c, "time") /\ InsertTimeEntry /\ Done(c)

----------------------------------------------------------------------------

Tick == now < MaxTime /\ now' = now + 1 /\ UNCHANGED <<tables, pc, requests>>
Abandon(c) == Dropped(c) /\ UNCHANGED <<tables, now>>

Next ==
  \/ \E status \in Initial, adult, specialist \in BOOLEAN : handleCreateWorker(status, adult, specialist)
  \/ \E desired \in {None, "active", "suspended"} : handleRecordRating(desired)
  \/ \E action \in DOMAIN AdverseStatus : handleReviewAdverseAction(action)
  \/ handleCreateAvailabilityWindow \/ handleRecordExpense \/ handleSubmitGrievance \/ handleSubmitGrievanceGlobal
  \/ handleCreateEmploymentTerm \/ handleTriggerSOS
  \/ \E c \in Client :
       \/ \E type \in WorkType, until \in 0 .. MaxTime : handleAddCertification(c, type, until)
       \/ \E type \in WorkType : GetWorker(c, type)
       \/ AddCertification(c) \/ checkOperationsAssignment(c) \/ AssignOperations(c)
       \/ handleRecordTimeEntry(c) \/ handleRecordTimeEntryGlobal(c) \/ RecordTimeEntry(c)
       \/ Abandon(c)
  \/ Tick

Spec == Init /\ [][Next]_vars

----------------------------------------------------------------------------

(* "The only path that rejects, suspends, or terminates a worker" is a review *)
(* on record: the reviews name the versions of the worker one after another,  *)
(* the last one tells its status, and no rating or alert does (WFM-011).      *)
StatusIsReviewed ==
  worker # None =>
    /\ worker.version = Len(reviews) + 1
    /\ \A n \in DOMAIN reviews : reviews[n].version = n
    /\ IF reviews = <<>> THEN worker.status \in Initial
       ELSE worker.status = AdverseStatus[reviews[Len(reviews)].action]

(* What reviews had made of the worker in a version of the row.               *)
StatusAt(version) == IF version = 1 THEN worker.created ELSE AdverseStatus[reviews[version - 1].action]

(* Assigned is who was active in the version looked up, and no minor: a review*)
(* that suspends him beside it comes after the look-up.  Restricted work goes *)
(* to specialist vendors and to who had, when it was checked, a certification *)
(* that had not expired yet on the day it was recorded.                       *)
AssignedIsEligible ==
  \A a \in assignments :
    /\ worker.adult
    /\ a.version <= worker.version /\ StatusAt(a.version) = "active"
    /\ a.type \in Restricted =>
         \/ worker.specialist
         \/ \E cert \in certifications :
              cert.type = a.type /\ cert.judged <= cert.until /\ cert.judged <= a.checked

(* "Only a valid (not expired) certification satisfies a restricted-work      *)
(* requirement": does not hold.  What counts is the status it was recorded    *)
(* with, which stays "valid" when it expires.                                 *)
CertifiedWhenAssigned ==
  \A a \in assignments :
    a.type \in Restricted =>
      worker.specialist \/ \E cert \in certifications : cert.type = a.type /\ a.checked <= cert.until

(* "A suspended worker can no longer be assigned": does not hold of a request *)
(* that looked him up before the review.                                      *)
SuspendedNotAssigned == [][assignments' # assignments => worker.status = "active"]_vars

(* "It freezes the worker by setting status to suspended": does not hold.     *)
FrozenBySOS == [][recorded' # recorded /\ "sos_events" \in recorded' \ recorded => worker'.status = "suspended"]_vars

(* A worker is what reviews made of him, and has the work he could be given   *)
(* when he was looked up.                                                     *)
WorkersAsReviewed == StatusIsReviewed /\ AssignedIsEligible
=============================================================================
