------------------------------ MODULE Reporting ------------------------------
(* Report snapshots (internal/reporting): a projection is recomputed from the *)
(* tables of other modules by several queries, each of which sees what is     *)
(* committed when it runs, and stored with a hash of its source rows; later   *)
(* the stored one is verified against a fresh one, made in the same way for   *)
(* the period the row was stored with.  The requests of a behaviour name one  *)
(* period, each in a form of its own.                                         *)
EXTENDS Requests, Sequences

CONSTANTS None,
          Kept,          \* the form in which the database gives a time back
          Written,       \* the forms in which requests write the period
          Kind,          \* projections asked for, of those below
          Edited,        \* queries whose answers change in a behaviour
          MaxEdits,      \* bound: how often each changes
          MaxObservations \* bound: rows of metric_observations

VARIABLES source,        \* how often the answer of each query has changed
          snapshots,     \* report_snapshots, one or none of each kind
          observations,  \* rows of metric_observations, which are only inserted
          asOf,          \* the source when the last rebuild stored began
          verified       \* the last answer of a verification

tables == <<source, snapshots, observations>>
ghosts == <<asOf, verified>>
vars == <<tables, ghosts, pc, requests>>

----------------------------------------------------------------------------
(* What each projection asks, in order                                       *)

buildPropertyContribution == <<"charges", "credits", "recoveries">>

buildOwnerMonthlyReport ==
  buildPropertyContribution \o
    <<"closed tickets", "incidents", "open recoveries", "movements",
      "incidents shown", "recoveries shown", "exceptions shown">>

buildReadiness == <<"holds", "renewals", "onboarding">>

buildServiceLevelSummary ==
  <<"tickets", "closed", "open", "in progress", "incidents", "cancelled", "open recoveries", "checklists">>

buildInventorySummary == <<"locations", "movements", "adjustments", "counts">>

buildApprovalPipeline == <<"requests">>

buildDocumentStatus == <<"documents", "expired", "reviews", "packets">>

buildLaborTravelSummary == <<"time entries", "expenses">>

Asked == [property_contribution |-> buildPropertyContribution,
          owner_monthly_report  |-> buildOwnerMonthlyReport,
          property_readiness    |-> buildReadiness,
          service_level_summary |-> buildServiceLevelSummary,
          inventory_summary     |-> buildInventorySummary,
          approval_pipeline     |-> buildApprovalPipeline,
          document_status       |-> buildDocumentStatus,
          labor_travel_summary  |-> buildLaborTravelSummary]

(* What an answer adds to the source hash; the summary adds the tickets in    *)
(* progress to the incidents it shows, and the hash leaves them out.          *)
HashedQuery(q) == q # "in progress"
sourceHash(kind, answers) == [n \in {m \in DOMAIN answers : HashedQuery(Asked[kind][m])} |-> answers[n]]

(* What is shown has the answers and, in the owner's report, the period.      *)
PeriodShown(kind, form) == IF kind = "owner_monthly_report" THEN form ELSE None
Payload(kind, answers, form) == [answers |-> answers, period |-> PeriodShown(kind, form)]

Query == UNION {{Asked[k][n] : n \in DOMAIN Asked[k]} : k \in Kind}
Held(kind, moment) == [n \in DOMAIN Asked[kind] |-> moment[Asked[kind][n]]]
AtMost(a, b) == \A n \in DOMAIN a : a[n] <= b[n]

(* With no snapshot yet, or with those an earlier rebuild has left.           *)
Init ==
  /\ source = [q \in Query |-> 0]
  /\ \/ snapshots = [k \in Kind |-> None]
     \/ \E form \in Written :
          snapshots = [k \in Kind |-> [data |-> Payload(k, Held(k, source), form), version |-> 1]]
  /\ observations = 0
  /\ asOf = [k \in Kind |-> source]
  /\ verified = None
  /\ NoRequests

----------------------------------------------------------------------------
(* A transaction of another module changes what a query answers.              *)
EditSource(q) ==
  /\ source[q] < MaxEdits
  /\ source' = [source EXCEPT ![q] = @ + 1]
  /\ UNCHANGED <<snapshots, observations, ghosts, pc, requests>>

RecordWorkerMetric ==
  /\ observations < MaxObservations
  /\ observations' = observations + 1
  /\ UNCHANGED <<source, snapshots, ghosts>>
handleRecordWorkerMetric == Served /\ RecordWorkerMetric

----------------------------------------------------------------------------
(* A projection is built, one query after the other                          *)

Building(kind, op, form, stored) ==
  [op |-> op, kind |-> kind, form |-> form, stored |-> stored, answers |-> <<>>, since |-> source]

handleRebuildSnapshot(c, kind, form) ==
  /\ Begin(c, Building(kind, "rebuild", form, None))
  /\ UNCHANGED <<tables, ghosts>>

(* The stored row is read first and kept while the fresh one is built, for    *)
(* its period as the database has it.                                         *)
handleVerifySnapshot(c, kind) ==
  /\ snapshots[kind] # None
  /\ Begin(c, Building(kind, "verify", Kept, snapshots[kind].data))
  /\ UNCHANGED <<tables, ghosts>>

Built(c) == pc[c].op \in {"rebuild", "verify"} /\ Len(pc[c].answers) = Len(Asked[pc[c].kind])

Ask(c) ==
  LET f == pc[c] IN
  /\ pc[c].op \in {"rebuild", "verify"}
  /\ ~Built(c)
  /\ Goes(c, [f EXCEPT !.answers = Append(@, source[Asked[f.kind][Len(@) + 1]])])
  /\ UNCHANGED <<tables, ghosts>>

----------------------------------------------------------------------------
(* UpsertSnapshot: the row is looked for and then inserted or updated         *)

RebuildSnapshot(c) ==
  /\ Under(c, "rebuild")
  /\ Built(c)
  /\ Goes(c, [pc[c] EXCEPT !.op = IF snapshots[pc[c].kind] = None THEN "insert" ELSE "update"])
  /\ UNCHANGED <<tables, ghosts>>

Stored(c, version) ==
  LET f == pc[c] IN
  /\ snapshots' = [snapshots EXCEPT ![f.kind] = [data    |-> Payload(f.kind, f.answers, f.form),
                                                 version |-> version]]
  /\ asOf' = [asOf EXCEPT ![f.kind] = f.since]
  /\ Done(c)
  /\ UNCHANGED <<source, observations, verified>>

(* Refused when another request has inserted the row of this kind meanwhile.  *)
InsertSnapshot(c) ==
  /\ Under(c, "insert")
  /\ snapshots[pc[c].kind] = None
  /\ Stored(c, 1)

UpdateSnapshot(c) ==
  /\ Under(c, "update")
  /\ Stored(c, snapshots[pc[c].kind].version + 1)

----------------------------------------------------------------------------
(* VerifySnapshot: by the hash of the source rows, then by what is shown      *)

(* A fault: what has the same source rows is taken to show the same.          *)
MatchesSource(kind, stored, fresh) == sourceHash(kind, stored.answers) = sourceHash(kind, fresh.answers)

Matches(kind, stored, fresh) ==
  /\ sourceHash(kind, stored.answers) = sourceHash(kind, fresh.answers)
  /\ stored = fresh

VerifySnapshot(c) ==
  LET f == pc[c] IN
  /\ Under(c, "verify")
  /\ Built(c)
  /\ verified' = [kind |-> f.kind, stored |-> f.stored, since |-> f.since, until |-> source,
                  match |-> Matches(f.kind, f.stored, Payload(f.kind, f.answers, f.form))]
  /\ Done(c)
  /\ UNCHANGED <<tables, asOf>>

----------------------------------------------------------------------------

Abandon(c) == Dropped(c) /\ UNCHANGED <<tables, ghosts>>

Next ==
  \/ \E q \in Edited : EditSource(q)
  \/ handleRecordWorkerMetric
  \/ \E c \in Client :
       \/ \E k \in Kind : (\E form \in Written : handleRebuildSnapshot(c, k, form)) \/ handleVerifySnapshot(c, k)
       \/ Ask(c) \/ RebuildSnapshot(c) \/ InsertSnapshot(c) \/ UpdateSnapshot(c) \/ VerifySnapshot(c)
       \/ Abandon(c)

Spec == Init /\ [][Next]_vars

----------------------------------------------------------------------------

ShownAsKept(answer) == answer.stored.period = PeriodShown(answer.kind, Kept)

(* A snapshot tells what its source held: a verification that answers "match" *)
(* has seen each answer of the snapshot in the source while it ran; one under *)
(* which the source did not change answers so exactly for a snapshot of that  *)
(* source, unless it is a report that shows its period otherwise than the     *)
(* database gives it back; and what is stored is no older than the rebuild    *)
(* that stored it last.                                                       *)
SnapshotsVerify ==
  /\ verified # None =>
       LET stored == verified.stored.answers
           since == Held(verified.kind, verified.since)
           until == Held(verified.kind, verified.until)
       IN  /\ verified.match => AtMost(since, stored) /\ AtMost(stored, until)
           /\ since = until => (verified.match <=> stored = since /\ ShownAsKept(verified))
  /\ \A k \in Kind : snapshots[k] # None =>
       AtMost(Held(k, asOf[k]), snapshots[k].data.answers) /\ AtMost(snapshots[k].data.answers, Held(k, source))

(* "The snapshot matches the source when its source hash, source count and    *)
(* payload all equal the fresh rebuild; otherwise the projection is stale":   *)
(* a report asked for with an offset is called stale however often it is      *)
(* rebuilt.                                                                   *)
StaleIsChanged == verified # None /\ verified.since = verified.until
                    => (verified.match <=> verified.stored.answers = Held(verified.kind, verified.since))

(* "Any later source row changes the snapshot on the next rebuild": not if an *)
(* older rebuild is still under way, which then writes over the newer one.    *)
NeverOlder ==
  [][\A k \in Kind : snapshots[k] # None => AtMost(snapshots[k].data.answers, snapshots'[k].data.answers)]_vars
=============================================================================
