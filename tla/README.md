# A verification development for Comfort Curators

TLA+ modules, TLC instances and TLAPS proofs for the backend in `src/backend`
(Go, PostgreSQL). Paths below are relative to `src/backend/internal` unless they
start with `src/`.

The backend is a modular monolith: an API process and any number of worker
processes share one PostgreSQL database and nothing else. There is no message
bus, no consensus and no shared memory between processes. What is hard about it is
therefore what happens *between SQL statements*: two processes that read, decide
and write; a worker that is slow, dies or comes back late; a decision that is
stored but not carried through; a check made before a transaction that no longer holds
inside it.

Contents: [the system](#the-system), [plan](#plan), [the modules](#the-modules),
[runs](#runs-and-what-they-show), [findings](#where-the-code-and-its-comments-disagree),
[proofs](#proofs), [limits](#limits).

## The system

### Agent runs and the approval gate

*Code*: `automation/store.go`, `automation/runner.go`, `automation/superhost/handler.go`,
`automation/superhost/schema.go`, `platform/app/tool_executor.go`.

* State: rows of `agent_runs` (state, lease owner, lease expiry, attempt, the saved
  conversation `messages_json`), rows of `approval_requests` (state, the run they
  belong to), and in each worker's memory the run and the tool call it works on.
* Operations: Submit, Cancel, Retry (clients); Claim, Heartbeat, TransitionState,
  SaveMessages, CompleteWithUsage, Fail (workers); RecoverExpiredLeases (a ticker);
  Evaluate and ExecuteApproved (the tool executor, called by the worker);
  handleDecideApproval = load, SaveApprovalDecision, DecideRun (the API).
* Interaction: the API and the workers meet in the two tables only. A run pauses when
  the model proposes a tool call that needs approval, and any worker resumes it
  after the decision, from the saved conversation.
* Hard: leases that run out under a slow worker, crashes between the effect of a
  tool call and the record of it, decisions that race one another or arrive for a run
  that has moved on, a checkpoint saved without the transition that belongs to it.
* Correct when: no tool call is carried out before a human who is not the requester
  approved it; none is carried out twice; only the worker that claimed a run last
  writes to it; a finished run stays finished; no run is forgotten.

### Job queue

*Code*: `platform/jobs/jobs.go`, the work and recovery loops of `platform/app/app.go`,
`platform/database/migrations/003_jobs.sql`.

* State: rows of `jobs` (status, lease, attempt, next retry, idempotency key, payload).
* Operations: Enqueue (look the key up, then insert), Cancel, Claim, StartRunning,
  Heartbeat, Complete, Fail with exponential backoff, RecoverExpiredLeases.
* Hard: clients racing for a key, leases that expire under a handler, the ticker
  racing Claim for a job on its last attempt, workers that stop anywhere.
* Correct when: one job per key, one turn at a time, attempts bounded, terminal states
  final, every job ends completed or dead.

### Outbox and idempotency records

*Code*: `platform/durability/durability.go`. Business transactions append events to
`outbox_events`; a relay locks the oldest due event, delivers it to a sink inside the
transaction and records the result; a failed event backs off and is given up after
five attempts. `Process` runs a function once per idempotency key. Hard: redelivery after
a commit that fails behind a delivery, events of one aggregate overtaking one another,
two first calls under one key (there is no row yet to lock), events that are stamped
when they are appended and seen when they are committed. Correct when: nothing committed
is lost silently, nothing is delivered that was not committed, a key names one effect.

At this commit the worker processes run the relay loop (`app.go:710`) with a sink that
logs, and `Process` and `Append` are called by the tests only: the model takes them
together, as `Append`'s transaction parameter and those tests mean them to be used.

### Tickets, checklists, evidence, dispatch

*Code*: `operations`. State: tickets with a status, a version and a blocked-from status,
checklist items with versions, evidence with content hashes, an event per transition,
the queue of evidence taken offline, alerts, service recoveries, assignments and overrides.
Operations: create, transition (with an evidence gate on submission and a two-person rule
on verification), block, unblock, cancel, classify, reopen, start and close a service
recovery, synchronise a checklist (two routes), register, queue and synchronise evidence,
assign, override, accept, decline. Hard: the gate reads what other requests change, two
sync routes with different rules, blocking as a way round the transition table, reads made
outside the transaction that writes, workers who are suspended or work on between the query that
looks at them and the insert that assigns them. Correct when: the event log tells the status, a ticket
reopened by a follow-up stays closed, an entry of the offline queue is marked only with a
record of its evidence, whoever is assigned without an override on record was fit when he was looked
up, a replay changes nothing.

### What is kept of a property, of supplies and of persons

These components have a table or a few each, share nothing but the process, and have one
shape: a handler reads (without a lock), decides, and writes in a transaction that may or
may not look again. What makes them correct is that the decision still holds when it is
written.

| component | state | operations | what is hard, and what makes it correct |
|---|---|---|---|
| `reservations` | feeds, imported events, reservations, conflicts, proposals, exceptions | poll a feed (fetch, then ingest under the feed's row lock, then synchronise the whole property), decide a conflict, generate proposals, scan for stale feeds | overlapping polls and decisions; a reservation follows its event, work follows the reservation, a double booking is reported and decided once |
| `property`, `compliance` | state, readiness, holds, transitions; items with an expiry, warnings | transition, add, resolve and except holds; create, renew, scan | an activation against readiness that is withdrawn; a scan that dies between a hold and the item that names it |
| `onboarding` | a case, its sections, evidence, inspections | save, record, activate | a status computed from reads that are out of date |
| `contracts` | an agreement, its versions and acceptance, fee rules | add a version, accept, quote | acceptance racing a version; fees rounded in two parts |
| `inventory` | locations, movements, counts and their lines | move, count, review, reconcile | two issues of the last piece, expired stock, lines added under a review |
| `maintenance` | a request, estimates, approvals, work orders, warranties | triage, estimate, decide, assign, start, verify | two decisions on one estimate, work without approval |
| `fleet` | an asset, custody, incidents, safety items, samples | hand over, return, record and review an incident, check dispatch | a handover beside an incident; custody events are read by the start of their transactions |
| `catalog` | items, bundles, versions of a package | draft, activate, reject | two activations at once |
| `billing` | charges, invoices, credits, subledger, maker-checker requests, verifications, exceptions | create, issue, apply, submit, decide, verify, resolve | one key used twice at once, the maker deciding, approval before verification, a check that is skipped when its read fails |
| `access` | secrets, grants, holds, disclosures, custody | grant, disclose, acknowledge, return, revoke, hold, emergency | disclosure racing a hold or a revocation; a ledger read by the start of its transactions |
| `communications` | templates, preferences, drafts, reviews, deliveries, links | draft, review, deliver, redeem | consent and quiet hours read before the delivery, a link followed twice |
| `privacy` | registers, retention, rights requests, consents, contracts, exports | record, process, withdraw, review | an erasure beside a retention, rows written back whole |
| `consumer` | disclosures, acceptances, exports | disclose, accept, export | an export collected in four queries |
| `workforce` | workers, certifications, reviews, assignments, registers | create, certify, assign, rate, review | assignment beside suspension, certifications that expire, advisory ratings |
| `documents` | documents, versions, extractions, reviews, packets, receipts | version, extract, review, confirm | a packet confirmed beside a new version, reviews looked up by document |
| `automation/hermes` | drafts, reviews, deliveries | draft, review, deliver | no transaction: a review beside a delivery, two deliveries at once, a key taken in between |
| `reporting` | snapshots, observations of metrics | rebuild, verify, record | a projection built from up to ten queries while its source changes, and verified in the same way; a period written otherwise than it is kept |
| `iam`, `procurement`, provider client, tools, frontend | | | not modelled, see [limits](#limits) |

`PROJECT.json` lists every component with its files and, under `hazards`, the places
where the code is hard to test, each with the property that covers it or the reason why
none does.

## Plan

In the order of importance; all steps are done.

1. `LeasedWork` (abstract), `JobQueue` and its proofs.
2. `AgentRuns` with the approval gate, and its proofs. It is the only place where
   the system acts on a model's proposal, and everything depends on the gate.
3. `Durability`: idempotent execution and the outbox relay; abstract specification
   `ReliableEffects`; and their proofs.
4. `Operations`, composed of `Tickets`, `Checklists` and `Dispatch` over one store.
5. `Calendar`, `PropertyLifecycle` with `Compliance`, `Onboarding`, `Contracts`,
   `Inventory`, instantiated together by `Premises`.
6. `Maintenance`, `Fleet`, `Catalog`, `Billing`, `Reporting`, instantiated together by `Supply`.
7. `Access`, `Communications`, `Privacy`, `Consumer`, `Workforce`, `Documents`, `Hermes`,
   instantiated together by `People`.

8. Proofs of what the runs of steps 4 to 7 check: `OperationsProofs`, `SupplyProofs`,
   `PremisesProofs`, `PeopleProofs`.

Every safety property of a passing run is proved. What is left for later are the components that are
not modelled (see [limits](#limits)), and what TLAPS cannot do.

## The modules

| module | models | state and actions |
|---|---|---|
| `LeasedWork` | what both queues promise | items with a phase and a turn number, workers with a grip on one turn; no lease, owner or clock |
| `JobQueue` | job queue | the columns of `jobs` as functions of the job, `pc` and `job` for each worker, `asked` and `reply` for each client |
| `AgentRuns` | agent runs and approval gate | the columns of `agent_runs` and `approval_requests`, `pc`, `job`, `call` for each worker, `handler`, `handled`, `verdict` for each caller of the decision endpoint |
| `ReliableEffects` | what idempotent processing and the outbox promise together | the set of effects, what was asked and answered, the event of each effect; no transaction, lock or relay |
| `Durability` | idempotency records and outbox | a `pc` for the transaction of each call of `Process`, the columns of its event, what each relay has locked and what the sink has answered it |
| `TicketStore`, `Tickets`, `Checklists`, `Dispatch`, `Operations` | tickets, checklists, evidence, dispatch | one sequence of rows for each table, `syncRecords` by key, a frame `pc` for each request under way; `workers` is what dispatch reads of the tables of `workforce`, with the writes of that package as actions of `Dispatch`; `Operations` is the disjunction of the three, each leaving the tables of the others alone |
| `Requests` | the requests a server has under way | `pc[c]` is what request `c` has read so far, `requests` how many were served |
| `Calendar` | reservations and feeds | a row for each feed, event, conflict, ...; `pc` for each process, since polls run in workers and in the API; `raced` says which events were last synchronised from a stale read |
| `PropertyLifecycle`, `Compliance` | property and compliance | the row of the property, its holds and transitions, `now`; `Compliance` extends the former with items and warnings, because the scan writes holds |
| `Onboarding`, `Contracts`, `Inventory` | the owner's case, the agreement, the stock | one row and its child rows; `Inventory` has the row locks, `lock` and `countLock` |
| `Maintenance`, `Fleet`, `Catalog`, `Billing` | repairs, a vehicle, the package of a property, finance | one sequence of rows for each table; a custody event of `Fleet` has the time its transaction began, an approval of `Billing` whether maker and checker were compared |
| `Access`, `Communications`, `Privacy`, `Consumer`, `Workforce`, `Documents`, `Hermes` | secrets, messages, registers, owners, workers, filings, the assistant's drafts | one sequence of rows for each table, or the one row that matters; a custody event of `Access` has the time its transaction began, a review of `Documents` the version it is of, or none |
| `Reporting` | report snapshots | `source` counts how often the answer of each query has changed, a snapshot has the answers it was built from and its period in the form it was written in; `asOf` and `verified` are history |
| `MCAgentRuns`, `MCDurability`, `MCOperations` | | constants, starting rows and symmetry for TLC |
| `Premises`, `Supply`, `People` | several components at once | the components instantiated over tables of their own, `part` says whose behaviour it is |
| `MCPremises`, `MCSupply`, `MCPeople` | | constants, starting rows and symmetry of the former for TLC |
| `JobQueueProofs`, `AgentRunsProofs`, `DurabilityProofs`, `OperationsProofs`, `SupplyProofs`, `PremisesProofs`, `PeopleProofs` | | the proofs |
| `TableLemmas` | | what INSERT and UPDATE do to a sequence of rows, and what a sum over one comes to |

How the code becomes actions:

* One action is one SQL statement or one transaction, because nothing else is atomic.
  Enqueue is two actions (`LookUp`, `Insert`), the decision endpoint three
  (`CheckDecision`, `SaveApprovalDecision`, `DecideRun`), pausing a run three
  (`Propose`, `SaveMessages`, `Pause`).
* Where one transaction has several statements that others can run between, each is an
  action, and what it wrote stays invisible until the commit: `LookUp`, `RunFunction`,
  `InsertRecord`, `Commit` for `Process`; `Take`, `Deliver` and `MarkDelivered` or
  `MarkFailed` (with the commit) for `RelayOnce`. `Rollback` and `RelayRollback` may strike
  between any two and take everything back but what the sink has heard. The row lock is
  `holds`, skipped by others (`SKIP LOCKED`); the unique index is `InsertRecord`, which waits
  for an open transaction that has inserted the key and fails behind a committed one.
* The function a call of `Process` runs appends one event. `occurred_at` is a rank: a new
  event is later than all others, so the clocks of the processes are taken to agree. A
  caller that retries is another member of `Calls` with the same key.
* A worker keeps its memory in `pc`, `job` and `call`. Its writes carry `WHERE
  lease_owner = $worker`, which is `OwnsLease`. When a write matches no row, or fails,
  the code logs and goes on to the next item: `GiveUp`.
* A process identity is drawn at random on start (`newWorkerID`, `app.go:843`), so a
  restarted process is a different member of `Workers`, and `Crash` is final for one.
* Time is abstract: `expired` says that `lease_expires_at` has passed, `Expire` makes
  it so at any moment, `Heartbeat` undoes it, `due` and `BackoffEnds` do the same for the
  backoff of a job.
* The model provider is a choice: a worker that thinks may answer, propose a
  tool call, or fail. Tool calls the policy allows or denies at once only change the
  conversation in memory and are left out.
* Tickets created by an approved tool call appear as `executed[q]`, the number of times
  the tool call of request `q` was carried out.

The request modules (all but the first three components) follow one convention:

* A definition bears the name of the function it models: `handleX` is the HTTP handler,
  `X` the function of the service, and the names of the statements (`UpdateDraftState`,
  `ListActiveRetentionRecords`) those of the store. `handleX(c, ...)` begins request `c` and takes
  it to its first read, `X(c)` is the transaction it ends with; reads in between are actions named
  for the query. A handler whose work is one transaction is one action.
* What a request has read is in its frame `pc[c]`, and later steps use that and not the
  table, as the Go variables do. `Abandon(c)` ends a request anywhere between its steps: the
  client is gone, the process was restarted, or a statement failed.
* A condition in a `WHERE` clause, or a row locked `FOR UPDATE`, is looked at in the
  transaction; an `if` on a Go variable is looked at in the frame.
* An optimistic `version` is compared when the row is written; a unique index refuses the row.
* `created_at` defaults to `NOW()`, which is the start of the transaction. Where rows are read in its order
  (the custody ledgers of `Fleet` and `Access`) a transaction begins in one action, `BeginTx`, and writes and
  commits in another, so that the order of the rows and that of the commits may differ.
* A read whose error the code ignores is an alternative of its own: `unread` time entries count as rest, and a
  finance request that could not be `read` is decided without comparing its maker.
* Audit records, tenants and authorisation are left out where nothing reads them back. A row
  of another tenant is not found, which is a request that ends at once.
* Ids are positions in the sequence of rows. Rows are never deleted by this code.
* `now` moves by `Tick`, and only that far as an expiry or a window needs.

`Premises`, `Supply` and `People` instantiate components that share no table and no
request. Interleaving them would multiply states and show nothing, so the variable `part`,
chosen at the start, says which component a behaviour belongs to; the others do not move.
A property `X` of a component is there as `part = ... => Alias!X`. All are invariants, so
nothing is hidden by it.

In `Operations` the components do share the ticket: assignments are made to it,
checklists gate its transitions, and any two of their requests interleave.

History variables (`claims`, `claimNo`, `executed`, `approvers`, `interrupted`, `ran`,
`lost`) are never read by a guard except through `ClaimBound`, see below.
In the request modules `raced` marks what was done beside another
request that had already read (named where a property excepts it), and some rows keep what
their request had read or found (`seen`, `was`, `unread`, `compared`, `checked`, `judged`). `interrupted[r]`
says what has disturbed a run: `"lease"` (it was claimed or recovered with an expired lease), `"retry"`, or
`"overwrite"` (a second decision recorded over the first one).

## Runs and what they show

| run | instance | checks | states |
|---|---|---|---|
| `agent_runs_safety` | 1 run, 2 workers that may crash, 2 requests, the requester and one reviewer, late heartbeats | the gate, no repetition, fencing, `LeasedWork` | 1.2 million |
| `agent_runs_live` | 2 runs, 2 workers of which one may crash, 1 request, heartbeats in time | progress | |
| `agent_runs_waiting` | as the first, no crashes, heartbeats in time | violated: a waiting run is claimed without a decision | |
| `agent_runs_approved` | the same | violated: a retried run executes an unapproved call | |
| `job_queue_safety` | 2 jobs, 2 workers that may crash, 2 clients racing for 1 key, late heartbeats | one job per key, handler effects, `LeasedWork` | 0.9 million |
| `job_queue_live` | 2 jobs, 2 workers of which one may crash, heartbeats in time | every job is drained | 41 thousand |
| `durability` | 3 calls, two of them under one key and maybe with different bodies, 2 relays, a sink that may fail | matching answers, deliveries, order, every event settled, `ReliableEffects` | 228 thousand |
| `operations_safety` | 2 requests at a time, 4 in all, 2 workers of whom one has no window of availability yet, a ticket in one of three states with or without an item, of high risk or not | the event log, reopening, the offline queue, overrides, replays | 2.4 million |
| `premises` | 2 requests at a time | calendar, lifecycle with compliance, onboarding, contract, stock | 2.6 million |
| `supply` | the same | repairs, vehicle, package, finance, reports | 1.3 million |
| `people` | the same | access, messages, privacy, consumer, workforce, documents, the assistant | 1.5 million |
| `vehicle_frozen` | `Fleet` alone | violated: a vehicle with an open incident is handed over | |

What the request runs show, property by property:

| property | says |
|---|---|
| `EventsTellStatus` | the events of a ticket are a chain that ends in its status, under growing versions |
| `ReopenedStaysTerminal` | a ticket that has a follow-up is never open again |
| `UploadedIsRecorded` | an entry of the offline queue is marked only beside a record of its hash |
| `OverrideOnRecord` | whoever is assigned without an override on record meets the hard constraints: his row and his availability do, and he is active and rested at the insert unless that was written since he was looked up, or his time entries could not be read |
| `ReplaySyncsOnce` | a synchronisation key is applied once, also when it is sent twice at the same time |
| `StaysAreServed` | outside of named races a stay has the dates and status of its event, and work is proposed for exactly the active stays |
| `ConflictsSettled` | double bookings a synchronisation could see are reported, each decided once |
| `LifecycleOnRecord` | the transitions are a path of the frozen lifecycle that ends in the state |
| `HeldOnceScanned` | a scan that got through leaves a hold for every critical expired item, also after one that died |
| `StatusTellsChecklist` | the status of a case is what its rows say, whatever was read when |
| `AcceptedIsFixed` | one acceptance, of the version that is current |
| `QuoteIsExact` | the fee is the exact floor of the percentage, or the minimum |
| `StockIsThere` | no movement but an adjustment leaves less than nothing of all that had been posted when it was checked, write-offs of counts included, and what is issued had not expired when its request began |
| `WorkIsApproved` | work is started on approved estimates, one decision each, by another than the preparer |
| `CustodyIsTrue` | outside of named races a vehicle with an open incident is frozen; the custody event committed last tells who has it, nobody after a return whoever received it, and so does the one read as the latest unless transactions committed in another order than they began in |
| `PackageIsReplaced` | one active version but for activations that overlapped, and none superseded for nothing |
| `LedgerMatches` | one document of a kind under a key, each with exactly its entry |
| `ApprovedUnderControls` | maker and checker differ on every decision that compared them, which all do but financial approvals whose request could not be read; what needs verification is verified before it is approved |
| `AccessIsControlled` | the ledger tells the status of a grant in the order of its commits, and as it is listed unless transactions overtook one another; it has as many placements and releases as holds, not which; nothing is disclosed by a request that began after the revocation or the hold |
| `ContactIsAllowed` | what is delivered was reviewed where it has to be, and allowed by the preferences its request had read; a link is redeemed once |
| `RetainedIsNotErased` | an erasure that is completed was decided with nothing retained when the decision began; a blocked request says why (a rejected one may not); nothing that was not de-identified is approved for export |
| `OwnersSeeTheirs` | an export has rows of its tenant and property only, and all that were there when it was asked for |
| `WorkersAsReviewed` | a worker's status is what human reviews made of it; assigned are adults whom reviews had left active in the version looked up, to restricted work specialist vendors and who then had a certification that was valid the day it was recorded |
| `SubmittedAsReviewed` | a submitted packet has its receipt, which names the newest version of each document unless two uploads took one number; what is doubtful in it has an approved review of the document, of whatever version |
| `DeliveredAsReviewed` | a free-form draft that was delivered was approved by another than its author; what is said to be delivered has its one delivery, but for requests that overlapped |
| `SnapshotsVerify` | a verification that answers "match" saw each answer of the snapshot in the source while it ran, any other was right unless the source changed under it, and no snapshot is older than its rebuild; excepted are reports that write their period otherwise than the database gives it back |

Each of them has a mutant in `PROJECT.json`: a plausible bug in one definition with which
TLC finds it violated.

*Bounds.* `MaxAttempts = 2` instead of 3 and 5: a first failure with a retry and a last one
without both happen. `ClaimBound` is the only bound in the guards: an item claimed that
often is not retried any more, keeps its lease unless its owner stops or pauses, and
gets no database errors. With `ClaimBound = 2` a lease runs out under a working owner after the
first claim, and the second and later claims still meet crashes and pauses, so a stale
worker and its successor are both present. Two workers suffice for a race between a stale worker and a live one; two
requests for a decision on an earlier call that arrives while a later one is pending;
two users for a decision racing a decision and for the requester deciding. One run is
enough for the safety of runs because no statement but recovery touches two rows, and
recovery treats every row alike; the liveness runs have two, since there one item may
starve another. Symmetry is used for workers, requests, jobs and clients in safety runs
only.

In `durability`, `MaxAttempts = 2` gives a failure with a backoff and one without.
`RollbackBound = 1` bounds the relay transactions that are rolled back: none is any more
once one event was rolled back that often. One is enough for a redelivery and for an attempt that is not
counted, and without a bound liveness would be lost, rightly: a relay whose every commit
fails settles nothing. Calls roll back without a bound, as each ends by it. Two calls
under one key make the race; the third, under another key, makes order matter.

In the request runs two requests at a time make every race of one read and one write; a third would
only repeat it, since a transaction sees the tables and not who else is under way. The bound on the
requests of a behaviour (`MaxRequests`, from 2 for exports and for reports, with rows inserted or answers
changed beside them, to 7 for the documents) is what the longest story needs: in the calendar two feeds are
created, polled twice and a conflict is decided; for documents a version is uploaded, extracted, reviewed,
replaced and the packet confirmed. `MaxRows` and its like are two or three, so that a second row of a kind meets
the first. Where a story would need more requests than that, rows a past request has left are among the initial
states (`Begun`, `Stocked`, `StartTickets`, `StartItems`, `StartWorkers`, the snapshots of `Reporting`), and only such as the
code can leave. `Kept` is the form the database gives a period back in and `Written` has it and one with an
offset; two documents (`d1`, `d2`) let a packet name them in turn. Revenues and rates of quotes are chosen so
that both parts of the percentage round. Sets of persons and requests are symmetric in `premises`, `supply` and
`people`.

*Late heartbeats.* With `TimelyHeartbeats = FALSE` a lease may run out under a
working owner (a long pause of the process, a slow database). Safety is checked that way.
Liveness and mutual exclusion (`OneDriver`, `OneHandler`) hold only with heartbeats in
time: a lease cannot exclude a worker that has stopped renewing it and does not know.

*Fairness.* A worker that has not crashed keeps taking the next step of its loop (handlers
return, provider calls run under a timeout), the recovery ticker fires every 15
seconds, leases nobody renews and backoffs run out (time passes): weak fairness. Claim takes
the oldest item first, so an item that is claimable again and again is reached after
finitely many older ones: strong fairness for each item. The relay loop of each worker
process goes on, one step a second, and backoffs end: weak fairness. Nothing is assumed of clients,
of the people who decide, of crashes, or of the choice between success and failure. The request
runs assume no fairness: a request may stop anywhere, and nothing runs in them by itself but the
compliance scan and the polls, whose properties are about what a pass that does get through leaves.

*Deadlock* is not reported as an error: with every client done, every item finished and
every worker idle the system stops, as it should; and the bound on requests ends the others.

## Where the code and its comments disagree

Three of these are runs that end in a violation; `PROJECT.json` has the details.

1. `Claim` takes a run in `waiting_for_approval` whose processing lease has run out
   (`automation/store.go:159`), which happens 30 seconds after it paused. The comment on
   `RecoverExpiredLeases` says that only a human decision moves a run out of that state.
2. A checkpoint saved before a failed transition to `waiting_for_approval` survives, and a
   retry executes the tool call in it without approval (`automation/runner.go:559`).
3. A handover that had found the vehicle free writes over the freeze of an incident recorded
   meanwhile (`fleet/service.go:275`); the comment on `RecordIncident` says the asset is frozen
   until the incident is reviewed.

The following are stated in the modules, and TLC finds them violated, but they have no run: those above
have the larger consequences. Each is what a comment or an error message of the code says.

| statement | module | what happens instead |
|---|---|---|
| `ExecutedOnce` | `AgentRuns` | a tool call is carried out again after a crash or a lost lease (`automation/runner.go:300`) |
| `AttemptsWithinLimit` | `JobQueue` | a job that loses its lease on its last attempt is claimed beyond the limit (`platform/jobs/jobs.go:147`) |
| `ReplyMatches` | `JobQueue` | a completed job answers another payload under its key (`platform/jobs/jobs.go:98`) |
| `NoSelfVerification` | `Operations` | the worker is compared with `assigned_to`, which nothing writes (`operations/service.go:144`) |
| `RequirementLocked` | `Operations` | the idempotent route overwrites `evidence_required` (`operations/store.go:1210`) |
| `OneRecordPerHash` | `Operations` | two requests both find no equal hash (`operations/service.go:583`) |
| `EveryOverlapReported` | `Calendar` | of two feeds synchronised at once neither sees the other's stay |
| `MergedStaysCancelled` | `Calendar` | a later poll makes a merged stay active again |
| `PostedOnce`, `LinesAddUp` | `Inventory` | a count is reconciled twice; a line counted again keeps what was expected at first |
| `FitWhenAssigned` | `Operations` | a worker is suspended, or works his hours, between the queries and the insert (`operations/dispatch_service.go:61-141`; `workforce_test.go:379`: "A suspended worker can no longer be assigned") |
| `BankChangeVerified` | `Billing` | whether a bank change needs verification is what the caller says (`api/finance_handler.go:857`) |
| `OneWarranty` | `Maintenance` | two warranties are recorded of one order (`maintenance/service.go:563`) |
| `ThawedOnceReviewed` | `Fleet` | two reviews at once each count the other's incident as open (`fleet/service.go:455`) |
| `LatestTellsCustodian` | `Fleet` | the event read as the latest is that of the transaction that began last, not of the one that committed last (`fleet/store.go:226-235`) |
| `OneActive` | `Catalog` | two activations at once leave two active versions (`catalog/service.go:537`) |
| `OnceEach` | `Communications` | two deliveries, or two reviews, at once both go through (`communications/service.go:520`) |
| `ErasureWaits` | `Privacy` | a retention recorded after the check does not stop the erasure (`privacy/service.go:307`) |
| `ListTellsStatus` | `Access` | the same of the custody ledger (`access/store.go:404-414`) |
| `ExportIsSnapshot` | `Consumer` | an export mixes moments (`consumer/store.go:182`) |
| `FrozenBySOS` | `Workforce` | an SOS suspends nobody (`workforce/service.go:576`) |
| `CertifiedWhenAssigned` | `Workforce` | an expired certification still counts: what is looked at is the status it was recorded with (`workforce/models.go:184-185`: "Only a valid (not expired) certification satisfies a restricted-work requirement") |
| `SuspendedNotAssigned` | `Workforce` | a worker is suspended between the look-up and the insert of an assignment |
| `ReviewedAsSubmitted` | `Documents` | a doubtful version is submitted on the review of an earlier one: reviews are looked up by document (`documents/service.go:380-397`, against the comment at 218) |
| `NeverWithoutVersion` | `Documents` | two uploads at once take one number and count the document up twice, so that no version has the number looked for and the packet is submitted without one (`documents/service.go:351-372`) |
| `DeliveredOnce` | `Hermes` | two deliveries of a draft at once both insert one (`automation/hermes/service.go:236`) |
| `NeverOlder` | `Reporting` | a slow rebuild writes over a newer snapshot (`reporting/store.go:70`) |
| `StaleIsChanged` | `Reporting` | a report asked for with an offset such as `+05:30` has its period in the payload as it was written, the verification as the database gives it back: it is called stale although its source did not change (`reporting/service.go:144-153`) |

The passing properties say what does hold beside them: `ApprovedBeforeExecuted` and
`OnceUnlessInterrupted` are the gate for runs that were not disturbed in the named ways,
`RanOnceUnlessLost` the effect of jobs that never lost a lease, `CustodyIsTrue`,
`PackageIsReplaced`, `ConflictsSettled` and the others what is true outside of the races named.

## Proofs

TLAPS checks the following for every value of the constants that meets the assumptions each
module states by name. TLC evaluates them on every run. They say of

* the first three modules (`ConstantsAssumption`): NULL is not an identifier, `MaxAttempts` is
  positive, crashable workers are workers;
* `Operations`: the bounds are numbers, workers are actors and have rows (`WorkersHaveRows`), and
  (`StartIsConsistent`) a ticket the behaviour starts with that was reopened is closed or cancelled;
* `Supply`: NULL is no row, and the rows past requests have left are such as requests leave:
  a repair begun has its approval (`BegunIsApproved`), the stocked versions of a package have one that
  is active at most, and one if another was superseded (`StockedIsReplaced`), every kind of report has its
  queries (`KindIsAsked`);
* `Premises`: NULL is no row and no identifier, a feed lists finitely many of its own events
  (`ContentIsListed`, `FeedsAreFinite`), a case begun is in progress, a property is created in a state of
  the lifecycle (`InitialIsState`), amounts and quantities are integers (`AmountsAreMinorUnits`, `PiecesAreCounted`);
* `People`: NULL is no row, a day has minutes and those of preferences are among them (`DayIsCounted`, which
  the code checks of preferences and the clock keeps), a server has finitely many requests under way
  (`ServerIsFinite`), since two of the bounds are counts of those.

None of them bounds the number of clients, requests or rows.

*Job queue* (`JobQueueProofs`). The inductive invariant is
`TypeOK /\ LeaseConsistent /\ Holding /\ Turns /\ Undisturbed`:

* `Holding`: a worker has a job in memory exactly while it is in a pass of its loop;
* `Turns`: the claim a worker works under is not a future one, and it is the last
  claim of its job if the table still names that worker as owner. This is what makes
  `lease_owner` as good as a fencing token although the table stores no token: a
  process claims a job again only after it has dropped its earlier claim;
* `Undisturbed`: while none of a job's leases has run out, at most one worker is on it,
  where that worker is fits the status, the attempts are within the limit, and the
  handler has succeeded only if nothing is left but to record that.

From it follow `TypeOK`, `LeaseConsistent`, `AttemptsBounded`, `RanOnceUnlessLost`,
the two action properties `FencedWrites` and `TerminalIsFinal`, and the refinement
`ImplementsLeasedWork`: initial states map to initial states, and each action maps to
an action of `LeasedWork` or to a stutter. `OneJobPerKey` has an invariant of its own.

*Agent runs* (`AgentRunsProofs`). `TypeOK /\ LeaseConsistent /\ Holding /\ Turns` is
inductive, with the same meaning, and gives fencing (state and checkpoint), finality and
the refinement of `LeasedWork`.

*Approval gate* (in `AgentRunsProofs`). `GateInv` adds

* `Linked`: a checkpoint, and the tool call in a worker's memory, belong to a request
  of that very run; a request nobody has proposed has no decision and no effect;
* `Decisions`: the request a decision handler holds exists, once recorded it is no longer
  pending, and the requester is never among those who have approved;
* `Alone`, for runs that have not lost a lease or been retried: at most one worker
  holds the run, where it is fits the state, and no tool call that may still be carried
  out has been carried out before;
* `Gated`, for runs with no disturbance at all: a request that can still be acted on is
  the one its worker is just pausing for or the run waits for, at most one recorded
  decision is on its way to it, and a run that is queued or resumed with a checkpoint has
  that request approved.

From it follow `OnceUnlessInterrupted` and `ApprovedBeforeExecuted`.

*Mutual exclusion* (in `JobQueueProofs` and `AgentRunsProofs`). `OneHandler` and
`OneDriver` are proved for `TimelyHeartbeats = TRUE`, which says of time what the code relies
on: a lease does not run out under a worker that is renewing it. `Exclusive` is the
invariant beside those above: a worker in a pass has a live lease on its item or has
been cancelled under it, and no other worker has the item in memory.

*Durability* (`DurabilityProofs`). The inductive invariant is
`TypeOK /\ Single /\ Answered /\ Locks /\ Counts /\ Ordered`:

* `Single`: of the transactions under one key, one at most has its record inserted, committed
  or not; this is what the index guards, `OneEffect` is what a reader sees of it;
* `Answered`: a committed call answers itself, a replay names a committed call, and no step
  changes what an answer refers to;
* `Locks`: a locked event is due and has one holder, so nobody else moves it on;
* `Counts`: the attempts of an event fit its status, and the calls of the sink exceed them by the
  transaction that is open and by those that were rolled back, no more;
* `Ordered`: once an event has been taken, every earlier committed one has been tried,
  rolled back or committed late, or is locked.

From it follow the invariants of the run, `TypeOK`, `OneEffect`, `NoPhantoms`, `TriesBounded`, and the
refinement `ImplementsReliableEffects`.

The request modules have no lock to rely on and mostly no transaction around what they read and
write. Their inductive invariants therefore have one shape: what the tables say, and for
each frame what still holds of that which its request has read. Such a condition on a frame takes the
tables as parameters, so that one lemma shows that it survives the writes of others and another that
the step of its own request takes it over. Everything is shown for one step of one component; `Moves`
says that the other components stand still.

*Tickets, checklists, dispatch* (`OperationsProofs`), where all three write at once:

* `TicketsInv` for `EventsTellStatus` and `ReopenedStaysTerminal`: the chain of events needs that
  every event names a ticket that there is and that each write of a status appends its event with the new
  version; the second needs that a reopening under way has a ticket that is closed or cancelled, which no
  other request can undo;
* `UploadInv` for `UploadedIsRecorded`: between the search for the hash and the mark the frame names an
  entry of the queue, and evidence of the same ticket and hash if any was found;
* `AssignInv` for `OverrideOnRecord`: the type of a ticket, the row of a worker but for its status, and a window of
  availability stay, so a frame past their queries can rely on them; that he is active and rested it can rely on
  only while `writes` is what it was when the worker was looked up, which is what the property says;
  a frame that overrides has the override stored;
* `SyncInv` for the action property `ReplaySyncsOnce`.

*Supplies* (`SupplyProofs`):

* `WorkInv` for `WorkIsApproved`: an estimate has as many decisions as its status says, one or none, by
  another than its author; the frame that starts an order relies on its estimate being approved, which is
  final; so `decide` may be raced and the guard of its `UPDATE` decides;
* `CustodyInv` for `CustodyIsTrue`: a handover that has seen the vehicle free, or a review that has counted
  no other open incident, finds only such incidents open that are in `raced`; every transaction that sets the custodian
  appends its event, so the event appended last tells him (`Told`), and if none was overtaken it is the one with the
  greatest `at`;
* `VersionsInv` for `PackageIsReplaced`: versions active and not in the frame's list were activated beside it;
* `LedgerInv` and `ControlsInv` for `LedgerMatches` and `ApprovedUnderControls`: documents and entries are
  numbered alike and the unique index holds; no decision that compared maker and checker is of the maker, makers
  stay, and a frame past the check has another approver and, where it is asked for, a verification;
* `SnapshotsInv` for `SnapshotsVerify`: every answer read so far lies between the source when the reading
  began and the source now; payloads have answers and a period and nothing else, so equal payloads are equal in both.

*Property, owner, contract, stock, calendar* (`PremisesProofs`):

* `AcceptedInv` for `AcceptedIsFixed`: a row that was read has a version that is past, or is the agreement; an
  acceptance whose `UPDATE` finds that version has therefore read the last version of the terms;
* `QuoteInv` for `QuoteIsExact`: `Percentage` shows that
  dividing in two parts loses nothing, for all integers; the rest is that a rule has passed its validation;
* `OwnerInv` for `StatusTellsChecklist`: three reads belong together if the version of the case has not moved,
  since every write of the evidence and the inspections moves it; if it has, the write is refused;
* `HomeInv` for `LifecycleOnRecord` and `HeldOnceScanned`: a row read is the row stored or its version is past;
  a critical item that had expired when the scan began is held, or is still ahead of the scan, or the
  scan has failed. The kind of a hold and of an item never change, which is what makes re-scans safe;
* `StockInv` for `StockIsThere`: while a request holds the location nobody appends to the ledger but a
  reconciliation, and what was in the ledger when the balance was checked (`seen`) stays there, so the balance
  over those rows stays what it was. Balances are sums over rows: `SumGrows` compares the sums of two ledgers of
  which one extends the other;
* `CalendarInv` for `StaysAreServed` and `ConflictsSettled`: two ingests never have the same feed (the row
  lock), so what an ingest has read of its own feed is what it will have stored; of other feeds it may be stale,
  and those stays are what `raced` names. Any overlap it has read is among the issues it reports
  (`OverlapDetected`), rows are only added to those on record, and a decision is one of a conflict that was open.

*People* (`PeopleProofs`):

* `RightsInv` for `RetainedIsNotErased`: a decision under way carries the row as it was read, no more was retained then
  than is now, and one that completes an erasure began with nothing retained; an approval under way is of a copy
  that was de-identified;
* `OwnersInv` for `OwnersSeeTheirs`: what an export has collected is of its tenant and property, and of the
  tables it has read it has all that was there when it was asked for; history is only added to;
* `AssistantInv` for `DeliveredAsReviewed`: a request past the check of the state has a review by another than
  the author, which is final, and finds other deliveries of its draft or under its key only if it is in
  `deliveredBeside`;
* `FilingInv` for `SubmittedAsReviewed`: what a confirmation has gathered and what is left make up the
  documents of the packet, in order, and what it has gathered is sound; documents of a packet stay, versions and
  reviews become more, so whatever is uploaded meanwhile does not spoil it: a version that was the newest among the
  first `seen` is so for good. A receipt takes its confirmation from those under way, which bounds their number;
* `WorkersInv` for `WorkersAsReviewed`: the version of a worker counts the adverse reviews, which name the
  versions one after another, and nothing else writes the status; a frame that has found the worker eligible
  relies on the version it has read, whose status past reviews fix for good, and on certifications, which only become
  more;
* `ContactInv` for `ContactIsAllowed`: a frame that will deliver has its review and preferences under which
  it is allowed. `QuietHours` shows the comparison the code makes across midnight to be exact: no minute
  it lets through is one counted on from the start of the quiet hours modulo the day, for a day of any length;
* `KeysInv` for `AccessIsControlled`: the ledger tells the status of each grant by the last event appended that moves
  it, which is the one listed first if none was overtaken; an event of an ended grant keeps it ended, and the bounds
  are strengthened to what they mean. While a grant is live
  none of its disclosures is late; when it ends, at most every client is about to disclose it; from then on
  no request begins to, so each late disclosure takes one from those under way (`OneDone`), and the
  sum stays within the number of clients. A hold is counted in the same way.

*Lemmas about the operators* (`TableLemmas`): rows inserted and updated, the empty table, and sums. The
induction theorems of the library take an operator as a parameter, but the well-foundedness of the strict
subset order is first order: from it follow `Numbers` (induction over a set of numbers), `Repeated` (a
step may be repeated, so the recursive function that sums or appends is one) and through them what the sums
of `Inventory` and `Contracts` are for any number of rows.

The type invariants, `LeaseConsistent`, `TerminalIsFinal`, `AttemptsBounded`, `OneEffect`, `NoPhantoms`,
`TriesBounded`, `OneDriver`, `OneHandler` and the `FencedWrites` of jobs are proved for every value of the
constants and are therefore not repeated as invariants of the runs, which keep the properties a reader would
check first.

## Limits

* Only model-checked: liveness (`Progress`, `Drained`, `Settled`), which rests on fairness. Every safety
  property of the passing runs is proved as well.
* TLAPS cannot do liveness under fairness or ENABLED, induction over data, or anything
  in a module with RECURSIVE operators. No module here uses RECURSIVE operators.
* Not modelled in the components that are: idempotency keys and the event log of agent
  runs, token counts, the text of a conversation, what a ticket created by a tool call
  contains; checklist templates, route plans and the resolution of synchronisation conflicts;
  parsing of calendars, time zones, prices and taxes; encryption; reads that answer a client and
  change nothing; audit records.
* A decision recorded for a run that no longer waits is answered with an error and
  leaves the request decided (`AbandonDecision`). No property says the run can still be
  decided; it cannot.
* The listing of the access ledger has a LIMIT of 100 rows and that of a vehicle's custody reads one; the first is
  taken not to be reached.
* The two-person rule of dispatch makes every high-risk ticket fail its evaluation, so what it asks of
  specialists and certificates decides nothing and is left out of `evaluateWorker`.
* Not modelled of durability: `operation_class` (stored, never compared: a key is shared by
  all operations), `expires_at` (never read), the length of a backoff, `CheckVersion` (no
  state), and a `max_attempts` column that is not positive (the default is 5 and
  nothing writes it).
* The database is taken to be correct: a statement is atomic, a row lock excludes, a
  unique index refuses the second row, and a lost connection before a commit leaves nothing.
  Transactions are READ COMMITTED; a transaction of several statements is one action where
  nothing it reads in it can be changed by others to effect, and several where it can.
* Components not modelled, and why:
  * `iam`: single guarded updates of one row, around cryptography and clocks.
  * `procurement`: no request moves a requisition from draft to pending approval, accepts a rebate, or
    stores the status of a receipt after its insert. Nearly every handler stops at its first guard.
  * `automation/superhost` threads and tools, provider client, `automation/evaluation`: input and output
    around a provider; what they do to runs is in `AgentRuns`. Of `automation/hermes` the policy engine, a
    pure function of the names of tools.
  * `api` beyond the handlers of the components, `observability`, `security`, `platform/audit`, `platform/config`,
    `platform/http`, `recovery`, `release`, `quality`, entry points, frontend and documents: no protocol of
    their own.
  * `billing/handler.go`, `documents/handler.go`, `property/handler.go` are not mounted by
    `platform/app/app.go`; their services are modelled behind the routes that are.
