------------------------------ MODULE AgentRuns ------------------------------
(***************************************************************************)
(* Agent runs and the human approval gate (internal/automation,            *)
(* internal/automation/superhost, the tool executor in                     *)
(* internal/platform/app).                                                 *)
(*                                                                         *)
(* A run is a row of agent_runs that worker processes claim under a lease, *)
(* drive through a model provider, and pause when the model proposes a     *)
(* tool call a human must approve.  The HTTP handler that records the      *)
(* human's decision and the workers share nothing but the database: every  *)
(* action below is one SQL statement (or one transaction) of one of them.  *)
(*                                                                         *)
(* A worker identity is drawn at random when a process starts (app.go,     *)
(* newWorkerID), so a restarted process is another member of Workers.      *)
(* Tool calls the policy allows or denies change nothing but the           *)
(* conversation held in the worker's memory and are not modelled;          *)
(* waiting_for_tool and unknown are states no code ever writes.            *)
(***************************************************************************)
EXTENDS Naturals, FiniteSets

CONSTANTS
  Runs,              \* rows of agent_runs
  Workers,           \* worker processes ever started
  Requests,          \* rows of approval_requests
  Users,             \* accounts that may call the decision endpoint
  RequesterOf,       \* the account a run acts for (agent_runs.actor_id)
  MaxAttempts,       \* agent_runs.max_attempts (DefaultMaxAttempts is 3)
  Crashable,         \* workers that may stop for good
  TimelyHeartbeats,  \* a working owner always renews its lease in time
  ClaimBound,        \* bound: a run claimed this often is not retried any more,
                     \* and keeps its lease unless its owner stops or pauses it
  None               \* SQL NULL

ASSUME ConstantsAssumption ==
  /\ None \notin Runs \cup Workers \cup Requests
  /\ MaxAttempts \in Nat \ {0}
  /\ Crashable \subseteq Workers
  /\ TimelyHeartbeats \in BOOLEAN
  /\ ClaimBound \in Nat

VARIABLES
  state,        \* agent_runs.state, "absent" before the row exists
  owner,        \* agent_runs.lease_owner
  expired,      \* agent_runs.lease_expires_at < now
  attempt,      \* agent_runs.attempt
  checkpoint,   \* agent_runs.messages_json: the request whose tool call it ends in
  decision,     \* approval_requests.state, "absent" before the row exists
  requestRun,   \* approval_requests.run_id
  pc,           \* where each worker is in RunWorkLoop
  job,          \* the run the worker holds in memory
  call,         \* the tool call it holds: read at claim, or just proposed
  handler,      \* where each user's call of handleDecideApproval is
  handled,      \* the request that call loaded
  verdict,      \* the decision it carries
  claims,       \* history: how often each run was claimed
  claimNo,      \* history: the claim each worker works under
  executed,     \* history: how often the tool call of a request was carried out
  approvers,    \* history: who has approved a request
  interrupted   \* history: what has disturbed a run, see Disturbances

runVars     == <<state, owner, expired, attempt, checkpoint>>
requestVars == <<decision, requestRun>>
workerVars  == <<pc, job, call>>
handlerVars == <<handler, handled, verdict>>
history     == <<claims, claimNo, executed, approvers, interrupted>>
vars == <<runVars, requestVars, workerVars, handlerVars, history>>

Active == {"leased", "running", "waiting_for_approval"}
RunStates == Active \cup {"absent", "queued", "retryable", "completed", "failed",
                          "cancelled"}
DecisionStates == {"absent", "pending", "approved", "rejected"}
\* a lease lost, a retry, a recorded decision recorded over
Disturbances == {"lease", "retry", "overwrite"}
Working == {"claimed", "resuming", "thinking", "proposed", "saved"}

TypeOK ==
  /\ state \in [Runs -> RunStates]
  /\ owner \in [Runs -> Workers \cup {None}]
  /\ expired \in [Runs -> BOOLEAN]
  /\ attempt \in [Runs -> Nat]
  /\ checkpoint \in [Runs -> Requests \cup {None}]
  /\ decision \in [Requests -> DecisionStates]
  /\ requestRun \in [Requests -> Runs \cup {None}]
  /\ pc \in [Workers -> Working \cup {"idle", "down"}]
  /\ job \in [Workers -> Runs \cup {None}]
  /\ call \in [Workers -> Requests \cup {None}]
  /\ handler \in [Users -> {"idle", "checked", "recorded"}]
  /\ handled \in [Users -> Requests \cup {None}]
  /\ verdict \in [Users -> {"approved", "rejected"}]
  /\ claims \in [Runs -> Nat]
  /\ claimNo \in [Workers -> Nat]
  /\ executed \in [Requests -> Nat]
  /\ approvers \in [Requests -> SUBSET Users]
  /\ interrupted \in [Runs -> SUBSET Disturbances]

Init ==
  /\ state = [r \in Runs |-> "absent"]
  /\ owner = [r \in Runs |-> None]
  /\ expired = [r \in Runs |-> FALSE]
  /\ attempt = [r \in Runs |-> 0]
  /\ checkpoint = [r \in Runs |-> None]
  /\ decision = [q \in Requests |-> "absent"]
  /\ requestRun = [q \in Requests |-> None]
  /\ pc = [w \in Workers |-> "idle"]
  /\ job = [w \in Workers |-> None]
  /\ call = [w \in Workers |-> None]
  /\ handler = [u \in Users |-> "idle"]
  /\ handled = [u \in Users |-> None]
  /\ verdict = [u \in Users |-> "rejected"]
  /\ claims = [r \in Runs |-> 0]
  /\ claimNo = [w \in Workers |-> 0]
  /\ executed = [q \in Requests |-> 0]
  /\ approvers = [q \in Requests |-> {}]
  /\ interrupted = [r \in Runs |-> {}]

-----------------------------------------------------------------------------
(* Clients of the run API *)

Submit(r) ==
  /\ state[r] = "absent"
  /\ state' = [state EXCEPT ![r] = "queued"]
  /\ UNCHANGED <<owner, expired, attempt, checkpoint, requestVars, workerVars,
                 handlerVars, history>>

KeepOwner(r) == UNCHANGED owner /\ expired' = [expired EXCEPT ![r] = FALSE]
DropLease(r) ==
  /\ owner' = [owner EXCEPT ![r] = None]
  /\ expired' = [expired EXCEPT ![r] = FALSE]

Cancel(r) ==
  /\ state[r] \in {"queued", "retryable"} \cup Active
  /\ state' = [state EXCEPT ![r] = "cancelled"]
  /\ DropLease(r)
  /\ UNCHANGED <<attempt, checkpoint, requestVars, workerVars, handlerVars, history>>

\* The checkpoint of the earlier attempt survives a retry.
Retry(r) ==
  /\ state[r] \in {"retryable", "failed"}
  /\ claims[r] < ClaimBound
  /\ state' = [state EXCEPT ![r] = "queued"]
  /\ attempt' = [attempt EXCEPT ![r] = 0]
  /\ DropLease(r)
  /\ interrupted' = [interrupted EXCEPT ![r] = @ \cup {"retry"}]
  /\ UNCHANGED <<checkpoint, requestVars, workerVars, handlerVars, claims, claimNo,
                 executed, approvers>>

-----------------------------------------------------------------------------
(* Leases *)

\* The WHERE clause of Claim.  Unlike Recoverable it includes a run that waits
\* for approval once its last processing lease has run out.
ClaimableEarly(r) == state[r] = "queued" \/ state[r] \in Active
Claimable(r) ==
  \/ state[r] = "queued"
  \/ state[r] \in Active /\ expired[r]

Claim(w, r) ==
  /\ pc[w] = "idle"
  /\ Claimable(r)
  /\ state' = [state EXCEPT ![r] = "leased"]
  /\ owner' = [owner EXCEPT ![r] = w]
  /\ expired' = [expired EXCEPT ![r] = FALSE]
  /\ attempt' = [attempt EXCEPT ![r] = @ + 1]
  /\ pc' = [pc EXCEPT ![w] = "claimed"]
  /\ job' = [job EXCEPT ![w] = r]
  /\ call' = [call EXCEPT ![w] = checkpoint[r]]
  /\ claims' = [claims EXCEPT ![r] = @ + 1]
  /\ claimNo' = [claimNo EXCEPT ![w] = claims[r] + 1]
  /\ interrupted' = [interrupted EXCEPT ![r] = IF state[r] = "queued" THEN @ ELSE @ \cup {"lease"}]
  /\ UNCHANGED <<checkpoint, requestVars, handlerVars, executed, approvers>>

Recoverable(r) == state[r] \in {"leased", "running"} /\ expired[r]

RecoverExpiredLeases ==
  LET lost == {r \in Runs : Recoverable(r)} IN
  /\ lost # {}
  /\ state' = [r \in Runs |-> IF r \in lost THEN "queued" ELSE state[r]]
  /\ owner' = [r \in Runs |-> IF r \in lost THEN None ELSE owner[r]]
  /\ expired' = [r \in Runs |-> expired[r] /\ r \notin lost]
  /\ interrupted' = [r \in Runs |-> interrupted[r] \cup {"lease" : x \in lost \cap {r}}]
  /\ UNCHANGED <<attempt, checkpoint, requestVars, workerVars, handlerVars, claims,
                 claimNo, executed, approvers>>

\* WHERE lease_owner = $worker: what every write of a worker is guarded by.
Unfenced(w) == job[w] # None
OwnsLease(w) == job[w] # None /\ owner[job[w]] = w

InUse(r) == \E w \in Workers : job[w] = r /\ OwnsLease(w)

\* The heartbeat goroutine lives from StartRunning until processRun returns.
Heartbeat(w) ==
  /\ pc[w] \in Working \ {"claimed"}
  /\ OwnsLease(w)
  /\ expired' = [expired EXCEPT ![job[w]] = FALSE]
  /\ UNCHANGED <<state, owner, attempt, checkpoint, requestVars, workerVars,
                 handlerVars, history>>

\* Time passes.  Under TimelyHeartbeats only a lease nobody renews runs out:
\* its owner has stopped, has given the run up, or has paused it for a human.
Expire(r) ==
  /\ owner[r] # None /\ ~expired[r]
  /\ InUse(r) => ~TimelyHeartbeats /\ claims[r] < ClaimBound
  /\ expired' = [expired EXCEPT ![r] = TRUE]
  /\ UNCHANGED <<state, owner, attempt, checkpoint, requestVars, workerVars,
                 handlerVars, history>>

-----------------------------------------------------------------------------
(* One pass of the worker's loop *)

Rest(w) ==
  /\ pc' = [pc EXCEPT ![w] = "idle"]
  /\ job' = [job EXCEPT ![w] = None]
  /\ call' = [call EXCEPT ![w] = None]

StartRunning(w) ==
  /\ pc[w] = "claimed"
  /\ OwnsLease(w) /\ state[job[w]] = "leased"
  /\ state' = [state EXCEPT ![job[w]] = "running"]
  /\ pc' = [pc EXCEPT ![w] = IF call[w] = None THEN "thinking" ELSE "resuming"]
  /\ UNCHANGED <<owner, expired, attempt, checkpoint, requestVars, job, call,
                 handlerVars, history>>

\* resumeRun carries the checkpointed tool call out; the ticket transaction may
\* also fail, which the model is told and the loop goes on.
Resume(w) ==
  /\ pc[w] = "resuming"
  /\ pc' = [pc EXCEPT ![w] = "thinking"]
  /\ executed' \in {executed, [executed EXCEPT ![call[w]] = @ + 1]}
  /\ UNCHANGED <<runVars, requestVars, job, call, handlerVars, claims, claimNo,
                 approvers, interrupted>>

\* The provider's final answer, or the canned fallback when the provider fails.
Complete(w) ==
  /\ pc[w] = "thinking"
  /\ OwnsLease(w)
  /\ state' = [state EXCEPT ![job[w]] = "completed"]
  /\ DropLease(job[w])
  /\ Rest(w)
  /\ UNCHANGED <<attempt, checkpoint, requestVars, handlerVars, history>>

\* The provider proposes a tool that needs approval: a pending request is
\* recorded, whoever holds the lease by now.
ProposedState == "pending"
Propose(w, q) ==
  /\ pc[w] = "thinking"
  /\ decision[q] = "absent"
  /\ decision' = [decision EXCEPT ![q] = ProposedState]
  /\ requestRun' = [requestRun EXCEPT ![q] = job[w]]
  /\ pc' = [pc EXCEPT ![w] = "proposed"]
  /\ call' = [call EXCEPT ![w] = q]
  /\ UNCHANGED <<runVars, job, handlerVars, history>>

SaveMessages(w) ==
  /\ pc[w] = "proposed"
  /\ OwnsLease(w)
  /\ checkpoint' = [checkpoint EXCEPT ![job[w]] = call[w]]
  /\ pc' = [pc EXCEPT ![w] = "saved"]
  /\ UNCHANGED <<state, owner, expired, attempt, requestVars, job, call,
                 handlerVars, history>>

\* The lease is left as it is; nobody renews it from here on.
Pause(w) ==
  /\ pc[w] = "saved"
  /\ OwnsLease(w) /\ state[job[w]] = "running"
  /\ state' = [state EXCEPT ![job[w]] = "waiting_for_approval"]
  /\ Rest(w)
  /\ UNCHANGED <<owner, expired, attempt, checkpoint, requestVars, handlerVars,
                 history>>

FailedState(r) == IF attempt[r] >= MaxAttempts THEN "failed" ELSE "retryable"

\* A tool evaluation error, a checkpoint that could not be saved, the iteration
\* cap, or no provider.
Fail(w) ==
  /\ pc[w] \in Working \ {"claimed"}
  /\ OwnsLease(w)
  /\ state' = [state EXCEPT ![job[w]] = FailedState(job[w])]
  /\ DropLease(job[w])
  /\ Rest(w)
  /\ UNCHANGED <<attempt, checkpoint, requestVars, handlerVars, history>>

GiveUpAndStop(w) ==
  /\ pc[w] \in Working
  /\ pc' = [pc EXCEPT ![w] = "down"]
  /\ UNCHANGED <<runVars, requestVars, job, call, handlerVars, history>>

\* Any of the guarded writes matches no row, or the database refuses it: the
\* error is logged and the loop claims the next run.
GiveUp(w) ==
  /\ pc[w] \in Working
  /\ OwnsLease(w) => claims[job[w]] < ClaimBound
  /\ Rest(w)
  /\ UNCHANGED <<runVars, requestVars, handlerVars, history>>

Crash(w) ==
  /\ w \in Crashable
  /\ pc[w] # "down"
  /\ pc' = [pc EXCEPT ![w] = "down"]
  /\ job' = [job EXCEPT ![w] = None]
  /\ call' = [call EXCEPT ![w] = None]
  /\ UNCHANGED <<runVars, requestVars, handlerVars, history>>

-----------------------------------------------------------------------------
(* handleDecideApproval: load and check, record the decision, move the run *)

CheckDecision(u, q, d) ==
  /\ handler[u] = "idle"
  /\ decision[q] = "pending"
  /\ ~(d = "approved" /\ u = RequesterOf[requestRun[q]])
  /\ handler' = [handler EXCEPT ![u] = "checked"]
  /\ handled' = [handled EXCEPT ![u] = q]
  /\ verdict' = [verdict EXCEPT ![u] = d]
  /\ UNCHANGED <<runVars, requestVars, workerVars, history>>

\* The UPDATE does not look at the state it overwrites.
SaveApprovalDecision(u) ==
  LET q == handled[u] IN
  /\ handler[u] = "checked"
  /\ decision' = [decision EXCEPT ![q] = verdict[u]]
  /\ handler' = [handler EXCEPT ![u] = "recorded"]
  /\ approvers' = [approvers EXCEPT ![q] =
                     IF verdict[u] = "approved" THEN @ \cup {u} ELSE @]
  /\ interrupted' = [interrupted EXCEPT ![requestRun[q]] =
                       IF decision[q] = "pending" THEN @ ELSE @ \cup {"overwrite"}]
  /\ UNCHANGED <<runVars, requestRun, workerVars, handled, verdict, claims, claimNo,
                 executed>>

EndCall(u) ==
  /\ handler' = [handler EXCEPT ![u] = "idle"]
  /\ handled' = [handled EXCEPT ![u] = None]
  /\ verdict' = [verdict EXCEPT ![u] = "rejected"]

SwappedOutcome(d) == IF d = "approved" THEN "failed" ELSE "queued"
Outcome(d) == IF d = "approved" THEN "queued" ELSE "failed"

AnyState(r) == state[r] # "absent"
AwaitsDecision(r) == state[r] = "waiting_for_approval"

DecideRun(u) ==
  LET r == requestRun[handled[u]] IN
  /\ handler[u] = "recorded"
  /\ AwaitsDecision(r)
  /\ state' = [state EXCEPT ![r] = Outcome(verdict[u])]
  /\ DropLease(r)
  /\ EndCall(u)
  /\ UNCHANGED <<attempt, checkpoint, requestVars, workerVars, history>>

\* DecideRun finds the run in another state, or the API process stops.
AbandonDecision(u) ==
  /\ handler[u] # "idle"
  /\ EndCall(u)
  /\ UNCHANGED <<runVars, requestVars, workerVars, history>>

-----------------------------------------------------------------------------
WorkerStep(w) ==
  \/ StartRunning(w) \/ Resume(w) \/ Complete(w) \/ SaveMessages(w) \/ Pause(w)
  \/ Fail(w) \/ GiveUp(w)
  \/ \E q \in Requests : Propose(w, q)

Next ==
  \/ \E r \in Runs : Submit(r) \/ Cancel(r) \/ Retry(r) \/ Expire(r)
  \/ RecoverExpiredLeases
  \/ \E w \in Workers :
       \/ WorkerStep(w) \/ Heartbeat(w) \/ Crash(w)
       \/ \E r \in Runs : Claim(w, r)
  \/ \E u \in Users :
       \/ SaveApprovalDecision(u) \/ DecideRun(u) \/ AbandonDecision(u)
       \/ \E q \in Requests, d \in {"approved", "rejected"} : CheckDecision(u, q, d)

Spec == Init /\ [][Next]_vars

\* Fairness.  Each worker that has not crashed keeps taking the next step of its
\* loop (GiveUp stands for the error branch, which ends the pass too); the
\* recovery ticker fires every 15 seconds; leases nobody renews do run out; and
\* Claim takes the oldest run first, so a run that stays claimable, or becomes so
\* again and again, is reached: only older runs can come before it.
Fairness ==
  /\ \A w \in Workers : WF_vars(WorkerStep(w))
  /\ WF_vars(RecoverExpiredLeases)
  /\ \A r \in Runs : WF_vars(Expire(r))
  /\ \A r \in Runs : SF_vars(\E w \in Workers : Claim(w, r))

FairSpec == Spec /\ Fairness

-----------------------------------------------------------------------------
(* Refinement *)

Phase(s) ==
  CASE s = "queued" -> "open"
    [] s \in Active -> "held"
    [] s \in {"retryable", "failed"} -> "parked"
    [] s = "completed" -> "done"
    [] s = "cancelled" -> "dropped"
    [] OTHER -> "absent"

Work == INSTANCE LeasedWork WITH
  Items <- Runs,
  phase <- [r \in Runs |-> Phase(state[r])],
  turn  <- claims,
  grip  <- [w \in Workers |-> IF job[w] = None THEN <<>> ELSE <<job[w], claimNo[w]>>]

\* Runs are leased work too: a run that waits for a human still counts as held,
\* by nobody, until a decision releases it or another worker claims it.
ImplementsLeasedWork == Work!Spec

-----------------------------------------------------------------------------
(* Properties *)

\* A run has a lease owner exactly while it is leased, running or waiting: every
\* statement that moves a run out of those states clears the lease, and none that
\* keeps it there does.  Otherwise a finished run could still be written to, or
\* an active one could never be recovered.
LeaseConsistent ==
  \A r \in Runs :
    /\ owner[r] # None <=> state[r] \in Active
    /\ expired[r] => owner[r] # None

\* The gate: as long as a run has not lost a lease, been retried or had a recorded
\* decision overwritten, the tool call of a request is carried out only after
\* somebody other than the requester approved that very request.
ApprovedBeforeExecuted ==
  \A q \in Requests :
    executed[q] > 0 /\ interrupted[requestRun[q]] = {}
      => approvers[q] \ {RequesterOf[requestRun[q]]} # {}

\* A tool call is carried out at most once unless its run lost a lease or was
\* retried; decisions, however they race, never repeat it.
OnceUnlessInterrupted ==
  \A q \in Requests :
    executed[q] > 1 => interrupted[requestRun[q]] \cap {"lease", "retry"} # {}

\* Fencing: a worker whose run has since been claimed again can no longer change
\* the run's state or its checkpoint, however late its writes arrive.
FencedWrites ==
  [][\A w \in Workers :
       pc[w] \in Working /\ pc'[w] # pc[w] /\ claimNo[w] # claims[job[w]]
         => /\ state'[job[w]] = state[job[w]]
            /\ checkpoint'[job[w]] = checkpoint[job[w]]]_vars

\* A completed or cancelled run stays so (models.go, terminalStates), whatever
\* late worker, decision, retry or recovery still reaches it.
TerminalIsFinal ==
  [][\A r \in Runs : state[r] \in {"completed", "cancelled"}
                       => state'[r] = state[r]]_vars

\* With heartbeats in time no two processes drive one run at the same time.
OneDriver ==
  \A v, w \in Workers :
    pc[v] \in Working /\ pc[w] \in Working /\ job[v] = job[w] => v = w

\* With heartbeats in time every submitted run is driven to a state only a human
\* moves it out of: no queued, leased or running run is forgotten, even when the
\* worker that holds it stops for good.
Progress ==
  \A r \in Runs :
    state[r] \in {"queued", "leased", "running"}
      ~> state[r] \in {"waiting_for_approval", "retryable", "failed", "completed",
                       "cancelled"}

\* What the comment on RecoverExpiredLeases (store.go) says: a human decision is
\* the only thing that moves a run out of waiting_for_approval (cancellation
\* aside, which is a human's too).
OnlyDecisionLeavesWaiting ==
  [][\A r \in Runs :
       state[r] = "waiting_for_approval" /\ state'[r] # state[r]
         => \/ state'[r] = "cancelled"
            \/ \E u \in Users : handler[u] = "recorded" /\ requestRun[handled[u]] = r]_vars

\* What the comment on ExecuteApproved (tool_executor.go) says: it is called
\* after a human has approved the tool call, here of runs that never lose a lease ...
ExecutedOnlyIfApproved ==
  \A q \in Requests :
    executed[q] > 0 /\ "lease" \notin interrupted[requestRun[q]] => approvers[q] # {}

\* ... and it is called once.
ExecutedOnce == \A q \in Requests : executed[q] <= 1

=============================================================================
