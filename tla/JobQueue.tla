------------------------------ MODULE JobQueue ------------------------------
(***************************************************************************)
(* The durable job queue (internal/platform/jobs) and the worker loops of  *)
(* internal/platform/app that drain it.                                    *)
(*                                                                         *)
(* Clients enqueue jobs under an optional idempotency key; each worker     *)
(* claims the next due job under a lease, runs its handler while a         *)
(* goroutine renews the lease, and records the outcome.  A ticker returns  *)
(* jobs whose lease ran out.  Clients and workers share only the table     *)
(* jobs: every action below is one SQL statement (or one transaction).     *)
(*                                                                         *)
(* A worker identity is drawn at random when a process starts (app.go,     *)
(* newWorkerID), so a restarted process is another member of Workers.      *)
(***************************************************************************)
EXTENDS Naturals, FiniteSets, TLC

CONSTANTS
  Jobs,              \* rows of table jobs
  Workers,           \* worker processes ever started
  Clients,           \* callers of Enqueue
  Keys,              \* idempotency keys
  Payloads,          \* job payloads
  MaxAttempts,       \* jobs.max_attempts (DefaultMaxAttempts is 5)
  Crashable,         \* workers that may stop for good
  TimelyHeartbeats,  \* a working owner always renews its lease in time
  ClaimBound,        \* bound: a job claimed this often keeps its lease unless its
                     \* owner crashes, and the database refuses it nothing
  None               \* SQL NULL

ASSUME ConstantsAssumption ==
  /\ None \notin Jobs \cup Workers \cup Keys \cup Payloads
  /\ "refused" \notin Jobs
  /\ MaxAttempts \in Nat \ {0}
  /\ Crashable \subseteq Workers
  /\ TimelyHeartbeats \in BOOLEAN
  /\ ClaimBound \in Nat

VARIABLES
  status,     \* jobs.status, "absent" before the row exists
  owner,      \* jobs.lease_owner
  expired,    \* jobs.lease_expires_at < now
  due,        \* jobs.next_retry_at <= now
  attempt,    \* jobs.attempt
  key,        \* jobs.idempotency_key
  payload,    \* jobs.payload
  pc,         \* where each worker is in runWorkLoop
  job,        \* the job the worker holds in memory
  asked,      \* the request of a client that found no row under its key
  reply,      \* what the client's last call of Enqueue returned: a job or "refused"
  claims,     \* history: how often each job was claimed
  claimNo,    \* history: the claim each worker works under
  ran,        \* history: how often the job's handler returned without an error
  lost        \* history: a lease of the job has run out

rowVars    == <<status, owner, expired, due, attempt, key, payload>>
workerVars == <<pc, job>>
clientVars == <<asked, reply>>
history    == <<claims, claimNo, ran, lost>>
vars == <<rowVars, workerVars, clientVars, history>>

Leased == {"claimed", "running"}
Statuses == Leased \cup {"absent", "pending", "failed", "completed", "dead"}
Working == {"claimed", "dispatched", "succeeded", "errored"}
AskedKeys == Keys \cup {None}

TypeOK ==
  /\ status \in [Jobs -> Statuses]
  /\ owner \in [Jobs -> Workers \cup {None}]
  /\ expired \in [Jobs -> BOOLEAN]
  /\ due \in [Jobs -> BOOLEAN]
  /\ attempt \in [Jobs -> Nat]
  /\ key \in [Jobs -> AskedKeys]
  /\ payload \in [Jobs -> Payloads \cup {None}]
  /\ pc \in [Workers -> Working \cup {"idle", "down"}]
  /\ job \in [Workers -> Jobs \cup {None}]
  /\ asked \in [Clients -> (AskedKeys \X Payloads) \cup {<<>>}]
  /\ reply \in [Clients -> Jobs \cup {None, "refused"}]
  /\ claims \in [Jobs -> Nat]
  /\ claimNo \in [Workers -> Nat]
  /\ ran \in [Jobs -> Nat]
  /\ lost \in [Jobs -> BOOLEAN]

Init ==
  /\ status = [j \in Jobs |-> "absent"]
  /\ owner = [j \in Jobs |-> None]
  /\ expired = [j \in Jobs |-> FALSE]
  /\ due = [j \in Jobs |-> FALSE]
  /\ attempt = [j \in Jobs |-> 0]
  /\ key = [j \in Jobs |-> None]
  /\ payload = [j \in Jobs |-> None]
  /\ pc = [w \in Workers |-> "idle"]
  /\ job = [w \in Workers |-> None]
  /\ asked = [c \in Clients |-> <<>>]
  /\ reply = [c \in Clients |-> None]
  /\ claims = [j \in Jobs |-> 0]
  /\ claimNo = [w \in Workers |-> 0]
  /\ ran = [j \in Jobs |-> 0]
  /\ lost = [j \in Jobs |-> FALSE]

-----------------------------------------------------------------------------
(* Clients *)

Holders(k) == {j \in Jobs : status[j] # "absent" /\ key[j] = k}

\* The answer for an existing row: a completed job is returned whatever its
\* payload, another one only for an equal payload.
KnownReply(j, p) ==
  IF status[j] = "completed" \/ payload[j] = p THEN j ELSE "refused"

\* Enqueue, first statement: look the key up, if there is one.
LookUp(c, k, p) ==
  /\ asked[c] = <<>>
  /\ \/ /\ k # None
        /\ \E j \in Holders(k) : reply' = [reply EXCEPT ![c] = KnownReply(j, p)]
        /\ UNCHANGED asked
     \/ /\ k = None \/ Holders(k) = {}
        /\ asked' = [asked EXCEPT ![c] = <<k, p>>]
        /\ reply' = [reply EXCEPT ![c] = None]
  /\ UNCHANGED <<rowVars, workerVars, history>>

\* The partial unique index on idempotency_key.
AnyKey(k) == TRUE
KeyFree(k) == k = None \/ Holders(k) = {}

\* Enqueue, second statement: the INSERT, refused when another client has used
\* the key since.
Insert(c, j) ==
  /\ asked[c] # <<>>
  /\ status[j] = "absent"
  /\ asked' = [asked EXCEPT ![c] = <<>>]
  /\ IF KeyFree(asked[c][1])
     THEN /\ status' = [status EXCEPT ![j] = "pending"]
          /\ key' = [key EXCEPT ![j] = asked[c][1]]
          /\ payload' = [payload EXCEPT ![j] = asked[c][2]]
          /\ reply' = [reply EXCEPT ![c] = j]
     ELSE /\ reply' = [reply EXCEPT ![c] = "refused"]
          /\ UNCHANGED <<status, key, payload>>
  /\ UNCHANGED <<owner, expired, due, attempt, workerVars, history>>

KeepOwner(j) == UNCHANGED owner /\ expired' = [expired EXCEPT ![j] = FALSE]
DropLease(j) ==
  /\ owner' = [owner EXCEPT ![j] = None]
  /\ expired' = [expired EXCEPT ![j] = FALSE]

Cancellable(j) == status[j] \in {"pending", "claimed"}

Cancel(j) ==
  /\ Cancellable(j)
  /\ status' = [status EXCEPT ![j] = "dead"]
  /\ DropLease(j)
  /\ UNCHANGED <<due, attempt, key, payload, workerVars, clientVars, history>>

-----------------------------------------------------------------------------
(* Leases and the clock *)

\* The WHERE clause of Claim; like Claim it does not look at max_attempts.
ClaimableEarly(j) == status[j] \in {"pending"} \cup Leased \/ (status[j] = "failed" /\ due[j])
NoRetries(j) == status[j] = "pending" \/ (status[j] \in Leased /\ expired[j])
Claimable(j) ==
  \/ status[j] = "pending"
  \/ status[j] = "failed" /\ due[j]
  \/ status[j] \in Leased /\ expired[j]

Claim(w, j) ==
  /\ pc[w] = "idle"
  /\ Claimable(j)
  /\ status' = [status EXCEPT ![j] = "claimed"]
  /\ owner' = [owner EXCEPT ![j] = w]
  /\ expired' = [expired EXCEPT ![j] = FALSE]
  /\ attempt' = [attempt EXCEPT ![j] = @ + 1]
  /\ pc' = [pc EXCEPT ![w] = "claimed"]
  /\ job' = [job EXCEPT ![w] = j]
  /\ claims' = [claims EXCEPT ![j] = @ + 1]
  /\ claimNo' = [claimNo EXCEPT ![w] = claims[j] + 1]
  /\ UNCHANGED <<due, key, payload, clientVars, ran, lost>>

Recoverable(j) == status[j] \in Leased /\ expired[j]
RecoveredStatus(j) == IF attempt[j] >= MaxAttempts THEN "dead" ELSE "pending"

RecoverExpiredLeases ==
  /\ \E j \in Jobs : Recoverable(j)
  /\ status' = [j \in Jobs |-> IF Recoverable(j) THEN RecoveredStatus(j) ELSE status[j]]
  /\ owner' = [j \in Jobs |-> IF Recoverable(j) THEN None ELSE owner[j]]
  /\ expired' = [j \in Jobs |-> expired[j] /\ ~Recoverable(j)]
  /\ UNCHANGED <<due, attempt, key, payload, workerVars, clientVars, history>>

\* WHERE lease_owner = $worker, the guard of every write of a worker.
Unfenced(w) == job[w] # None
OwnsLease(w) == job[w] # None /\ owner[job[w]] = w

InUse(j) == \E w \in Workers : job[w] = j /\ OwnsLease(w)

\* runHeartbeat lives while the handler runs.
Heartbeat(w) ==
  /\ pc[w] = "dispatched"
  /\ OwnsLease(w)
  /\ expired' = [expired EXCEPT ![job[w]] = FALSE]
  /\ UNCHANGED <<status, owner, due, attempt, key, payload, workerVars, clientVars,
                 history>>

\* Time passes.  Under TimelyHeartbeats only the lease of an owner that has
\* stopped or has dropped the job runs out.
Expire(j) ==
  /\ owner[j] # None /\ ~expired[j]
  /\ InUse(j) => ~TimelyHeartbeats /\ claims[j] < ClaimBound
  /\ expired' = [expired EXCEPT ![j] = TRUE]
  /\ lost' = [lost EXCEPT ![j] = TRUE]
  /\ UNCHANGED <<status, owner, due, attempt, key, payload, workerVars, clientVars,
                 claims, claimNo, ran>>

BackoffEnds(j) ==
  /\ status[j] = "failed" /\ ~due[j]
  /\ due' = [due EXCEPT ![j] = TRUE]
  /\ UNCHANGED <<status, owner, expired, attempt, key, payload, workerVars,
                 clientVars, history>>

-----------------------------------------------------------------------------
(* One pass of runWorkLoop *)

Rest(w) ==
  /\ pc' = [pc EXCEPT ![w] = "idle"]
  /\ job' = [job EXCEPT ![w] = None]

StartRunning(w) ==
  /\ pc[w] = "claimed"
  /\ OwnsLease(w) /\ status[job[w]] = "claimed"
  /\ status' = [status EXCEPT ![job[w]] = "running"]
  /\ pc' = [pc EXCEPT ![w] = "dispatched"]
  /\ UNCHANGED <<owner, expired, due, attempt, key, payload, job, clientVars, history>>

\* The handler returns; a job type without a handler is an error too.
Dispatch(w) ==
  /\ pc[w] = "dispatched"
  /\ \/ /\ pc' = [pc EXCEPT ![w] = "succeeded"]
        /\ ran' = [ran EXCEPT ![job[w]] = @ + 1]
     \/ /\ pc' = [pc EXCEPT ![w] = "errored"]
        /\ UNCHANGED ran
  /\ UNCHANGED <<rowVars, job, clientVars, claims, claimNo, lost>>

Complete(w) ==
  /\ pc[w] = "succeeded"
  /\ OwnsLease(w)
  /\ status' = [status EXCEPT ![job[w]] = "completed"]
  /\ DropLease(job[w])
  /\ Rest(w)
  /\ UNCHANGED <<due, attempt, key, payload, clientVars, history>>

FailedStatus(j) == IF attempt[j] >= MaxAttempts THEN "dead" ELSE "failed"

Fail(w) ==
  /\ pc[w] = "errored"
  /\ OwnsLease(w)
  /\ status' = [status EXCEPT ![job[w]] = FailedStatus(job[w])]
  /\ due' = [due EXCEPT ![job[w]] = FALSE]
  /\ DropLease(job[w])
  /\ Rest(w)
  /\ UNCHANGED <<attempt, key, payload, clientVars, history>>

\* StartRunning, Complete or Fail matches no row, or the database refuses it: the
\* error is logged and the loop claims the next job.
GiveUp(w) ==
  /\ pc[w] \in {"claimed", "succeeded", "errored"}
  /\ OwnsLease(w) => claims[job[w]] < ClaimBound
  /\ Rest(w)
  /\ UNCHANGED <<rowVars, clientVars, history>>

Crash(w) ==
  /\ w \in Crashable
  /\ pc[w] # "down"
  /\ pc' = [pc EXCEPT ![w] = "down"]
  /\ job' = [job EXCEPT ![w] = None]
  /\ UNCHANGED <<rowVars, clientVars, history>>

-----------------------------------------------------------------------------
WorkerStep(w) ==
  StartRunning(w) \/ Dispatch(w) \/ Complete(w) \/ Fail(w) \/ GiveUp(w)

Next ==
  \/ \E c \in Clients :
       \/ \E k \in AskedKeys, p \in Payloads : LookUp(c, k, p)
       \/ \E j \in Jobs : Insert(c, j)
  \/ \E j \in Jobs : Cancel(j) \/ Expire(j) \/ BackoffEnds(j)
  \/ RecoverExpiredLeases
  \/ \E w \in Workers :
       \/ WorkerStep(w) \/ Heartbeat(w) \/ Crash(w)
       \/ \E j \in Jobs : Claim(w, j)

Spec == Init /\ [][Next]_vars

\* Fairness.  Handlers return and a worker that has not crashed keeps taking the
\* next step of its loop; the recovery ticker fires every 15 seconds; leases
\* nobody renews and backoffs run out; Claim takes the oldest job first, so only
\* older jobs can come before one that is claimable again and again.
Fairness ==
  /\ \A w \in Workers : WF_vars(WorkerStep(w))
  /\ WF_vars(RecoverExpiredLeases)
  /\ \A j \in Jobs : WF_vars(Expire(j)) /\ WF_vars(BackoffEnds(j))
  /\ \A j \in Jobs : SF_vars(\E w \in Workers : Claim(w, j))

FairSpec == Spec /\ Fairness

-----------------------------------------------------------------------------
(* Refinement *)

Phase(s) ==
  CASE s = "pending" -> "open"
    [] s \in Leased -> "held"
    [] s = "failed" -> "parked"
    [] s = "completed" -> "done"
    [] s = "dead" -> "dropped"
    [] OTHER -> "absent"

Work == INSTANCE LeasedWork WITH
  Items <- Jobs,
  phase <- [j \in Jobs |-> Phase(status[j])],
  turn  <- claims,
  grip  <- [w \in Workers |-> IF job[w] = None THEN <<>> ELSE <<job[w], claimNo[w]>>]

\* The queue keeps the promise of leased work: only the worker that claimed a job
\* last ever settles it, although all the table knows is a lease_owner.
ImplementsLeasedWork == Work!Spec

-----------------------------------------------------------------------------
(* Properties *)

\* A job has a lease owner exactly while it is claimed or running: otherwise a
\* finished job could be written to again, or an abandoned one never recovered.
LeaseConsistent ==
  \A j \in Jobs :
    /\ owner[j] # None <=> status[j] \in Leased
    /\ expired[j] => owner[j] # None

\* Two clients that enqueue under one key at the same time, both having found no
\* row, still create a single job.
OneJobPerKey == \A k \in Keys : Cardinality(Holders(k)) <= 1

\* The retry limit: the attempts of a job exceed max_attempts only if one of its
\* leases ran out (Claim may reach such a job before the recovery ticker does).
AttemptsBounded == \A j \in Jobs : attempt[j] > MaxAttempts => lost[j]

\* The handler of a job succeeds at most once unless a lease ran out: failures,
\* retries and repeated requests alone never repeat its effects.
RanOnceUnlessLost == \A j \in Jobs : ran[j] > 1 => lost[j]

\* Fencing: a worker whose job has since been claimed again can no longer change
\* that job, however late its StartRunning, Complete or Fail arrives.
FencedWrites ==
  [][\A w \in Workers :
       pc[w] \in Working /\ pc'[w] # pc[w] /\ claimNo[w] # claims[job[w]]
         => status'[job[w]] = status[job[w]]]_vars

\* A completed or dead job stays so, whoever still works on it.
TerminalIsFinal ==
  [][\A j \in Jobs : status[j] \in {"completed", "dead"} => status'[j] = status[j]]_vars

\* With heartbeats in time no two workers run the handler of one job at a time.
OneHandler ==
  \A v, w \in Workers :
    pc[v] \in Working /\ pc[w] \in Working /\ job[v] = job[w] => v = w

\* With heartbeats in time every job ends up completed or in the dead letter
\* list, even when the worker that holds it stops for good or its handler fails.
Drained == \A j \in Jobs : status[j] # "absent" ~> status[j] \in {"completed", "dead"}

\* What Claim must answer after exhausting max attempts (jobs_test.go): the limit
\* holds, also for jobs that lose their lease.
AttemptsWithinLimit == \A j \in Jobs : attempt[j] <= MaxAttempts

\* A request under a known key with a different payload conflicts (jobs_test.go):
\* the job a client is given carries the payload it asked for.
ReplyMatches ==
  [][\A c \in Clients, k \in Keys, p \in Payloads :
       LookUp(c, k, p) /\ reply'[c] \in Jobs => payload[reply'[c]] = p]_vars

\* For TLC: no worker, job or client differs from the others, but for who may crash.
Symmetry == Permutations(Workers) \cup Permutations(Jobs) \cup Permutations(Clients)

=============================================================================
