--------------------------- MODULE JobQueueProofs ---------------------------
(***************************************************************************)
(* Theorems about JobQueue, for any number of jobs, workers and clients,   *)
(* any retry limit and any timing of leases.                               *)
(***************************************************************************)
EXTENDS JobQueue, FiniteSetTheorems, TLAPS

-----------------------------------------------------------------------------
(* The inductive invariant *)

\* A worker holds a job exactly while it is in the middle of a pass.
Holding == \A w \in Workers : pc[w] \in Working <=> job[w] # None

\* The claim a worker works under is not a future one, and it is the last one if
\* the table still names that worker.
Turns ==
  \A w \in Workers :
    job[w] # None =>
      /\ claimNo[w] <= claims[job[w]]
      /\ owner[job[w]] = w => claimNo[w] = claims[job[w]]

\* What is known of a job none of whose leases has run out: at most one worker is
\* on it, where that worker is fits the status, the retry limit has been kept and
\* its handler has succeeded only if nothing is left but to record that.
Undisturbed(j) ==
  /\ ~expired[j]
  /\ attempt[j] <= MaxAttempts
  /\ status[j] \in {"absent", "pending", "failed"} => attempt[j] < MaxAttempts
  /\ \A v, w \in Workers : job[v] = j /\ job[w] = j => v = w
  /\ \A w \in Workers :
       job[w] = j =>
         /\ pc[w] = "claimed" => status[j] \in {"claimed", "dead"}
         /\ pc[w] # "claimed" => status[j] = "running"
         /\ pc[w] # "succeeded" => ran[j] = 0
  /\ status[j] \in {"absent", "pending", "failed", "claimed"} => ran[j] = 0
  /\ ran[j] <= 1

IInv ==
  /\ TypeOK
  /\ LeaseConsistent
  /\ Holding
  /\ Turns
  /\ \A j \in Jobs : ~lost[j] => Undisturbed(j)

-----------------------------------------------------------------------------
(* Type correctness *)

\* A request that found no row carries a key of the model and a payload.
LEMMA AskedType ==
  ASSUME TypeOK, NEW c \in Clients, asked[c] # <<>>
  PROVE  asked[c][1] \in AskedKeys /\ asked[c][2] \in Payloads
  BY DEF TypeOK

\* Counting up an element, of the domain or not, keeps a table of counters one.
LEMMA CountUp ==
  ASSUME NEW S, NEW f \in [S -> Nat], NEW x
  PROVE  [f EXCEPT ![x] = @ + 1] \in [S -> Nat]
  <1>1. CASE x \in S
    BY <1>1
  <1>2. CASE x \notin S
    BY <1>2
  <1>3. QED
    BY <1>1, <1>2

\* Every step keeps every variable in its type.
LEMMA TypeStep == TypeOK /\ [Next]_vars => TypeOK'
  <1> SUFFICES ASSUME TypeOK, [Next]_vars PROVE TypeOK'
    OBVIOUS
  <1> USE DEF rowVars, workerVars, clientVars, history, Statuses, Leased, Working
  <1>1. ASSUME NEW c \in Clients, NEW k \in AskedKeys, NEW p \in Payloads, LookUp(c, k, p)
        PROVE  TypeOK'
    <2>1. reply' \in [Clients -> Jobs \cup {None, "refused"}]
      BY <1>1 DEF TypeOK, LookUp, KnownReply, Holders
    <2>2. asked' \in [Clients -> (AskedKeys \X Payloads) \cup {<<>>}]
      <3>1. <<k, p>> \in AskedKeys \X Payloads
        BY <1>1
      <3>2. QED
        BY <1>1, <3>1 DEF TypeOK, LookUp
    <2>3. QED
      BY <1>1, <2>1, <2>2 DEF TypeOK, LookUp
  <1>2. ASSUME NEW c \in Clients, NEW j \in Jobs, Insert(c, j)
        PROVE  TypeOK'
    BY <1>2, AskedType DEF TypeOK, Insert, KeyFree
  <1>3. ASSUME NEW j \in Jobs, Cancel(j)
        PROVE  TypeOK'
    BY <1>3 DEF TypeOK, Cancel, Cancellable, DropLease
  <1>4. ASSUME NEW j \in Jobs, Expire(j) \/ BackoffEnds(j)
        PROVE  TypeOK'
    BY <1>4 DEF TypeOK, Expire, BackoffEnds
  <1>5. CASE RecoverExpiredLeases
    BY <1>5 DEF TypeOK, RecoverExpiredLeases, Recoverable, RecoveredStatus
  <1>6. ASSUME NEW w \in Workers, StartRunning(w)
        PROVE  TypeOK'
    BY <1>6 DEF TypeOK, StartRunning, OwnsLease
  <1>7. ASSUME NEW w \in Workers, Dispatch(w)
        PROVE  TypeOK'
    <2>1. [ran EXCEPT ![job[w]] = @ + 1] \in [Jobs -> Nat]
      <3>1. ran \in [Jobs -> Nat]
        BY DEF TypeOK
      <3>2. QED
        BY <3>1, CountUp
    <2>2. ran' \in [Jobs -> Nat] /\ pc' \in [Workers -> Working \cup {"idle", "down"}]
      BY <1>7, <2>1 DEF TypeOK, Dispatch
    <2>3. QED
      BY <1>7, <2>2 DEF TypeOK, Dispatch
  <1>8. ASSUME NEW w \in Workers, Complete(w) \/ Fail(w)
        PROVE  TypeOK'
    <2>1. CASE Complete(w)
      BY <2>1 DEF TypeOK, Complete, OwnsLease, DropLease, Rest
    <2>2. CASE Fail(w)
      <3>1. FailedStatus(job[w]) \in Statuses
        BY DEF FailedStatus
      <3>2. QED
        BY <2>2, <3>1 DEF TypeOK, Fail, OwnsLease, DropLease, Rest
    <2>3. QED
      BY <1>8, <2>1, <2>2
  <1>9. ASSUME NEW w \in Workers, GiveUp(w) \/ Crash(w)
        PROVE  TypeOK'
    BY <1>9 DEF TypeOK, GiveUp, Crash, Rest
  <1>10. ASSUME NEW w \in Workers, Heartbeat(w)
         PROVE  TypeOK'
    BY <1>10 DEF TypeOK, Heartbeat, OwnsLease
  <1>11. ASSUME NEW w \in Workers, NEW j \in Jobs, Claim(w, j)
         PROVE  TypeOK'
    BY <1>11 DEF TypeOK, Claim, Claimable
  <1>12. CASE UNCHANGED vars
    BY <1>12 DEF TypeOK, vars
  <1>13. QED
    BY <1>1, <1>2, <1>3, <1>4, <1>5, <1>6, <1>7, <1>8, <1>9, <1>10, <1>11, <1>12
       DEF Next, WorkerStep

\* Every variable keeps its type, whatever clients, workers and the clock do.
THEOREM TypeCorrect == Spec => []TypeOK
  <1>1. Init => TypeOK
    BY ConstantsAssumption DEF Init, TypeOK, Statuses, Working, Leased, AskedKeys
  <1>2. QED
    BY <1>1, TypeStep, PTL DEF Spec

-----------------------------------------------------------------------------
(* Leases *)

\* SQL NULL is neither a job nor a worker.
LEMMA NoneIsFresh == None \notin Jobs /\ None \notin Workers
  BY ConstantsAssumption

\* A step that moves a job into or out of the leased statuses sets or clears the
\* owner with it; no other step touches either.
LEMMA LeaseStep ==
  TypeOK /\ LeaseConsistent /\ [Next]_vars => LeaseConsistent'
  <1> SUFFICES ASSUME TypeOK, LeaseConsistent, [Next]_vars PROVE LeaseConsistent'
    OBVIOUS
  <1> USE DEF rowVars, workerVars, clientVars, history, Statuses, Leased
  <1>1. ASSUME NEW c \in Clients, NEW k \in AskedKeys, NEW p \in Payloads, LookUp(c, k, p)
        PROVE  LeaseConsistent'
    BY <1>1 DEF TypeOK, LeaseConsistent, LookUp
  <1>2. ASSUME NEW c \in Clients, NEW j \in Jobs, Insert(c, j)
        PROVE  LeaseConsistent'
    BY <1>2 DEF TypeOK, LeaseConsistent, Insert, KeyFree
  <1>3. ASSUME NEW j \in Jobs, Cancel(j)
        PROVE  LeaseConsistent'
    BY <1>3 DEF TypeOK, LeaseConsistent, Cancel, Cancellable, DropLease
  <1>4. ASSUME NEW j \in Jobs, Expire(j)
        PROVE  LeaseConsistent'
    BY <1>4 DEF TypeOK, LeaseConsistent, Expire
  <1>5. ASSUME NEW j \in Jobs, BackoffEnds(j)
        PROVE  LeaseConsistent'
    BY <1>5 DEF TypeOK, LeaseConsistent, BackoffEnds
  <1>6. CASE RecoverExpiredLeases
    BY <1>6 DEF TypeOK, LeaseConsistent, RecoverExpiredLeases, Recoverable, RecoveredStatus
  <1>7. ASSUME NEW w \in Workers, StartRunning(w)
        PROVE  LeaseConsistent'
    BY <1>7 DEF TypeOK, LeaseConsistent, StartRunning, OwnsLease
  <1>8. ASSUME NEW w \in Workers, Dispatch(w)
        PROVE  LeaseConsistent'
    BY <1>8 DEF TypeOK, LeaseConsistent, Dispatch
  <1>9. ASSUME NEW w \in Workers, Complete(w)
        PROVE  LeaseConsistent'
    BY <1>9 DEF TypeOK, LeaseConsistent, Complete, OwnsLease, DropLease, Rest
  <1>10. ASSUME NEW w \in Workers, Fail(w)
         PROVE  LeaseConsistent'
    BY <1>10 DEF TypeOK, LeaseConsistent, Fail, OwnsLease, FailedStatus, DropLease, Rest
  <1>11. ASSUME NEW w \in Workers, GiveUp(w)
         PROVE  LeaseConsistent'
    BY <1>11 DEF TypeOK, LeaseConsistent, GiveUp, Rest
  <1>12. ASSUME NEW w \in Workers, Crash(w)
         PROVE  LeaseConsistent'
    BY <1>12 DEF TypeOK, LeaseConsistent, Crash
  <1>13. ASSUME NEW w \in Workers, Heartbeat(w)
         PROVE  LeaseConsistent'
    BY <1>13 DEF TypeOK, LeaseConsistent, Heartbeat, OwnsLease
  <1>14. ASSUME NEW w \in Workers, NEW j \in Jobs, Claim(w, j)
         PROVE  LeaseConsistent'
    BY <1>14, NoneIsFresh DEF TypeOK, LeaseConsistent, Claim, Claimable
  <1>15. CASE UNCHANGED vars
    BY <1>15 DEF TypeOK, LeaseConsistent, vars
  <1>16. QED
    BY <1>1, <1>2, <1>3, <1>4, <1>5, <1>6, <1>7, <1>8, <1>9, <1>10, <1>11, <1>12, <1>13, <1>14, <1>15
       DEF Next, WorkerStep

\* Workers take up a job and let go of it as they enter and leave a pass.
LEMMA HoldingStep ==
  TypeOK /\ Holding /\ [Next]_vars => Holding'
  <1> SUFFICES ASSUME TypeOK, Holding, [Next]_vars PROVE Holding'
    OBVIOUS
  <1> USE DEF rowVars, workerVars, clientVars, history, Working
  <1>1. ASSUME NEW c \in Clients, NEW k \in AskedKeys, NEW p \in Payloads, LookUp(c, k, p)
        PROVE  Holding'
    BY <1>1 DEF TypeOK, Holding, LookUp
  <1>2. ASSUME NEW c \in Clients, NEW j \in Jobs, Insert(c, j)
        PROVE  Holding'
    BY <1>2 DEF TypeOK, Holding, Insert, KeyFree
  <1>3. ASSUME NEW j \in Jobs, Cancel(j)
        PROVE  Holding'
    BY <1>3 DEF TypeOK, Holding, Cancel, Cancellable, DropLease
  <1>4. ASSUME NEW j \in Jobs, Expire(j)
        PROVE  Holding'
    BY <1>4 DEF TypeOK, Holding, Expire
  <1>5. ASSUME NEW j \in Jobs, BackoffEnds(j)
        PROVE  Holding'
    BY <1>5 DEF TypeOK, Holding, BackoffEnds
  <1>6. CASE RecoverExpiredLeases
    BY <1>6 DEF TypeOK, Holding, RecoverExpiredLeases, Recoverable, RecoveredStatus
  <1>7. ASSUME NEW w \in Workers, StartRunning(w)
        PROVE  Holding'
    BY <1>7 DEF TypeOK, Holding, StartRunning, OwnsLease
  <1>8. ASSUME NEW w \in Workers, Dispatch(w)
        PROVE  Holding'
    BY <1>8 DEF TypeOK, Holding, Dispatch
  <1>9. ASSUME NEW w \in Workers, Complete(w)
        PROVE  Holding'
    BY <1>9 DEF TypeOK, Holding, Complete, OwnsLease, DropLease, Rest
  <1>10. ASSUME NEW w \in Workers, Fail(w)
         PROVE  Holding'
    BY <1>10 DEF TypeOK, Holding, Fail, OwnsLease, FailedStatus, DropLease, Rest
  <1>11. ASSUME NEW w \in Workers, GiveUp(w)
         PROVE  Holding'
    BY <1>11 DEF TypeOK, Holding, GiveUp, Rest
  <1>12. ASSUME NEW w \in Workers, Crash(w)
         PROVE  Holding'
    BY <1>12 DEF TypeOK, Holding, Crash
  <1>13. ASSUME NEW w \in Workers, Heartbeat(w)
         PROVE  Holding'
    BY <1>13 DEF TypeOK, Holding, Heartbeat, OwnsLease
  <1>14. ASSUME NEW w \in Workers, NEW j \in Jobs, Claim(w, j)
         PROVE  Holding'
    BY <1>14, NoneIsFresh DEF TypeOK, Holding, Claim, Claimable
  <1>15. CASE UNCHANGED vars
    BY <1>15 DEF TypeOK, Holding, vars
  <1>16. QED
    BY <1>1, <1>2, <1>3, <1>4, <1>5, <1>6, <1>7, <1>8, <1>9, <1>10, <1>11, <1>12, <1>13, <1>14, <1>15
       DEF Next, WorkerStep

\* A claim starts a new turn and writes the owner in the same transaction.
LEMMA TurnsStep ==
  TypeOK /\ Turns /\ [Next]_vars => Turns'
  <1> SUFFICES ASSUME TypeOK, Turns, [Next]_vars PROVE Turns'
    OBVIOUS
  <1> USE DEF rowVars, workerVars, clientVars, history
  <1>1. ASSUME NEW c \in Clients, NEW k \in AskedKeys, NEW p \in Payloads, LookUp(c, k, p)
        PROVE  Turns'
    BY <1>1 DEF TypeOK, Turns, LookUp
  <1>2. ASSUME NEW c \in Clients, NEW j \in Jobs, Insert(c, j)
        PROVE  Turns'
    BY <1>2 DEF TypeOK, Turns, Insert, KeyFree
  <1>3. ASSUME NEW j \in Jobs, Cancel(j)
        PROVE  Turns'
    BY <1>3, NoneIsFresh DEF TypeOK, Turns, Cancel, Cancellable, DropLease
  <1>4. ASSUME NEW j \in Jobs, Expire(j)
        PROVE  Turns'
    BY <1>4 DEF TypeOK, Turns, Expire
  <1>5. ASSUME NEW j \in Jobs, BackoffEnds(j)
        PROVE  Turns'
    BY <1>5 DEF TypeOK, Turns, BackoffEnds
  <1>6. CASE RecoverExpiredLeases
    BY <1>6, NoneIsFresh DEF TypeOK, Turns, RecoverExpiredLeases, Recoverable, RecoveredStatus
  <1>7. ASSUME NEW w \in Workers, StartRunning(w)
        PROVE  Turns'
    BY <1>7 DEF TypeOK, Turns, StartRunning, OwnsLease
  <1>8. ASSUME NEW w \in Workers, Dispatch(w)
        PROVE  Turns'
    BY <1>8 DEF TypeOK, Turns, Dispatch
  <1>9. ASSUME NEW w \in Workers, Complete(w)
        PROVE  Turns'
    BY <1>9, NoneIsFresh DEF TypeOK, Turns, Complete, OwnsLease, DropLease, Rest
  <1>10. ASSUME NEW w \in Workers, Fail(w)
         PROVE  Turns'
    BY <1>10, NoneIsFresh DEF TypeOK, Turns, Fail, OwnsLease, FailedStatus, DropLease, Rest
  <1>11. ASSUME NEW w \in Workers, GiveUp(w)
         PROVE  Turns'
    BY <1>11 DEF TypeOK, Turns, GiveUp, Rest
  <1>12. ASSUME NEW w \in Workers, Crash(w)
         PROVE  Turns'
    BY <1>12 DEF TypeOK, Turns, Crash
  <1>13. ASSUME NEW w \in Workers, Heartbeat(w)
         PROVE  Turns'
    BY <1>13 DEF TypeOK, Turns, Heartbeat, OwnsLease
  <1>14. ASSUME NEW w \in Workers, NEW j \in Jobs, Claim(w, j)
         PROVE  Turns'
    BY <1>14 DEF TypeOK, Turns, Claim, Claimable
  <1>15. CASE UNCHANGED vars
    BY <1>15 DEF TypeOK, Turns, vars
  <1>16. QED
    BY <1>1, <1>2, <1>3, <1>4, <1>5, <1>6, <1>7, <1>8, <1>9, <1>10, <1>11, <1>12, <1>13, <1>14, <1>15
       DEF Next, WorkerStep

-----------------------------------------------------------------------------
(* Jobs that never lost a lease *)

\* No lease is lost in hindsight, so such a job was undisturbed before the step;
\* its one worker then takes it from status to status alone.
LEMMA UndisturbedStep ==
  IInv /\ [Next]_vars => \A j \in Jobs : ~lost'[j] => Undisturbed(j)'
  <1> SUFFICES ASSUME IInv, [Next]_vars, NEW j \in Jobs, ~lost'[j]
               PROVE  Undisturbed(j)'
    OBVIOUS
  <1> USE NoneIsFresh, ConstantsAssumption
  <1> USE DEF rowVars, workerVars, clientVars, history
  <1>a. ~lost[j] => Undisturbed(j)
    BY DEF IInv
  <1>b. TypeOK /\ LeaseConsistent /\ Holding
    BY DEF IInv
  <1>1. ASSUME NEW c \in Clients, NEW k \in AskedKeys, NEW p \in Payloads, LookUp(c, k, p)
        PROVE  Undisturbed(j)'
    BY <1>1, <1>a, <1>b DEF Undisturbed, TypeOK, LeaseConsistent, Holding, Leased, Working, Statuses, LookUp
  <1>2. ASSUME NEW c \in Clients, NEW i \in Jobs, Insert(c, i)
        PROVE  Undisturbed(j)'
    BY <1>2, <1>a, <1>b DEF Undisturbed, TypeOK, LeaseConsistent, Holding, Leased, Working, Statuses, Insert, KeyFree
  <1>3. ASSUME NEW i \in Jobs, Cancel(i)
        PROVE  Undisturbed(j)'
    BY <1>3, <1>a, <1>b DEF Undisturbed, TypeOK, LeaseConsistent, Holding, Leased, Working, Statuses, Cancel, Cancellable, DropLease
  <1>4. ASSUME NEW i \in Jobs, Expire(i)
        PROVE  Undisturbed(j)'
    BY <1>4, <1>a, <1>b DEF Undisturbed, TypeOK, LeaseConsistent, Holding, Leased, Working, Statuses, Expire
  <1>5. ASSUME NEW i \in Jobs, BackoffEnds(i)
        PROVE  Undisturbed(j)'
    BY <1>5, <1>a, <1>b DEF Undisturbed, TypeOK, LeaseConsistent, Holding, Leased, Working, Statuses, BackoffEnds
  <1>6. CASE RecoverExpiredLeases
    BY <1>6, <1>a, <1>b DEF Undisturbed, TypeOK, LeaseConsistent, Holding, Leased, Working, Statuses, RecoverExpiredLeases, Recoverable, RecoveredStatus
  <1>7. ASSUME NEW w \in Workers, StartRunning(w)
        PROVE  Undisturbed(j)'
    BY <1>7, <1>a, <1>b DEF Undisturbed, TypeOK, LeaseConsistent, Holding, Leased, Working, Statuses, StartRunning, OwnsLease
  <1>8. ASSUME NEW w \in Workers, Dispatch(w)
        PROVE  Undisturbed(j)'
    BY <1>8, <1>a, <1>b DEF Undisturbed, TypeOK, LeaseConsistent, Holding, Leased, Working, Statuses, Dispatch
  <1>9. ASSUME NEW w \in Workers, Complete(w)
        PROVE  Undisturbed(j)'
    BY <1>9, <1>a, <1>b DEF Undisturbed, TypeOK, LeaseConsistent, Holding, Leased, Working, Statuses, Complete, OwnsLease, DropLease, Rest
  <1>10. ASSUME NEW w \in Workers, Fail(w)
         PROVE  Undisturbed(j)'
    BY <1>10, <1>a, <1>b DEF Undisturbed, TypeOK, LeaseConsistent, Holding, Leased, Working, Statuses, Fail, OwnsLease, FailedStatus, DropLease, Rest
  <1>11. ASSUME NEW w \in Workers, GiveUp(w)
         PROVE  Undisturbed(j)'
    BY <1>11, <1>a, <1>b DEF Undisturbed, TypeOK, LeaseConsistent, Holding, Leased, Working, Statuses, GiveUp, Rest
  <1>12. ASSUME NEW w \in Workers, Crash(w)
         PROVE  Undisturbed(j)'
    BY <1>12, <1>a, <1>b DEF Undisturbed, TypeOK, LeaseConsistent, Holding, Leased, Working, Statuses, Crash
  <1>13. ASSUME NEW w \in Workers, Heartbeat(w)
         PROVE  Undisturbed(j)'
    BY <1>13, <1>a, <1>b DEF Undisturbed, TypeOK, LeaseConsistent, Holding, Leased, Working, Statuses, Heartbeat, OwnsLease
  <1>14. ASSUME NEW w \in Workers, NEW i \in Jobs, Claim(w, i)
         PROVE  Undisturbed(j)'
    BY <1>14, <1>a, <1>b DEF Undisturbed, TypeOK, LeaseConsistent, Holding, Leased, Working, Statuses, Claim, Claimable
  <1>15. CASE UNCHANGED vars
    BY <1>15, <1>a, <1>b DEF Undisturbed, TypeOK, LeaseConsistent, Holding, Leased, Working, Statuses, vars
  <1>16. QED
    BY <1>1, <1>2, <1>3, <1>4, <1>5, <1>6, <1>7, <1>8, <1>9, <1>10, <1>11, <1>12, <1>13, <1>14, <1>15
       DEF Next, WorkerStep

-----------------------------------------------------------------------------
(* The invariants *)

\* The strengthening is inductive.
LEMMA Inductive == Spec => []IInv
  <1>1. Init => IInv
    <2> SUFFICES ASSUME Init PROVE IInv
      OBVIOUS
    <2> USE NoneIsFresh, ConstantsAssumption DEF Init
    <2>1. TypeOK
      BY DEF TypeOK, Statuses, Working, Leased, AskedKeys
    <2>2. LeaseConsistent /\ Holding /\ Turns
      BY DEF LeaseConsistent, Holding, Turns, Leased, Working
    <2>3. \A j \in Jobs : Undisturbed(j)
      BY DEF Undisturbed
    <2>4. QED
      BY <2>1, <2>2, <2>3 DEF IInv
  <1>2. IInv /\ [Next]_vars => IInv'
    BY TypeStep, LeaseStep, HoldingStep, TurnsStep, UndisturbedStep DEF IInv
  <1>3. QED
    BY <1>1, <1>2, PTL DEF Spec

\* A job has a lease owner exactly while it is claimed or running.
THEOREM LeaseCorrect == Spec => []LeaseConsistent
  <1>1. IInv => LeaseConsistent
    BY DEF IInv
  <1>2. QED
    BY <1>1, Inductive, PTL

\* Only a job that lost a lease is ever attempted more often than its limit.
THEOREM AttemptsCorrect == Spec => []AttemptsBounded
  <1>1. IInv => AttemptsBounded
    BY ConstantsAssumption DEF IInv, AttemptsBounded, Undisturbed, TypeOK
  <1>2. QED
    BY <1>1, Inductive, PTL

\* Only the handler of a job that lost a lease ever succeeds twice.
THEOREM RanOnceCorrect == Spec => []RanOnceUnlessLost
  <1>1. IInv => RanOnceUnlessLost
    BY DEF IInv, RanOnceUnlessLost, Undisturbed, TypeOK
  <1>2. QED
    BY <1>1, Inductive, PTL

\* The unique index makes the check-then-insert of Enqueue safe: rows under one
\* key are one row, for any number of clients.
KeysUnique ==
  \A i, j \in Jobs :
    /\ status[i] # "absent" /\ status[j] # "absent"
    /\ key[i] = key[j] /\ key[i] # None
    => i = j

\* Only Insert changes a key, and it looks for other holders of it.
LEMMA KeysStep ==
  IInv /\ KeysUnique /\ [Next]_vars => KeysUnique'
  <1> SUFFICES ASSUME IInv, KeysUnique, [Next]_vars PROVE KeysUnique'
    OBVIOUS
  <1> USE DEF rowVars, workerVars, clientVars, history
  <1>1. ASSUME NEW c \in Clients, NEW k \in AskedKeys, NEW p \in Payloads, LookUp(c, k, p)
        PROVE  KeysUnique'
    BY <1>1 DEF KeysUnique, IInv, TypeOK, LeaseConsistent, Leased, Statuses, LookUp
  <1>2. ASSUME NEW c \in Clients, NEW j \in Jobs, Insert(c, j)
        PROVE  KeysUnique'
    <2> DEFINE k == asked[c][1]
    <2>1. CASE KeyFree(k)
      <3>1. \A i \in Jobs : status[i] # "absent" /\ k # None => key[i] # k
        BY <2>1 DEF KeyFree, Holders
      <3>2. /\ status' = [status EXCEPT ![j] = "pending"]
            /\ key' = [key EXCEPT ![j] = k]
        BY <1>2, <2>1 DEF Insert
      <3>3. status \in [Jobs -> Statuses] /\ key \in [Jobs -> AskedKeys]
        BY DEF IInv, TypeOK
      <3>4. QED
        BY <3>1, <3>2, <3>3 DEF KeysUnique
    <2>2. CASE ~KeyFree(k)
      BY <1>2, <2>2 DEF Insert, KeysUnique
    <2>3. QED
      BY <2>1, <2>2
  <1>3. ASSUME NEW j \in Jobs, Cancel(j)
        PROVE  KeysUnique'
    BY <1>3 DEF KeysUnique, IInv, TypeOK, LeaseConsistent, Leased, Statuses, Cancel, Cancellable, DropLease
  <1>4. ASSUME NEW j \in Jobs, Expire(j)
        PROVE  KeysUnique'
    BY <1>4 DEF KeysUnique, IInv, TypeOK, LeaseConsistent, Leased, Statuses, Expire
  <1>5. ASSUME NEW j \in Jobs, BackoffEnds(j)
        PROVE  KeysUnique'
    BY <1>5 DEF KeysUnique, IInv, TypeOK, LeaseConsistent, Leased, Statuses, BackoffEnds
  <1>6. CASE RecoverExpiredLeases
    BY <1>6 DEF KeysUnique, IInv, TypeOK, LeaseConsistent, Leased, Statuses, RecoverExpiredLeases, Recoverable, RecoveredStatus
  <1>7. ASSUME NEW w \in Workers, StartRunning(w)
        PROVE  KeysUnique'
    BY <1>7 DEF KeysUnique, IInv, TypeOK, LeaseConsistent, Leased, Statuses, StartRunning, OwnsLease, Holding
  <1>8. ASSUME NEW w \in Workers, Dispatch(w)
        PROVE  KeysUnique'
    BY <1>8 DEF KeysUnique, IInv, TypeOK, LeaseConsistent, Leased, Statuses, Dispatch
  <1>9. ASSUME NEW w \in Workers, Complete(w)
        PROVE  KeysUnique'
    <2>1. job[w] \in Jobs /\ status[job[w]] # "absent"
      BY <1>9, NoneIsFresh DEF Complete, OwnsLease, IInv, TypeOK, LeaseConsistent, Leased
    <2>2. QED
      BY <1>9, <2>1 DEF KeysUnique, IInv, TypeOK, Complete
  <1>10. ASSUME NEW w \in Workers, Fail(w)
         PROVE  KeysUnique'
    <2>1. job[w] \in Jobs /\ status[job[w]] # "absent"
      BY <1>10, NoneIsFresh DEF Fail, OwnsLease, IInv, TypeOK, LeaseConsistent, Leased
    <2>2. QED
      BY <1>10, <2>1 DEF KeysUnique, IInv, TypeOK, Fail, FailedStatus
  <1>11. ASSUME NEW w \in Workers, GiveUp(w)
         PROVE  KeysUnique'
    BY <1>11 DEF KeysUnique, IInv, TypeOK, LeaseConsistent, Leased, Statuses, GiveUp, Rest
  <1>12. ASSUME NEW w \in Workers, Crash(w)
         PROVE  KeysUnique'
    BY <1>12 DEF KeysUnique, IInv, TypeOK, LeaseConsistent, Leased, Statuses, Crash
  <1>13. ASSUME NEW w \in Workers, Heartbeat(w)
         PROVE  KeysUnique'
    BY <1>13 DEF KeysUnique, IInv, TypeOK, LeaseConsistent, Leased, Statuses, Heartbeat, OwnsLease
  <1>14. ASSUME NEW w \in Workers, NEW j \in Jobs, Claim(w, j)
         PROVE  KeysUnique'
    BY <1>14 DEF KeysUnique, IInv, TypeOK, LeaseConsistent, Leased, Statuses, Claim, Claimable
  <1>15. CASE UNCHANGED vars
    BY <1>15 DEF KeysUnique, IInv, TypeOK, LeaseConsistent, Leased, Statuses, vars
  <1>16. QED
    BY <1>1, <1>2, <1>3, <1>4, <1>5, <1>6, <1>7, <1>8, <1>9, <1>10, <1>11, <1>12, <1>13, <1>14, <1>15
       DEF Next, WorkerStep


\* Concurrent clients never create two jobs under one idempotency key.
THEOREM OneJobPerKeyCorrect == Spec => []OneJobPerKey
  <1>1. Init => KeysUnique
    BY DEF Init, KeysUnique
  <1>2. KeysUnique => OneJobPerKey
    <2> SUFFICES ASSUME KeysUnique, NEW k \in Keys PROVE Cardinality(Holders(k)) <= 1
      BY DEF OneJobPerKey
    <2>1. CASE Holders(k) = {}
      BY <2>1, FS_EmptySet
    <2>2. CASE Holders(k) # {}
      <3>1. PICK j \in Jobs : j \in Holders(k)
        BY <2>2 DEF Holders
      <3>2. Holders(k) = {j}
        BY <3>1, ConstantsAssumption DEF Holders, KeysUnique
      <3>3. QED
        BY <3>2, FS_Singleton
    <2>3. QED
      BY <2>1, <2>2
  <1>3. QED
    BY <1>1, <1>2, KeysStep, Inductive, PTL DEF Spec

-----------------------------------------------------------------------------
(* What a step may never do *)

\* A write of a worker whose turn is over matches no row.
LEMMA FencedStep ==
  ASSUME IInv, [Next]_vars, NEW x \in Workers,
         pc[x] \in Working, pc'[x] # pc[x], claimNo[x] # claims[job[x]]
  PROVE  status'[job[x]] = status[job[x]]
  <1> USE DEF rowVars, workerVars, clientVars, history
  <1>a. job[x] \in Jobs /\ ~OwnsLease(x)
    BY DEF IInv, TypeOK, Holding, Turns, OwnsLease
  <1>b. TypeOK
    BY DEF IInv
  <1>1. ASSUME NEW c \in Clients, NEW k \in AskedKeys, NEW p \in Payloads, LookUp(c, k, p)
        PROVE  status'[job[x]] = status[job[x]]
    BY <1>1, <1>a, <1>b DEF TypeOK, Working, LookUp
  <1>2. ASSUME NEW c \in Clients, NEW i \in Jobs, Insert(c, i)
        PROVE  status'[job[x]] = status[job[x]]
    BY <1>2, <1>a, <1>b DEF TypeOK, Working, Insert, KeyFree
  <1>3. ASSUME NEW i \in Jobs, Cancel(i)
        PROVE  status'[job[x]] = status[job[x]]
    BY <1>3, <1>a, <1>b DEF TypeOK, Working, Cancel, Cancellable, DropLease
  <1>4. ASSUME NEW i \in Jobs, Expire(i)
        PROVE  status'[job[x]] = status[job[x]]
    BY <1>4, <1>a, <1>b DEF TypeOK, Working, Expire
  <1>5. ASSUME NEW i \in Jobs, BackoffEnds(i)
        PROVE  status'[job[x]] = status[job[x]]
    BY <1>5, <1>a, <1>b DEF TypeOK, Working, BackoffEnds
  <1>6. CASE RecoverExpiredLeases
    BY <1>6, <1>a, <1>b DEF TypeOK, Working, RecoverExpiredLeases, Recoverable, RecoveredStatus
  <1>7. ASSUME NEW w \in Workers, StartRunning(w)
        PROVE  status'[job[x]] = status[job[x]]
    BY <1>7, <1>a, <1>b DEF TypeOK, Working, StartRunning
  <1>8. ASSUME NEW w \in Workers, Dispatch(w)
        PROVE  status'[job[x]] = status[job[x]]
    BY <1>8, <1>a, <1>b DEF TypeOK, Working, Dispatch
  <1>9. ASSUME NEW w \in Workers, Complete(w)
        PROVE  status'[job[x]] = status[job[x]]
    BY <1>9, <1>a, <1>b DEF TypeOK, Working, Complete, DropLease, Rest
  <1>10. ASSUME NEW w \in Workers, Fail(w)
         PROVE  status'[job[x]] = status[job[x]]
    BY <1>10, <1>a, <1>b DEF TypeOK, Working, Fail, FailedStatus, DropLease, Rest
  <1>11. ASSUME NEW w \in Workers, GiveUp(w)
         PROVE  status'[job[x]] = status[job[x]]
    BY <1>11, <1>a, <1>b DEF TypeOK, Working, GiveUp, Rest
  <1>12. ASSUME NEW w \in Workers, Crash(w)
         PROVE  status'[job[x]] = status[job[x]]
    BY <1>12, <1>a, <1>b DEF TypeOK, Working, Crash
  <1>13. ASSUME NEW w \in Workers, Heartbeat(w)
         PROVE  status'[job[x]] = status[job[x]]
    BY <1>13, <1>a, <1>b DEF TypeOK, Working, Heartbeat
  <1>14. ASSUME NEW w \in Workers, NEW i \in Jobs, Claim(w, i)
         PROVE  status'[job[x]] = status[job[x]]
    BY <1>14, <1>a, <1>b DEF TypeOK, Working, Claim, Claimable
  <1>15. CASE UNCHANGED vars
    BY <1>15, <1>a, <1>b DEF TypeOK, Working, vars
  <1>16. QED
    BY <1>1, <1>2, <1>3, <1>4, <1>5, <1>6, <1>7, <1>8, <1>9, <1>10, <1>11, <1>12, <1>13, <1>14, <1>15
       DEF Next, WorkerStep

\* However late the writes of a worker arrive, they do not disturb a later claim.
THEOREM FencingCorrect == Spec => FencedWrites
  <1>1. IInv /\ [Next]_vars =>
          [\A w \in Workers :
             pc[w] \in Working /\ pc'[w] # pc[w] /\ claimNo[w] # claims[job[w]]
               => status'[job[w]] = status[job[w]]]_vars
    BY FencedStep
  <1>2. QED
    BY <1>1, Inductive, PTL DEF Spec, FencedWrites

\* No statement that changes a status selects a completed or a dead job.
LEMMA TerminalStep ==
  ASSUME IInv, [Next]_vars, NEW j \in Jobs, status[j] \in {"completed", "dead"}
  PROVE  status'[j] = status[j]
  <1> USE DEF rowVars, workerVars, clientVars, history
  <1>a. TypeOK /\ owner[j] = None
    BY DEF IInv, LeaseConsistent, Leased
  <1>1. ASSUME NEW c \in Clients, NEW k \in AskedKeys, NEW p \in Payloads, LookUp(c, k, p)
        PROVE  status'[j] = status[j]
    BY <1>1, <1>a, NoneIsFresh DEF TypeOK, Leased, LookUp
  <1>2. ASSUME NEW c \in Clients, NEW i \in Jobs, Insert(c, i)
        PROVE  status'[j] = status[j]
    BY <1>2, <1>a, NoneIsFresh DEF TypeOK, Leased, Insert, KeyFree
  <1>3. ASSUME NEW i \in Jobs, Cancel(i)
        PROVE  status'[j] = status[j]
    BY <1>3, <1>a, NoneIsFresh DEF TypeOK, Leased, Cancel, Cancellable, DropLease
  <1>4. ASSUME NEW i \in Jobs, Expire(i)
        PROVE  status'[j] = status[j]
    BY <1>4, <1>a, NoneIsFresh DEF TypeOK, Leased, Expire
  <1>5. ASSUME NEW i \in Jobs, BackoffEnds(i)
        PROVE  status'[j] = status[j]
    BY <1>5, <1>a, NoneIsFresh DEF TypeOK, Leased, BackoffEnds
  <1>6. CASE RecoverExpiredLeases
    BY <1>6, <1>a, NoneIsFresh DEF TypeOK, Leased, RecoverExpiredLeases, Recoverable, RecoveredStatus
  <1>7. ASSUME NEW w \in Workers, StartRunning(w)
        PROVE  status'[j] = status[j]
    BY <1>7, <1>a, NoneIsFresh DEF TypeOK, Leased, StartRunning, OwnsLease
  <1>8. ASSUME NEW w \in Workers, Dispatch(w)
        PROVE  status'[j] = status[j]
    BY <1>8, <1>a, NoneIsFresh DEF TypeOK, Leased, Dispatch
  <1>9. ASSUME NEW w \in Workers, Complete(w)
        PROVE  status'[j] = status[j]
    BY <1>9, <1>a, NoneIsFresh DEF TypeOK, Leased, Complete, OwnsLease, DropLease, Rest
  <1>10. ASSUME NEW w \in Workers, Fail(w)
         PROVE  status'[j] = status[j]
    BY <1>10, <1>a, NoneIsFresh DEF TypeOK, Leased, Fail, OwnsLease, FailedStatus, DropLease, Rest
  <1>11. ASSUME NEW w \in Workers, GiveUp(w)
         PROVE  status'[j] = status[j]
    BY <1>11, <1>a, NoneIsFresh DEF TypeOK, Leased, GiveUp, Rest
  <1>12. ASSUME NEW w \in Workers, Crash(w)
         PROVE  status'[j] = status[j]
    BY <1>12, <1>a, NoneIsFresh DEF TypeOK, Leased, Crash
  <1>13. ASSUME NEW w \in Workers, Heartbeat(w)
         PROVE  status'[j] = status[j]
    BY <1>13, <1>a, NoneIsFresh DEF TypeOK, Leased, Heartbeat, OwnsLease
  <1>14. ASSUME NEW w \in Workers, NEW i \in Jobs, Claim(w, i)
         PROVE  status'[j] = status[j]
    BY <1>14, <1>a, NoneIsFresh DEF TypeOK, Leased, Claim, Claimable
  <1>15. CASE UNCHANGED vars
    BY <1>15, <1>a, NoneIsFresh DEF TypeOK, Leased, vars
  <1>16. QED
    BY <1>1, <1>2, <1>3, <1>4, <1>5, <1>6, <1>7, <1>8, <1>9, <1>10, <1>11, <1>12, <1>13, <1>14, <1>15
       DEF Next, WorkerStep

\* Completed and dead are final.
THEOREM TerminalCorrect == Spec => TerminalIsFinal
  <1>1. IInv /\ [Next]_vars =>
          [\A j \in Jobs : status[j] \in {"completed", "dead"}
                             => status'[j] = status[j]]_vars
    BY TerminalStep
  <1>2. QED
    BY <1>1, Inductive, PTL DEF Spec, TerminalIsFinal

-----------------------------------------------------------------------------
(* Refinement of LeasedWork *)

PhaseOf == [j \in Jobs |-> Phase(status[j])]
GripOf == [w \in Workers |-> IF job[w] = None THEN <<>> ELSE <<job[w], claimNo[w]>>]

\* The abstract phase of every status a row can have.
LEMMA PhaseValues ==
  /\ Phase("absent") = "absent"
  /\ Phase("pending") = "open"
  /\ Phase("claimed") = "held"
  /\ Phase("running") = "held"
  /\ Phase("failed") = "parked"
  /\ Phase("completed") = "done"
  /\ Phase("dead") = "dropped"
  BY DEF Phase, Leased

\* Writing a status moves the abstract phase of that job.
LEMMA PhaseUpdate ==
  ASSUME TypeOK, NEW j \in Jobs, NEW s, status' = [status EXCEPT ![j] = s]
  PROVE  PhaseOf' = [PhaseOf EXCEPT ![j] = Phase(s)]
  BY DEF TypeOK, PhaseOf

\* A worker that rests has let go.
LEMMA GripRest ==
  ASSUME TypeOK, NEW w \in Workers, job' = [job EXCEPT ![w] = None], UNCHANGED claimNo
  PROVE  GripOf' = [GripOf EXCEPT ![w] = <<>>]
  BY DEF TypeOK, GripOf

\* Every step of the queue is a step of leased work or leaves it unchanged.
LEMMA WorkStep == IInv /\ [Next]_vars => [Work!Next]_(Work!vars)
  <1> SUFFICES ASSUME IInv, [Next]_vars PROVE [Work!Next]_(Work!vars)
    OBVIOUS
  <1> USE NoneIsFresh DEF rowVars, workerVars, clientVars, history
  <1>a. TypeOK /\ LeaseConsistent /\ Holding /\ Turns
    BY DEF IInv
  <1>b. ASSUME UNCHANGED <<status, claims, job, claimNo>> PROVE UNCHANGED Work!vars
    BY <1>b DEF Work!vars
  <1>c. ASSUME NEW w \in Workers, OwnsLease(w)
        PROVE  /\ job[w] \in Jobs
               /\ PhaseOf[job[w]] = "held"
               /\ GripOf[w] = <<job[w], claims[job[w]]>>
    <2>1. job[w] \in Jobs /\ status[job[w]] \in Leased
      BY <1>a, <1>c DEF OwnsLease, TypeOK, LeaseConsistent
    <2>2. PhaseOf[job[w]] = "held"
      BY <2>1, PhaseValues DEF PhaseOf, Leased
    <2>3. claimNo[w] = claims[job[w]]
      BY <1>a, <1>c DEF OwnsLease, Turns
    <2>4. GripOf[w] = <<job[w], claims[job[w]]>>
      BY <2>1, <2>3 DEF GripOf
    <2>5. QED
      BY <2>1, <2>2, <2>4
  <1>1. ASSUME NEW c \in Clients, NEW k \in AskedKeys, NEW p \in Payloads, LookUp(c, k, p)
        PROVE  UNCHANGED Work!vars
    BY <1>1, <1>b DEF LookUp
  <1>2. ASSUME NEW c \in Clients, NEW j \in Jobs, Insert(c, j)
        PROVE  [Work!Next]_(Work!vars)
    <2>1. CASE KeyFree(asked[c][1])
      <3>1. PhaseOf' = [PhaseOf EXCEPT ![j] = "open"]
        <4>1. status' = [status EXCEPT ![j] = "pending"]
          BY <1>2, <2>1 DEF Insert
        <4>2. QED
          BY <1>a, <4>1, PhaseUpdate, PhaseValues
      <3>2. PhaseOf[j] = "absent"
        BY <1>2 DEF Insert, Phase, PhaseOf, Leased
      <3>3. Work!Offer(j)
        BY <1>2, <3>1, <3>2 DEF Insert, Work!Offer, PhaseOf
      <3>4. QED
        BY <3>3 DEF Work!Next
    <2>2. CASE ~KeyFree(asked[c][1])
      BY <1>2, <2>2, <1>b DEF Insert
    <2>3. QED
      BY <2>1, <2>2
  <1>3. ASSUME NEW j \in Jobs, Cancel(j)
        PROVE  Work!Next
    <2>1. PhaseOf' = [PhaseOf EXCEPT ![j] = "dropped"]
      BY <1>a, <1>3, PhaseUpdate DEF Cancel, Phase, Leased
    <2>2. CASE status[j] = "pending"
      <3>1. Work!Withdraw(j)
        <4>1. PhaseOf[j] = "open"
          BY <2>2, PhaseValues DEF PhaseOf
        <4>2. QED
          BY <1>3, <2>1, <4>1 DEF Cancel, Work!Withdraw, PhaseOf
      <3>2. QED
        BY <3>1 DEF Work!Next
    <2>3. CASE status[j] = "claimed"
      <3>1. PhaseOf[j] = "held"
        BY <2>3 DEF Phase, PhaseOf, Leased
      <3>2. PhaseOf' = [i \in Jobs |-> IF i \in {j} THEN [x \in {j} |-> "dropped"][i]
                                                     ELSE PhaseOf[i]]
        BY <2>1 DEF PhaseOf
      <3>3. [x \in {j} |-> "dropped"] \in [{j} -> {"open", "parked", "dropped"}]
        OBVIOUS
      <3>4. Work!Lapse({j})
        BY <1>3, <3>1, <3>2, <3>3 DEF Cancel, Work!Lapse, PhaseOf
      <3>5. QED
        BY <3>4 DEF Work!Next
    <2>4. QED
      BY <1>3, <2>2, <2>3 DEF Cancel, Cancellable
  <1>4. ASSUME NEW j \in Jobs, Expire(j) \/ BackoffEnds(j)
        PROVE  UNCHANGED Work!vars
    BY <1>4, <1>b DEF Expire, BackoffEnds
  <1>5. CASE RecoverExpiredLeases
    <2> DEFINE S == {j \in Jobs : Recoverable(j)}
               f == [j \in S |-> Phase(RecoveredStatus(j))]
    <2>1. f \in [S -> {"open", "parked", "dropped"}]
      BY DEF RecoveredStatus, Phase, Leased
    <2>2. \A j \in S : PhaseOf[j] = "held"
      BY DEF Recoverable, Phase, PhaseOf, Leased
    <2>3. PhaseOf' = [i \in Jobs |-> IF i \in S THEN f[i] ELSE PhaseOf[i]]
      BY <1>5 DEF RecoverExpiredLeases, PhaseOf
    <2>4. Work!Lapse(S)
      BY <1>5, <2>1, <2>2, <2>3 DEF RecoverExpiredLeases, Work!Lapse, PhaseOf
    <2>5. QED
      BY <2>4 DEF Work!Next
  <1>6. ASSUME NEW w \in Workers, StartRunning(w)
        PROVE  UNCHANGED Work!vars
    <2>1. PhaseOf' = [PhaseOf EXCEPT ![job[w]] = "held"]
      BY <1>a, <1>c, <1>6, PhaseUpdate DEF StartRunning, Phase, Leased
    <2>2. PhaseOf' = PhaseOf
      BY <1>c, <1>6, <2>1 DEF StartRunning, PhaseOf
    <2>3. QED
      BY <1>6, <2>2 DEF StartRunning, Work!vars, PhaseOf
  <1>7. ASSUME NEW w \in Workers, Dispatch(w)
        PROVE  UNCHANGED Work!vars
    BY <1>7, <1>b DEF Dispatch
  <1>8. ASSUME NEW w \in Workers, Complete(w) \/ Fail(w)
        PROVE  Work!Next
    <2>1. PICK s \in {"completed", "failed", "dead"} :
            status' = [status EXCEPT ![job[w]] = s]
      BY <1>8 DEF Complete, Fail, FailedStatus
    <2>2. OwnsLease(w) /\ UNCHANGED <<claims, claimNo>> /\ job' = [job EXCEPT ![w] = None]
      BY <1>8 DEF Complete, Fail, Rest
    <2>3. PhaseOf' = [PhaseOf EXCEPT ![job[w]] = Phase(s)]
      BY <1>a, <1>c, <2>1, <2>2, PhaseUpdate
    <2>4. GripOf' = [GripOf EXCEPT ![w] = <<>>]
      BY <1>a, <2>2, GripRest
    <2>5. Phase(s) \in {"done", "parked", "dropped"}
      BY <2>1 DEF Phase, Leased
    <2>6. PICK j \in Jobs : j = job[w]
      BY <1>c, <2>2
    <2>7. Work!Settle(w, j)
      BY <1>c, <2>2, <2>3, <2>4, <2>5, <2>6 DEF Work!Settle, PhaseOf, GripOf
    <2>8. QED
      BY <2>7 DEF Work!Next
  <1>9. ASSUME NEW w \in Workers, GiveUp(w) \/ Crash(w)
        PROVE  Work!Next
    <2>1. job' = [job EXCEPT ![w] = None] /\ UNCHANGED <<status, claims, claimNo>>
      BY <1>9 DEF GiveUp, Crash, Rest
    <2>2. GripOf' = [GripOf EXCEPT ![w] = <<>>]
      BY <1>a, <2>1, GripRest
    <2>3. Work!LetGo(w)
      BY <2>1, <2>2 DEF Work!LetGo, GripOf
    <2>4. QED
      BY <2>3 DEF Work!Next
  <1>10. ASSUME NEW w \in Workers, Heartbeat(w)
         PROVE  UNCHANGED Work!vars
    BY <1>10, <1>b DEF Heartbeat
  <1>11. ASSUME NEW w \in Workers, NEW j \in Jobs, Claim(w, j)
         PROVE  Work!Next
    <2>1. PhaseOf' = [PhaseOf EXCEPT ![j] = "held"]
      BY <1>a, <1>11, PhaseUpdate DEF Claim, Phase, Leased
    <2>2. PhaseOf[j] \in {"open", "parked", "held"}
      BY <1>11 DEF Claim, Claimable, Phase, PhaseOf, Leased
    <2>3. GripOf[w] = <<>>
      BY <1>a, <1>11 DEF Claim, Holding, Working, GripOf
    <2>4. GripOf' = [GripOf EXCEPT ![w] = <<j, claims[j] + 1>>]
      BY <1>a, <1>11 DEF Claim, TypeOK, GripOf
    <2>5. claims' = [claims EXCEPT ![j] = @ + 1]
      BY <1>11 DEF Claim
    <2>6. Work!Take(w, j)
      BY <2>1, <2>2, <2>3, <2>4, <2>5 DEF Work!Take, PhaseOf, GripOf
    <2>7. QED
      BY <2>6 DEF Work!Next
  <1>12. CASE UNCHANGED vars
    BY <1>12, <1>b DEF vars
  <1>13. QED
    BY <1>1, <1>2, <1>3, <1>4, <1>5, <1>6, <1>7, <1>8, <1>9, <1>10, <1>11, <1>12
       DEF Next, WorkerStep

\* The queue implements leased work: the lease_owner compared by every write is
\* enough to let only the last claimant settle a job, though a worker that was
\* abandoned never learns so.
THEOREM LeasedWorkCorrect == Spec => ImplementsLeasedWork
  <1>1. Init => Work!Init
    BY DEF Init, Work!Init, Phase, Leased
  <1>2. QED
    BY <1>1, WorkStep, Inductive, PTL DEF Spec, Work!Spec, ImplementsLeasedWork

-----------------------------------------------------------------------------
(* Mutual exclusion with heartbeats in time *)

\* A worker in a pass owns a live lease on its job, or the job was cancelled under it;
\* nobody else has the job in memory.
Exclusive ==
  \A w \in Workers :
    job[w] # None =>
      /\ \/ owner[job[w]] = w /\ ~expired[job[w]] /\ status[job[w]] \in Leased
         \/ status[job[w]] = "dead"
      /\ \A u \in Workers : job[u] = job[w] => u = w

\* A lease does not run out under its owner, so nobody recovers or claims the job.
LEMMA ExclusiveStep ==
  ASSUME TimelyHeartbeats
  PROVE  IInv /\ Exclusive /\ [Next]_vars => Exclusive'
  <1> SUFFICES ASSUME IInv, Exclusive, [Next]_vars PROVE Exclusive'
    OBVIOUS
  <1> USE NoneIsFresh, ConstantsAssumption
  <1> USE DEF rowVars, workerVars, clientVars, history
  <1>a. TypeOK /\ LeaseConsistent /\ Holding
    BY DEF IInv
  <1>1. ASSUME NEW c \in Clients, NEW k \in AskedKeys, NEW p \in Payloads, LookUp(c, k, p)
        PROVE  Exclusive'
    BY <1>1, <1>a DEF Exclusive, TypeOK, LeaseConsistent, Holding, Working, LookUp
  <1>2. ASSUME NEW c \in Clients, NEW i \in Jobs, Insert(c, i)
        PROVE  Exclusive'
    BY <1>2, <1>a DEF Exclusive, TypeOK, LeaseConsistent, Holding, Working, Insert, KeyFree, Statuses, Leased
  <1>3. ASSUME NEW i \in Jobs, Cancel(i)
        PROVE  Exclusive'
    BY <1>3, <1>a DEF Exclusive, TypeOK, LeaseConsistent, Holding, Working, Cancel, Cancellable, DropLease, Leased
  <1>4. ASSUME NEW i \in Jobs, Expire(i)
        PROVE  Exclusive'
    BY <1>4, <1>a DEF Exclusive, TypeOK, LeaseConsistent, Holding, Working, Expire, InUse, OwnsLease
  <1>5. ASSUME NEW i \in Jobs, BackoffEnds(i)
        PROVE  Exclusive'
    BY <1>5, <1>a DEF Exclusive, TypeOK, LeaseConsistent, Holding, Working, BackoffEnds
  <1>6. CASE RecoverExpiredLeases
    BY <1>6, <1>a DEF Exclusive, TypeOK, LeaseConsistent, Holding, Working, RecoverExpiredLeases, Recoverable, Leased
  <1>7. ASSUME NEW w \in Workers, StartRunning(w)
        PROVE  Exclusive'
    BY <1>7, <1>a DEF Exclusive, TypeOK, LeaseConsistent, Holding, Working, StartRunning, OwnsLease, Leased
  <1>8. ASSUME NEW w \in Workers, Dispatch(w)
        PROVE  Exclusive'
    BY <1>8, <1>a DEF Exclusive, TypeOK, LeaseConsistent, Holding, Working, Dispatch
  <1>9. ASSUME NEW w \in Workers, Complete(w)
        PROVE  Exclusive'
    BY <1>9, <1>a DEF Exclusive, TypeOK, LeaseConsistent, Holding, Working, Complete, OwnsLease, DropLease, Rest
  <1>10. ASSUME NEW w \in Workers, Fail(w)
         PROVE  Exclusive'
    BY <1>10, <1>a DEF Exclusive, TypeOK, LeaseConsistent, Holding, Working, Fail, OwnsLease, DropLease, Rest
  <1>11. ASSUME NEW w \in Workers, GiveUp(w)
         PROVE  Exclusive'
    BY <1>11, <1>a DEF Exclusive, TypeOK, LeaseConsistent, Holding, Working, GiveUp, Rest
  <1>12. ASSUME NEW w \in Workers, Crash(w)
         PROVE  Exclusive'
    BY <1>12, <1>a DEF Exclusive, TypeOK, LeaseConsistent, Holding, Working, Crash
  <1>13. ASSUME NEW w \in Workers, Heartbeat(w)
         PROVE  Exclusive'
    BY <1>13, <1>a DEF Exclusive, TypeOK, LeaseConsistent, Holding, Working, Heartbeat, OwnsLease
  <1>14. ASSUME NEW w \in Workers, NEW i \in Jobs, Claim(w, i)
         PROVE  Exclusive'
    BY <1>14, <1>a DEF Exclusive, TypeOK, LeaseConsistent, Holding, Working, Claim, Claimable, Leased
  <1>15. CASE UNCHANGED vars
    BY <1>15, <1>a DEF Exclusive, TypeOK, LeaseConsistent, Holding, Working, vars
  <1>16. QED
    BY <1>1, <1>2, <1>3, <1>4, <1>5, <1>6, <1>7, <1>8, <1>9, <1>10, <1>11, <1>12, <1>13, <1>14, <1>15
       DEF Next, WorkerStep

\* With heartbeats in time no two workers run the handler of one job at a time,
\* whoever crashes, cancels or is late with anything else.
THEOREM OneHandlerCorrect ==
  ASSUME TimelyHeartbeats
  PROVE  Spec => []OneHandler
  <1>1. Init => Exclusive
    BY DEF Init, Exclusive
  <1>2. IInv /\ Exclusive /\ [Next]_vars => Exclusive'
    BY ExclusiveStep
  <1>3. IInv /\ Exclusive => OneHandler
    BY DEF IInv, Holding, Exclusive, OneHandler
  <1>4. QED
    BY <1>1, <1>2, <1>3, Inductive, PTL DEF Spec

=============================================================================
