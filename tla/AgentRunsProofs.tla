--------------------------- MODULE AgentRunsProofs ---------------------------
(***************************************************************************)
(* Theorems about AgentRuns, for any number of runs, workers, requests and *)
(* users, any retry limit and any timing of leases.                        *)
(***************************************************************************)
EXTENDS AgentRuns, TLAPS

-----------------------------------------------------------------------------
(* Type correctness *)

\* SQL NULL is neither a run, a worker nor a request.
LEMMA NoneIsFresh == None \notin Runs /\ None \notin Workers /\ None \notin Requests
  BY ConstantsAssumption

\* Counting up an element, of the domain or not, keeps a table of counters one.
LEMMA CountUp ==
  ASSUME NEW S, NEW f \in [S -> Nat], NEW x
  PROVE  [f EXCEPT ![x] = @ + 1] \in [S -> Nat]
  <1>1. CASE x \in S
    BY <1>1
  <1>2. CASE x \notin S
    BY <1>2
  <1>3. QED
    BY <1>1, <1>2

\* Adding to a set, of the domain or not, keeps a table of sets one.
LEMMA AddTo ==
  ASSUME NEW S, NEW T, NEW f \in [S -> SUBSET T], NEW x, NEW y \in T
  PROVE  [f EXCEPT ![x] = @ \cup {y}] \in [S -> SUBSET T]
  <1>1. CASE x \in S
    BY <1>1
  <1>2. CASE x \notin S
    BY <1>2
  <1>3. QED
    BY <1>1, <1>2

\* Every step keeps every variable in its type.
LEMMA TypeStep ==
  TypeOK /\ [Next]_vars => TypeOK'
  <1> SUFFICES ASSUME TypeOK, [Next]_vars PROVE TypeOK'
    OBVIOUS
  <1> USE DEF runVars, requestVars, workerVars, handlerVars, history,
             Active, RunStates, DecisionStates, Disturbances, Working
  <1>1. ASSUME NEW r \in Runs, Submit(r)
        PROVE  TypeOK'
    BY <1>1 DEF TypeOK, Submit
  <1>2. ASSUME NEW r \in Runs, Cancel(r)
        PROVE  TypeOK'
    BY <1>2 DEF TypeOK, Cancel, DropLease
  <1>3. ASSUME NEW r \in Runs, Retry(r)
        PROVE  TypeOK'
    BY <1>3 DEF TypeOK, Retry, DropLease
  <1>4. ASSUME NEW r \in Runs, Expire(r)
        PROVE  TypeOK'
    BY <1>4 DEF TypeOK, Expire
  <1>5. CASE RecoverExpiredLeases
    BY <1>5 DEF TypeOK, RecoverExpiredLeases, Recoverable
  <1>6. ASSUME NEW w \in Workers, StartRunning(w)
        PROVE  TypeOK'
    BY <1>6 DEF TypeOK, StartRunning, OwnsLease
  <1>7. ASSUME NEW w \in Workers, Resume(w)
        PROVE  TypeOK'
    BY <1>7 DEF TypeOK, Resume
  <1>8. ASSUME NEW w \in Workers, Complete(w)
        PROVE  TypeOK'
    BY <1>8 DEF TypeOK, Complete, OwnsLease, DropLease, Rest
  <1>9. ASSUME NEW w \in Workers, NEW q \in Requests, Propose(w, q)
        PROVE  TypeOK'
    BY <1>9 DEF TypeOK, Propose, ProposedState
  <1>10. ASSUME NEW w \in Workers, SaveMessages(w)
         PROVE  TypeOK'
    BY <1>10 DEF TypeOK, SaveMessages, OwnsLease
  <1>11. ASSUME NEW w \in Workers, Pause(w)
         PROVE  TypeOK'
    BY <1>11 DEF TypeOK, Pause, OwnsLease, Rest
  <1>12. ASSUME NEW w \in Workers, Fail(w)
         PROVE  TypeOK'
    BY <1>12 DEF TypeOK, Fail, OwnsLease, FailedState, DropLease, Rest
  <1>13. ASSUME NEW w \in Workers, GiveUp(w)
         PROVE  TypeOK'
    BY <1>13 DEF TypeOK, GiveUp, Rest
  <1>14. ASSUME NEW w \in Workers, Crash(w)
         PROVE  TypeOK'
    BY <1>14 DEF TypeOK, Crash
  <1>15. ASSUME NEW w \in Workers, Heartbeat(w)
         PROVE  TypeOK'
    BY <1>15 DEF TypeOK, Heartbeat, OwnsLease
  <1>16. ASSUME NEW w \in Workers, NEW r \in Runs, Claim(w, r)
         PROVE  TypeOK'
    BY <1>16 DEF TypeOK, Claim, Claimable
  <1>17. ASSUME NEW u \in Users, NEW q \in Requests, NEW d \in {"approved", "rejected"},
             CheckDecision(u, q, d)
         PROVE  TypeOK'
    BY <1>17 DEF TypeOK, CheckDecision
  <1>18. ASSUME NEW u \in Users, SaveApprovalDecision(u)
         PROVE  TypeOK'
    <2> DEFINE q == handled[u]
               r == requestRun[q]
    <2>1. decision' \in [Requests -> DecisionStates] /\ handler' \in [Users -> {"idle", "checked", "recorded"}]
      BY <1>18 DEF TypeOK, SaveApprovalDecision
    <2>2. approvers' \in [Requests -> SUBSET Users]
      <3>1. approvers' = approvers \/ approvers' = [approvers EXCEPT ![q] = @ \cup {u}]
        BY <1>18 DEF TypeOK, SaveApprovalDecision
      <3>2. approvers \in [Requests -> SUBSET Users]
        BY DEF TypeOK
      <3>3. [approvers EXCEPT ![q] = @ \cup {u}] \in [Requests -> SUBSET Users]
        BY <3>2, AddTo
      <3>4. QED
        BY <3>1, <3>2, <3>3
    <2>3. interrupted' \in [Runs -> SUBSET Disturbances]
      <3>1. \/ interrupted' = interrupted
            \/ interrupted' = [interrupted EXCEPT ![r] = @ \cup {"overwrite"}]
        BY <1>18 DEF TypeOK, SaveApprovalDecision
      <3>2. interrupted \in [Runs -> SUBSET Disturbances] /\ "overwrite" \in Disturbances
        BY DEF TypeOK, Disturbances
      <3>3. [interrupted EXCEPT ![r] = @ \cup {"overwrite"}] \in [Runs -> SUBSET Disturbances]
        BY <3>2, AddTo
      <3>4. QED
        BY <3>1, <3>2, <3>3
    <2>4. QED
      BY <1>18, <2>1, <2>2, <2>3 DEF TypeOK, SaveApprovalDecision
  <1>19. ASSUME NEW u \in Users, DecideRun(u)
         PROVE  TypeOK'
    BY <1>19 DEF TypeOK, DecideRun, AwaitsDecision, Outcome, DropLease, EndCall
  <1>20. ASSUME NEW u \in Users, AbandonDecision(u)
         PROVE  TypeOK'
    BY <1>20 DEF TypeOK, AbandonDecision, EndCall
  <1>21. CASE UNCHANGED vars
    BY <1>21 DEF TypeOK, vars
  <1>22. QED
    BY <1>1, <1>2, <1>3, <1>4, <1>5, <1>6, <1>7, <1>8, <1>9, <1>10,
       <1>11, <1>12, <1>13, <1>14, <1>15, <1>16, <1>17, <1>18, <1>19, <1>20, <1>21
       DEF Next, WorkerStep

\* Every variable keeps its type, whatever workers, users and the clock do.
THEOREM TypeCorrect == Spec => []TypeOK
  <1>1. Init => TypeOK
    BY ConstantsAssumption
    DEF Init, TypeOK, RunStates, Active, DecisionStates, Working
  <1>2. QED
    BY <1>1, TypeStep, PTL DEF Spec

-----------------------------------------------------------------------------
(* Leases *)

\* A worker holds a run exactly while it is in the middle of a pass.
Holding == \A w \in Workers : pc[w] \in Working <=> job[w] # None

\* The claim a worker works under is not a future one, and it is the last one if
\* the table still names that worker.
Turns ==
  \A w \in Workers :
    job[w] # None =>
      /\ claimNo[w] <= claims[job[w]]
      /\ owner[job[w]] = w => claimNo[w] = claims[job[w]]

IInv == TypeOK /\ LeaseConsistent /\ Holding /\ Turns

\* A step that moves a run into or out of the active states sets or clears the
\* owner with it; no other step touches either.
LEMMA LeaseStep ==
  TypeOK /\ LeaseConsistent /\ [Next]_vars => LeaseConsistent'
  <1> SUFFICES ASSUME TypeOK, LeaseConsistent, [Next]_vars PROVE LeaseConsistent'
    OBVIOUS
  <1> USE DEF runVars, requestVars, workerVars, handlerVars, history, RunStates, Active
  <1>1. ASSUME NEW r \in Runs, Submit(r)
        PROVE  LeaseConsistent'
    BY <1>1 DEF TypeOK, LeaseConsistent, Submit
  <1>2. ASSUME NEW r \in Runs, Cancel(r)
        PROVE  LeaseConsistent'
    BY <1>2 DEF TypeOK, LeaseConsistent, Cancel, DropLease
  <1>3. ASSUME NEW r \in Runs, Retry(r)
        PROVE  LeaseConsistent'
    BY <1>3 DEF TypeOK, LeaseConsistent, Retry, DropLease
  <1>4. ASSUME NEW r \in Runs, Expire(r)
        PROVE  LeaseConsistent'
    BY <1>4 DEF TypeOK, LeaseConsistent, Expire
  <1>5. CASE RecoverExpiredLeases
    BY <1>5 DEF TypeOK, LeaseConsistent, RecoverExpiredLeases, Recoverable
  <1>6. ASSUME NEW w \in Workers, StartRunning(w)
        PROVE  LeaseConsistent'
    BY <1>6 DEF TypeOK, LeaseConsistent, StartRunning, OwnsLease
  <1>7. ASSUME NEW w \in Workers, Resume(w)
        PROVE  LeaseConsistent'
    BY <1>7 DEF TypeOK, LeaseConsistent, Resume
  <1>8. ASSUME NEW w \in Workers, Complete(w)
        PROVE  LeaseConsistent'
    BY <1>8 DEF TypeOK, LeaseConsistent, Complete, OwnsLease, DropLease, Rest
  <1>9. ASSUME NEW w \in Workers, NEW q \in Requests, Propose(w, q)
        PROVE  LeaseConsistent'
    BY <1>9 DEF TypeOK, LeaseConsistent, Propose, ProposedState
  <1>10. ASSUME NEW w \in Workers, SaveMessages(w)
         PROVE  LeaseConsistent'
    BY <1>10 DEF TypeOK, LeaseConsistent, SaveMessages, OwnsLease
  <1>11. ASSUME NEW w \in Workers, Pause(w)
         PROVE  LeaseConsistent'
    BY <1>11 DEF TypeOK, LeaseConsistent, Pause, OwnsLease, Rest
  <1>12. ASSUME NEW w \in Workers, Fail(w)
         PROVE  LeaseConsistent'
    BY <1>12 DEF TypeOK, LeaseConsistent, Fail, OwnsLease, FailedState, DropLease, Rest
  <1>13. ASSUME NEW w \in Workers, GiveUp(w)
         PROVE  LeaseConsistent'
    BY <1>13 DEF TypeOK, LeaseConsistent, GiveUp, Rest
  <1>14. ASSUME NEW w \in Workers, Crash(w)
         PROVE  LeaseConsistent'
    BY <1>14 DEF TypeOK, LeaseConsistent, Crash
  <1>15. ASSUME NEW w \in Workers, Heartbeat(w)
         PROVE  LeaseConsistent'
    BY <1>15 DEF TypeOK, LeaseConsistent, Heartbeat, OwnsLease
  <1>16. ASSUME NEW w \in Workers, NEW r \in Runs, Claim(w, r)
         PROVE  LeaseConsistent'
    BY <1>16, NoneIsFresh DEF TypeOK, LeaseConsistent, Claim, Claimable
  <1>17. ASSUME NEW u \in Users, NEW q \in Requests, NEW d \in {"approved", "rejected"},
             CheckDecision(u, q, d)
         PROVE  LeaseConsistent'
    BY <1>17 DEF TypeOK, LeaseConsistent, CheckDecision
  <1>18. ASSUME NEW u \in Users, SaveApprovalDecision(u)
         PROVE  LeaseConsistent'
    BY <1>18 DEF TypeOK, LeaseConsistent, SaveApprovalDecision
  <1>19. ASSUME NEW u \in Users, DecideRun(u)
         PROVE  LeaseConsistent'
    BY <1>19 DEF TypeOK, LeaseConsistent, DecideRun, AwaitsDecision, Outcome, DropLease, EndCall
  <1>20. ASSUME NEW u \in Users, AbandonDecision(u)
         PROVE  LeaseConsistent'
    BY <1>20 DEF TypeOK, LeaseConsistent, AbandonDecision, EndCall
  <1>21. CASE UNCHANGED vars
    BY <1>21 DEF TypeOK, LeaseConsistent, vars
  <1>22. QED
    BY <1>1, <1>2, <1>3, <1>4, <1>5, <1>6, <1>7, <1>8, <1>9, <1>10,
       <1>11, <1>12, <1>13, <1>14, <1>15, <1>16, <1>17, <1>18, <1>19, <1>20, <1>21
       DEF Next, WorkerStep

\* Workers take up a run and let go of it as they enter and leave a pass.
LEMMA HoldingStep ==
  TypeOK /\ Holding /\ [Next]_vars => Holding'
  <1> SUFFICES ASSUME TypeOK, Holding, [Next]_vars PROVE Holding'
    OBVIOUS
  <1> USE DEF runVars, requestVars, workerVars, handlerVars, history, Working
  <1>1. ASSUME NEW r \in Runs, Submit(r)
        PROVE  Holding'
    BY <1>1 DEF TypeOK, Holding, Submit
  <1>2. ASSUME NEW r \in Runs, Cancel(r)
        PROVE  Holding'
    BY <1>2 DEF TypeOK, Holding, Cancel, DropLease
  <1>3. ASSUME NEW r \in Runs, Retry(r)
        PROVE  Holding'
    BY <1>3 DEF TypeOK, Holding, Retry, DropLease
  <1>4. ASSUME NEW r \in Runs, Expire(r)
        PROVE  Holding'
    BY <1>4 DEF TypeOK, Holding, Expire
  <1>5. CASE RecoverExpiredLeases
    BY <1>5 DEF TypeOK, Holding, RecoverExpiredLeases, Recoverable
  <1>6. ASSUME NEW w \in Workers, StartRunning(w)
        PROVE  Holding'
    BY <1>6 DEF TypeOK, Holding, StartRunning, OwnsLease
  <1>7. ASSUME NEW w \in Workers, Resume(w)
        PROVE  Holding'
    BY <1>7 DEF TypeOK, Holding, Resume
  <1>8. ASSUME NEW w \in Workers, Complete(w)
        PROVE  Holding'
    BY <1>8 DEF TypeOK, Holding, Complete, OwnsLease, DropLease, Rest
  <1>9. ASSUME NEW w \in Workers, NEW q \in Requests, Propose(w, q)
        PROVE  Holding'
    BY <1>9 DEF TypeOK, Holding, Propose, ProposedState
  <1>10. ASSUME NEW w \in Workers, SaveMessages(w)
         PROVE  Holding'
    BY <1>10 DEF TypeOK, Holding, SaveMessages, OwnsLease
  <1>11. ASSUME NEW w \in Workers, Pause(w)
         PROVE  Holding'
    BY <1>11 DEF TypeOK, Holding, Pause, OwnsLease, Rest
  <1>12. ASSUME NEW w \in Workers, Fail(w)
         PROVE  Holding'
    BY <1>12 DEF TypeOK, Holding, Fail, OwnsLease, FailedState, DropLease, Rest
  <1>13. ASSUME NEW w \in Workers, GiveUp(w)
         PROVE  Holding'
    BY <1>13 DEF TypeOK, Holding, GiveUp, Rest
  <1>14. ASSUME NEW w \in Workers, Crash(w)
         PROVE  Holding'
    BY <1>14 DEF TypeOK, Holding, Crash
  <1>15. ASSUME NEW w \in Workers, Heartbeat(w)
         PROVE  Holding'
    BY <1>15 DEF TypeOK, Holding, Heartbeat, OwnsLease
  <1>16. ASSUME NEW w \in Workers, NEW r \in Runs, Claim(w, r)
         PROVE  Holding'
    BY <1>16, NoneIsFresh DEF TypeOK, Holding, Claim, Claimable
  <1>17. ASSUME NEW u \in Users, NEW q \in Requests, NEW d \in {"approved", "rejected"},
             CheckDecision(u, q, d)
         PROVE  Holding'
    BY <1>17 DEF TypeOK, Holding, CheckDecision
  <1>18. ASSUME NEW u \in Users, SaveApprovalDecision(u)
         PROVE  Holding'
    BY <1>18 DEF TypeOK, Holding, SaveApprovalDecision
  <1>19. ASSUME NEW u \in Users, DecideRun(u)
         PROVE  Holding'
    BY <1>19 DEF TypeOK, Holding, DecideRun, AwaitsDecision, Outcome, DropLease, EndCall
  <1>20. ASSUME NEW u \in Users, AbandonDecision(u)
         PROVE  Holding'
    BY <1>20 DEF TypeOK, Holding, AbandonDecision, EndCall
  <1>21. CASE UNCHANGED vars
    BY <1>21 DEF TypeOK, Holding, vars
  <1>22. QED
    BY <1>1, <1>2, <1>3, <1>4, <1>5, <1>6, <1>7, <1>8, <1>9, <1>10,
       <1>11, <1>12, <1>13, <1>14, <1>15, <1>16, <1>17, <1>18, <1>19, <1>20, <1>21
       DEF Next, WorkerStep

\* A claim starts a new turn and writes the owner in the same transaction.
LEMMA TurnsStep ==
  TypeOK /\ Turns /\ [Next]_vars => Turns'
  <1> SUFFICES ASSUME TypeOK, Turns, [Next]_vars PROVE Turns'
    OBVIOUS
  <1> USE DEF runVars, requestVars, workerVars, handlerVars, history
  <1>1. ASSUME NEW r \in Runs, Submit(r)
        PROVE  Turns'
    BY <1>1 DEF TypeOK, Turns, Submit
  <1>2. ASSUME NEW r \in Runs, Cancel(r)
        PROVE  Turns'
    BY <1>2, NoneIsFresh DEF TypeOK, Turns, Cancel, DropLease
  <1>3. ASSUME NEW r \in Runs, Retry(r)
        PROVE  Turns'
    BY <1>3, NoneIsFresh DEF TypeOK, Turns, Retry, DropLease
  <1>4. ASSUME NEW r \in Runs, Expire(r)
        PROVE  Turns'
    BY <1>4 DEF TypeOK, Turns, Expire
  <1>5. CASE RecoverExpiredLeases
    BY <1>5, NoneIsFresh DEF TypeOK, Turns, RecoverExpiredLeases, Recoverable
  <1>6. ASSUME NEW w \in Workers, StartRunning(w)
        PROVE  Turns'
    BY <1>6 DEF TypeOK, Turns, StartRunning, OwnsLease
  <1>7. ASSUME NEW w \in Workers, Resume(w)
        PROVE  Turns'
    BY <1>7 DEF TypeOK, Turns, Resume
  <1>8. ASSUME NEW w \in Workers, Complete(w)
        PROVE  Turns'
    BY <1>8, NoneIsFresh DEF TypeOK, Turns, Complete, OwnsLease, DropLease, Rest
  <1>9. ASSUME NEW w \in Workers, NEW q \in Requests, Propose(w, q)
        PROVE  Turns'
    BY <1>9 DEF TypeOK, Turns, Propose, ProposedState
  <1>10. ASSUME NEW w \in Workers, SaveMessages(w)
         PROVE  Turns'
    BY <1>10 DEF TypeOK, Turns, SaveMessages, OwnsLease
  <1>11. ASSUME NEW w \in Workers, Pause(w)
         PROVE  Turns'
    BY <1>11 DEF TypeOK, Turns, Pause, OwnsLease, Rest
  <1>12. ASSUME NEW w \in Workers, Fail(w)
         PROVE  Turns'
    BY <1>12, NoneIsFresh DEF TypeOK, Turns, Fail, OwnsLease, FailedState, DropLease, Rest
  <1>13. ASSUME NEW w \in Workers, GiveUp(w)
         PROVE  Turns'
    BY <1>13 DEF TypeOK, Turns, GiveUp, Rest
  <1>14. ASSUME NEW w \in Workers, Crash(w)
         PROVE  Turns'
    BY <1>14 DEF TypeOK, Turns, Crash
  <1>15. ASSUME NEW w \in Workers, Heartbeat(w)
         PROVE  Turns'
    BY <1>15 DEF TypeOK, Turns, Heartbeat, OwnsLease
  <1>16. ASSUME NEW w \in Workers, NEW r \in Runs, Claim(w, r)
         PROVE  Turns'
    BY <1>16 DEF TypeOK, Turns, Claim, Claimable
  <1>17. ASSUME NEW u \in Users, NEW q \in Requests, NEW d \in {"approved", "rejected"},
             CheckDecision(u, q, d)
         PROVE  Turns'
    BY <1>17 DEF TypeOK, Turns, CheckDecision
  <1>18. ASSUME NEW u \in Users, SaveApprovalDecision(u)
         PROVE  Turns'
    BY <1>18 DEF TypeOK, Turns, SaveApprovalDecision
  <1>19. ASSUME NEW u \in Users, DecideRun(u)
         PROVE  Turns'
    BY <1>19, NoneIsFresh DEF TypeOK, Turns, DecideRun, AwaitsDecision, Outcome, DropLease, EndCall
  <1>20. ASSUME NEW u \in Users, AbandonDecision(u)
         PROVE  Turns'
    BY <1>20 DEF TypeOK, Turns, AbandonDecision, EndCall
  <1>21. CASE UNCHANGED vars
    BY <1>21 DEF TypeOK, Turns, vars
  <1>22. QED
    BY <1>1, <1>2, <1>3, <1>4, <1>5, <1>6, <1>7, <1>8, <1>9, <1>10,
       <1>11, <1>12, <1>13, <1>14, <1>15, <1>16, <1>17, <1>18, <1>19, <1>20, <1>21
       DEF Next, WorkerStep

\* The strengthening holds initially and is inductive.
LEMMA InitInv == Init => IInv
  <1> SUFFICES ASSUME Init PROVE IInv
    OBVIOUS
  <1> USE ConstantsAssumption DEF Init
  <1>1. TypeOK
    BY DEF TypeOK, RunStates, Active, DecisionStates, Working
  <1>2. LeaseConsistent /\ Holding /\ Turns
    BY DEF LeaseConsistent, Holding, Turns, Active, Working
  <1>3. QED
    BY <1>1, <1>2 DEF IInv

\* Every step of a worker, a user or the clock preserves it.
LEMMA StepInv == IInv /\ [Next]_vars => IInv'
  BY TypeStep, LeaseStep, HoldingStep, TurnsStep DEF IInv

\* It is an invariant of the specification.
LEMMA Inductive == Spec => []IInv
  BY InitInv, StepInv, PTL DEF Spec

\* A run has a lease owner exactly while it is leased, running or waiting.
THEOREM LeaseCorrect == Spec => []LeaseConsistent
  <1>1. IInv => LeaseConsistent
    BY DEF IInv
  <1>2. QED
    BY <1>1, Inductive, PTL

-----------------------------------------------------------------------------
(* What a step may never do *)

\* A write of a worker whose turn is over matches no row.
LEMMA FencedStep ==
  ASSUME IInv, [Next]_vars, NEW x \in Workers,
         pc[x] \in Working, pc'[x] # pc[x], claimNo[x] # claims[job[x]]
  PROVE  state'[job[x]] = state[job[x]] /\ checkpoint'[job[x]] = checkpoint[job[x]]
  <1> DEFINE Same == state'[job[x]] = state[job[x]] /\ checkpoint'[job[x]] = checkpoint[job[x]]
  <1> USE DEF runVars, requestVars, workerVars, handlerVars, history
  <1>a. job[x] \in Runs /\ ~OwnsLease(x)
    BY DEF IInv, TypeOK, Holding, Turns, OwnsLease
  <1>b. TypeOK
    BY DEF IInv
  <1>1. ASSUME NEW r \in Runs, Submit(r)
        PROVE  Same
    BY <1>1, <1>a, <1>b DEF TypeOK, Working, Submit
  <1>2. ASSUME NEW r \in Runs, Cancel(r)
        PROVE  Same
    BY <1>2, <1>a, <1>b DEF TypeOK, Working, Cancel, DropLease
  <1>3. ASSUME NEW r \in Runs, Retry(r)
        PROVE  Same
    BY <1>3, <1>a, <1>b DEF TypeOK, Working, Retry, DropLease
  <1>4. ASSUME NEW r \in Runs, Expire(r)
        PROVE  Same
    BY <1>4, <1>a, <1>b DEF TypeOK, Working, Expire
  <1>5. CASE RecoverExpiredLeases
    BY <1>5, <1>a, <1>b DEF TypeOK, Working, RecoverExpiredLeases, Recoverable
  <1>6. ASSUME NEW w \in Workers, StartRunning(w)
        PROVE  Same
    BY <1>6, <1>a, <1>b DEF TypeOK, Working, StartRunning
  <1>7. ASSUME NEW w \in Workers, Resume(w)
        PROVE  Same
    BY <1>7, <1>a, <1>b DEF TypeOK, Working, Resume
  <1>8. ASSUME NEW w \in Workers, Complete(w)
        PROVE  Same
    BY <1>8, <1>a, <1>b DEF TypeOK, Working, Complete, DropLease, Rest
  <1>9. ASSUME NEW w \in Workers, NEW q \in Requests, Propose(w, q)
        PROVE  Same
    BY <1>9, <1>a, <1>b DEF TypeOK, Working, Propose, ProposedState
  <1>10. ASSUME NEW w \in Workers, SaveMessages(w)
         PROVE  Same
    BY <1>10, <1>a, <1>b DEF TypeOK, Working, SaveMessages
  <1>11. ASSUME NEW w \in Workers, Pause(w)
         PROVE  Same
    BY <1>11, <1>a, <1>b DEF TypeOK, Working, Pause, Rest
  <1>12. ASSUME NEW w \in Workers, Fail(w)
         PROVE  Same
    BY <1>12, <1>a, <1>b DEF TypeOK, Working, Fail, FailedState, DropLease, Rest
  <1>13. ASSUME NEW w \in Workers, GiveUp(w)
         PROVE  Same
    BY <1>13, <1>a, <1>b DEF TypeOK, Working, GiveUp, Rest
  <1>14. ASSUME NEW w \in Workers, Crash(w)
         PROVE  Same
    BY <1>14, <1>a, <1>b DEF TypeOK, Working, Crash
  <1>15. ASSUME NEW w \in Workers, Heartbeat(w)
         PROVE  Same
    BY <1>15, <1>a, <1>b DEF TypeOK, Working, Heartbeat
  <1>16. ASSUME NEW w \in Workers, NEW r \in Runs, Claim(w, r)
         PROVE  Same
    BY <1>16, <1>a, <1>b DEF TypeOK, Working, Claim, Claimable
  <1>17. ASSUME NEW u \in Users, NEW q \in Requests, NEW d \in {"approved", "rejected"},
             CheckDecision(u, q, d)
         PROVE  Same
    BY <1>17, <1>a, <1>b DEF TypeOK, Working, CheckDecision
  <1>18. ASSUME NEW u \in Users, SaveApprovalDecision(u)
         PROVE  Same
    BY <1>18, <1>a, <1>b DEF TypeOK, Working, SaveApprovalDecision
  <1>19. ASSUME NEW u \in Users, DecideRun(u)
         PROVE  Same
    BY <1>19, <1>a, <1>b DEF TypeOK, Working, DecideRun, AwaitsDecision, Outcome, DropLease, EndCall
  <1>20. ASSUME NEW u \in Users, AbandonDecision(u)
         PROVE  Same
    BY <1>20, <1>a, <1>b DEF TypeOK, Working, AbandonDecision, EndCall
  <1>21. CASE UNCHANGED vars
    BY <1>21, <1>a, <1>b DEF TypeOK, Working, vars
  <1>22. QED
    BY <1>1, <1>2, <1>3, <1>4, <1>5, <1>6, <1>7, <1>8, <1>9, <1>10,
       <1>11, <1>12, <1>13, <1>14, <1>15, <1>16, <1>17, <1>18, <1>19, <1>20, <1>21
       DEF Next, WorkerStep

\* However late the writes of a worker arrive, they touch neither the state nor the
\* checkpoint of a run somebody else has claimed since.
THEOREM FencingCorrect == Spec => FencedWrites
  <1>1. IInv /\ [Next]_vars =>
          [\A w \in Workers :
             pc[w] \in Working /\ pc'[w] # pc[w] /\ claimNo[w] # claims[job[w]]
               => /\ state'[job[w]] = state[job[w]]
                  /\ checkpoint'[job[w]] = checkpoint[job[w]]]_vars
    BY FencedStep
  <1>2. QED
    BY <1>1, Inductive, PTL DEF Spec, FencedWrites

\* No statement that changes a state selects a completed or a cancelled run.
LEMMA TerminalStep ==
  ASSUME IInv, [Next]_vars, NEW x \in Runs, state[x] \in {"completed", "cancelled"}
  PROVE  state'[x] = state[x]
  <1> USE DEF runVars, requestVars, workerVars, handlerVars, history
  <1>a. TypeOK /\ owner[x] = None
    BY DEF IInv, LeaseConsistent, Active
  <1>1. ASSUME NEW r \in Runs, Submit(r)
        PROVE  state'[x] = state[x]
    BY <1>1, <1>a, NoneIsFresh DEF TypeOK, Active, Submit
  <1>2. ASSUME NEW r \in Runs, Cancel(r)
        PROVE  state'[x] = state[x]
    BY <1>2, <1>a, NoneIsFresh DEF TypeOK, Active, Cancel, DropLease
  <1>3. ASSUME NEW r \in Runs, Retry(r)
        PROVE  state'[x] = state[x]
    BY <1>3, <1>a, NoneIsFresh DEF TypeOK, Active, Retry, DropLease
  <1>4. ASSUME NEW r \in Runs, Expire(r)
        PROVE  state'[x] = state[x]
    BY <1>4, <1>a, NoneIsFresh DEF TypeOK, Active, Expire
  <1>5. CASE RecoverExpiredLeases
    BY <1>5, <1>a, NoneIsFresh DEF TypeOK, Active, RecoverExpiredLeases, Recoverable
  <1>6. ASSUME NEW w \in Workers, StartRunning(w)
        PROVE  state'[x] = state[x]
    BY <1>6, <1>a, NoneIsFresh DEF TypeOK, Active, StartRunning, OwnsLease
  <1>7. ASSUME NEW w \in Workers, Resume(w)
        PROVE  state'[x] = state[x]
    BY <1>7, <1>a, NoneIsFresh DEF TypeOK, Active, Resume
  <1>8. ASSUME NEW w \in Workers, Complete(w)
        PROVE  state'[x] = state[x]
    BY <1>8, <1>a, NoneIsFresh DEF TypeOK, Active, Complete, OwnsLease, DropLease, Rest
  <1>9. ASSUME NEW w \in Workers, NEW q \in Requests, Propose(w, q)
        PROVE  state'[x] = state[x]
    BY <1>9, <1>a, NoneIsFresh DEF TypeOK, Active, Propose, ProposedState
  <1>10. ASSUME NEW w \in Workers, SaveMessages(w)
         PROVE  state'[x] = state[x]
    BY <1>10, <1>a, NoneIsFresh DEF TypeOK, Active, SaveMessages, OwnsLease
  <1>11. ASSUME NEW w \in Workers, Pause(w)
         PROVE  state'[x] = state[x]
    BY <1>11, <1>a, NoneIsFresh DEF TypeOK, Active, Pause, OwnsLease, Rest
  <1>12. ASSUME NEW w \in Workers, Fail(w)
         PROVE  state'[x] = state[x]
    BY <1>12, <1>a, NoneIsFresh DEF TypeOK, Active, Fail, OwnsLease, FailedState, DropLease, Rest
  <1>13. ASSUME NEW w \in Workers, GiveUp(w)
         PROVE  state'[x] = state[x]
    BY <1>13, <1>a, NoneIsFresh DEF TypeOK, Active, GiveUp, Rest
  <1>14. ASSUME NEW w \in Workers, Crash(w)
         PROVE  state'[x] = state[x]
    BY <1>14, <1>a, NoneIsFresh DEF TypeOK, Active, Crash
  <1>15. ASSUME NEW w \in Workers, Heartbeat(w)
         PROVE  state'[x] = state[x]
    BY <1>15, <1>a, NoneIsFresh DEF TypeOK, Active, Heartbeat, OwnsLease
  <1>16. ASSUME NEW w \in Workers, NEW r \in Runs, Claim(w, r)
         PROVE  state'[x] = state[x]
    BY <1>16, <1>a, NoneIsFresh DEF TypeOK, Active, Claim, Claimable
  <1>17. ASSUME NEW u \in Users, NEW q \in Requests, NEW d \in {"approved", "rejected"},
             CheckDecision(u, q, d)
         PROVE  state'[x] = state[x]
    BY <1>17, <1>a, NoneIsFresh DEF TypeOK, Active, CheckDecision
  <1>18. ASSUME NEW u \in Users, SaveApprovalDecision(u)
         PROVE  state'[x] = state[x]
    BY <1>18, <1>a, NoneIsFresh DEF TypeOK, Active, SaveApprovalDecision
  <1>19. ASSUME NEW u \in Users, DecideRun(u)
         PROVE  state'[x] = state[x]
    BY <1>19, <1>a, NoneIsFresh DEF TypeOK, Active, DecideRun, AwaitsDecision, Outcome, DropLease, EndCall
  <1>20. ASSUME NEW u \in Users, AbandonDecision(u)
         PROVE  state'[x] = state[x]
    BY <1>20, <1>a, NoneIsFresh DEF TypeOK, Active, AbandonDecision, EndCall
  <1>21. CASE UNCHANGED vars
    BY <1>21, <1>a, NoneIsFresh DEF TypeOK, Active, vars
  <1>22. QED
    BY <1>1, <1>2, <1>3, <1>4, <1>5, <1>6, <1>7, <1>8, <1>9, <1>10,
       <1>11, <1>12, <1>13, <1>14, <1>15, <1>16, <1>17, <1>18, <1>19, <1>20, <1>21
       DEF Next, WorkerStep

\* Completed and cancelled are final: no late worker, decision or retry reopens them.
THEOREM TerminalCorrect == Spec => TerminalIsFinal
  <1>1. IInv /\ [Next]_vars =>
          [\A r \in Runs : state[r] \in {"completed", "cancelled"}
                             => state'[r] = state[r]]_vars
    BY TerminalStep
  <1>2. QED
    BY <1>1, Inductive, PTL DEF Spec, TerminalIsFinal

-----------------------------------------------------------------------------
(* Refinement of LeasedWork *)

PhaseOf == [r \in Runs |-> Phase(state[r])]
GripOf == [w \in Workers |-> IF job[w] = None THEN <<>> ELSE <<job[w], claimNo[w]>>]

\* The abstract phase of every state a run can be in.
LEMMA PhaseValues ==
  /\ Phase("absent") = "absent"
  /\ Phase("queued") = "open"
  /\ Phase("leased") = "held"
  /\ Phase("running") = "held"
  /\ Phase("waiting_for_approval") = "held"
  /\ Phase("retryable") = "parked"
  /\ Phase("failed") = "parked"
  /\ Phase("completed") = "done"
  /\ Phase("cancelled") = "dropped"
  BY DEF Phase, Active

\* Active runs are held.
LEMMA ActiveHeld == \A s \in Active : Phase(s) = "held"
  BY PhaseValues DEF Active

\* Writing a state moves the abstract phase of that run.
LEMMA PhaseUpdate ==
  ASSUME TypeOK, NEW r \in Runs, NEW s, state' = [state EXCEPT ![r] = s]
  PROVE  PhaseOf' = [PhaseOf EXCEPT ![r] = Phase(s)]
  BY DEF TypeOK, PhaseOf

\* A worker that rests has let go.
LEMMA GripRest ==
  ASSUME TypeOK, NEW w \in Workers, job' = [job EXCEPT ![w] = None], UNCHANGED claimNo
  PROVE  GripOf' = [GripOf EXCEPT ![w] = <<>>]
  BY DEF TypeOK, GripOf

\* Taking one held run away from its worker.
LEMMA LapseOne ==
  ASSUME TypeOK, NEW r \in Runs, state[r] \in Active,
         NEW s \in {"queued", "failed", "cancelled"}, state' = [state EXCEPT ![r] = s],
         UNCHANGED <<claims, job, claimNo>>
  PROVE  Work!Next
  <1>1. PhaseOf[r] = "held"
    BY ActiveHeld DEF PhaseOf
  <1>2. Phase(s) \in {"open", "parked", "dropped"}
    BY PhaseValues
  <1>3. PhaseOf' = [PhaseOf EXCEPT ![r] = Phase(s)]
    BY PhaseUpdate
  <1>4. PhaseOf' = [i \in Runs |-> IF i \in {r} THEN [x \in {r} |-> Phase(s)][i]
                                               ELSE PhaseOf[i]]
    BY <1>3 DEF PhaseOf
  <1>5. [x \in {r} |-> Phase(s)] \in [{r} -> {"open", "parked", "dropped"}]
    BY <1>2
  <1>6. Work!Lapse({r})
    BY <1>1, <1>4, <1>5 DEF Work!Lapse, PhaseOf
  <1>7. QED
    BY <1>6 DEF Work!Next

\* Every step is a step of leased work or leaves it unchanged.
LEMMA WorkStep == IInv /\ [Next]_vars => [Work!Next]_(Work!vars)
  <1> SUFFICES ASSUME IInv, [Next]_vars PROVE [Work!Next]_(Work!vars)
    OBVIOUS
  <1> USE NoneIsFresh DEF runVars, requestVars, workerVars, handlerVars, history
  <1>a. TypeOK /\ LeaseConsistent /\ Holding /\ Turns
    BY DEF IInv
  <1>b. ASSUME UNCHANGED <<state, claims, job, claimNo>> PROVE UNCHANGED Work!vars
    BY <1>b DEF Work!vars
  <1>c. ASSUME NEW w \in Workers, OwnsLease(w)
        PROVE  /\ job[w] \in Runs
               /\ PhaseOf[job[w]] = "held"
               /\ GripOf[w] = <<job[w], claims[job[w]]>>
    <2>1. job[w] \in Runs /\ state[job[w]] \in Active
      BY <1>a, <1>c DEF OwnsLease, TypeOK, LeaseConsistent
    <2>2. PhaseOf[job[w]] = "held"
      BY <2>1, ActiveHeld DEF PhaseOf
    <2>3. claimNo[w] = claims[job[w]]
      BY <1>a, <1>c DEF OwnsLease, Turns
    <2>4. GripOf[w] = <<job[w], claims[job[w]]>>
      BY <2>1, <2>3 DEF GripOf
    <2>5. QED
      BY <2>1, <2>2, <2>4
  <1>d. ASSUME NEW w \in Workers, OwnsLease(w), UNCHANGED <<claims, claimNo>>,
               NEW s \in {"completed", "retryable", "failed"},
               state' = [state EXCEPT ![job[w]] = s], job' = [job EXCEPT ![w] = None]
        PROVE  Work!Next
    <2>1. PhaseOf' = [PhaseOf EXCEPT ![job[w]] = Phase(s)]
      BY <1>a, <1>c, <1>d, PhaseUpdate
    <2>2. GripOf' = [GripOf EXCEPT ![w] = <<>>]
      BY <1>a, <1>d, GripRest
    <2>3. Phase(s) \in {"done", "parked", "dropped"}
      BY PhaseValues
    <2>4. PICK r \in Runs : r = job[w]
      BY <1>c, <1>d
    <2>5. Work!Settle(w, r)
      BY <1>c, <1>d, <2>1, <2>2, <2>3, <2>4 DEF Work!Settle, PhaseOf, GripOf
    <2>6. QED
      BY <2>5 DEF Work!Next
  <1>1. ASSUME NEW r \in Runs, Submit(r)
        PROVE  [Work!Next]_(Work!vars)
    <2>1. PhaseOf' = [PhaseOf EXCEPT ![r] = "open"]
      <3>1. state' = [state EXCEPT ![r] = "queued"]
        BY <1>1 DEF Submit
      <3>2. PhaseOf' = [PhaseOf EXCEPT ![r] = Phase("queued")]
        BY <1>a, <3>1, PhaseUpdate
      <3>3. QED
        BY <3>2, PhaseValues
    <2>2. PhaseOf[r] = "absent"
      BY <1>1, PhaseValues DEF Submit, PhaseOf
    <2>3. Work!Offer(r)
      BY <1>1, <2>1, <2>2 DEF Submit, Work!Offer, PhaseOf
    <2>4. QED
      BY <2>3 DEF Work!Next
  <1>2. ASSUME NEW r \in Runs, Cancel(r)
        PROVE  [Work!Next]_(Work!vars)
    <2>1. CASE state[r] \in Active
      BY <1>a, <1>2, <2>1, LapseOne DEF Cancel
    <2>2. CASE state[r] \in {"queued", "retryable"}
      <3>1. PhaseOf' = [PhaseOf EXCEPT ![r] = "dropped"]
        <4>1. state' = [state EXCEPT ![r] = "cancelled"]
          BY <1>2 DEF Cancel
        <4>2. PhaseOf' = [PhaseOf EXCEPT ![r] = Phase("cancelled")]
          BY <1>a, <4>1, PhaseUpdate
        <4>3. QED
          BY <4>2, PhaseValues
      <3>2. PhaseOf[r] \in {"open", "parked"}
        BY <2>2, PhaseValues DEF PhaseOf
      <3>3. Work!Withdraw(r)
        BY <1>2, <3>1, <3>2 DEF Cancel, Work!Withdraw, PhaseOf
      <3>4. QED
        BY <3>3 DEF Work!Next
    <2>3. QED
      BY <1>2, <2>1, <2>2 DEF Cancel
  <1>3. ASSUME NEW r \in Runs, Retry(r)
        PROVE  [Work!Next]_(Work!vars)
    <2>1. PhaseOf' = [PhaseOf EXCEPT ![r] = "open"]
      <3>1. state' = [state EXCEPT ![r] = "queued"]
        BY <1>3 DEF Retry
      <3>2. PhaseOf' = [PhaseOf EXCEPT ![r] = Phase("queued")]
        BY <1>a, <3>1, PhaseUpdate
      <3>3. QED
        BY <3>2, PhaseValues
    <2>2. PhaseOf[r] = "parked"
      BY <1>3, PhaseValues DEF Retry, PhaseOf
    <2>3. Work!Reopen(r)
      BY <1>3, <2>1, <2>2 DEF Retry, Work!Reopen, PhaseOf
    <2>4. QED
      BY <2>3 DEF Work!Next
  <1>4. ASSUME NEW r \in Runs, Expire(r)
        PROVE  [Work!Next]_(Work!vars)
    BY <1>4, <1>b DEF Expire
  <1>5. CASE RecoverExpiredLeases
    <2> DEFINE S == {r \in Runs : Recoverable(r)}
               f == [r \in S |-> "open"]
    <2>1. f \in [S -> {"open", "parked", "dropped"}]
      OBVIOUS
    <2>2. \A r \in S : PhaseOf[r] = "held"
      BY ActiveHeld DEF Recoverable, PhaseOf, Active
    <2>3. PhaseOf' = [i \in Runs |-> IF i \in S THEN f[i] ELSE PhaseOf[i]]
      BY <1>5, PhaseValues DEF RecoverExpiredLeases, PhaseOf
    <2>4. Work!Lapse(S)
      BY <1>5, <2>1, <2>2, <2>3 DEF RecoverExpiredLeases, Work!Lapse, PhaseOf
    <2>5. QED
      BY <2>4 DEF Work!Next
  <1>6. ASSUME NEW w \in Workers, StartRunning(w)
        PROVE  [Work!Next]_(Work!vars)
    <2>1. PhaseOf' = [PhaseOf EXCEPT ![job[w]] = "held"]
      <3>1. OwnsLease(w) /\ state' = [state EXCEPT ![job[w]] = "running"]
        BY <1>6 DEF StartRunning
      <3>2. PhaseOf' = [PhaseOf EXCEPT ![job[w]] = Phase("running")]
        BY <1>a, <1>c, <3>1, PhaseUpdate
      <3>3. QED
        BY <3>2, PhaseValues
    <2>2. PhaseOf' = PhaseOf
      BY <1>c, <1>6, <2>1 DEF StartRunning, PhaseOf
    <2>3. QED
      BY <1>6, <2>2 DEF StartRunning, Work!vars, PhaseOf
  <1>7. ASSUME NEW w \in Workers, Resume(w)
        PROVE  [Work!Next]_(Work!vars)
    BY <1>7, <1>b DEF Resume
  <1>8. ASSUME NEW w \in Workers, Complete(w)
        PROVE  [Work!Next]_(Work!vars)
    <2>1. PICK s \in {"completed", "retryable", "failed"} :
            state' = [state EXCEPT ![job[w]] = s]
      BY <1>8 DEF Complete
    <2>2. OwnsLease(w) /\ UNCHANGED <<claims, claimNo>> /\ job' = [job EXCEPT ![w] = None]
      BY <1>8 DEF Complete, Rest
    <2>3. QED
      BY <1>d, <2>1, <2>2
  <1>9. ASSUME NEW w \in Workers, NEW q \in Requests, Propose(w, q)
        PROVE  [Work!Next]_(Work!vars)
    BY <1>9, <1>b DEF Propose
  <1>10. ASSUME NEW w \in Workers, SaveMessages(w)
         PROVE  [Work!Next]_(Work!vars)
    BY <1>10, <1>b DEF SaveMessages
  <1>11. ASSUME NEW w \in Workers, Pause(w)
         PROVE  [Work!Next]_(Work!vars)
    <2>1. PhaseOf' = [PhaseOf EXCEPT ![job[w]] = "held"]
      <3>1. OwnsLease(w) /\ state' = [state EXCEPT ![job[w]] = "waiting_for_approval"]
        BY <1>11 DEF Pause
      <3>2. PhaseOf' = [PhaseOf EXCEPT ![job[w]] = Phase("waiting_for_approval")]
        BY <1>a, <1>c, <3>1, PhaseUpdate
      <3>3. QED
        BY <3>2, PhaseValues
    <2>2. PhaseOf' = PhaseOf
      BY <1>c, <1>11, <2>1 DEF Pause, PhaseOf
    <2>3. GripOf' = [GripOf EXCEPT ![w] = <<>>]
      BY <1>a, <1>11, GripRest DEF Pause, Rest
    <2>4. Work!LetGo(w)
      BY <1>11, <2>2, <2>3 DEF Pause, Work!LetGo, PhaseOf, GripOf
    <2>5. QED
      BY <2>4 DEF Work!Next
  <1>12. ASSUME NEW w \in Workers, Fail(w)
         PROVE  [Work!Next]_(Work!vars)
    <2>1. PICK s \in {"completed", "retryable", "failed"} :
            state' = [state EXCEPT ![job[w]] = s]
      BY <1>12 DEF Fail, FailedState
    <2>2. OwnsLease(w) /\ UNCHANGED <<claims, claimNo>> /\ job' = [job EXCEPT ![w] = None]
      BY <1>12 DEF Fail, Rest
    <2>3. QED
      BY <1>d, <2>1, <2>2
  <1>13. ASSUME NEW w \in Workers, GiveUp(w)
         PROVE  [Work!Next]_(Work!vars)
    <2>1. job' = [job EXCEPT ![w] = None] /\ UNCHANGED <<state, claims, claimNo>>
      BY <1>13 DEF GiveUp, Rest
    <2>2. GripOf' = [GripOf EXCEPT ![w] = <<>>]
      BY <1>a, <2>1, GripRest
    <2>3. Work!LetGo(w)
      BY <2>1, <2>2 DEF Work!LetGo, GripOf
    <2>4. QED
      BY <2>3 DEF Work!Next
  <1>14. ASSUME NEW w \in Workers, Crash(w)
         PROVE  [Work!Next]_(Work!vars)
    <2>1. job' = [job EXCEPT ![w] = None] /\ UNCHANGED <<state, claims, claimNo>>
      BY <1>14 DEF Crash
    <2>2. GripOf' = [GripOf EXCEPT ![w] = <<>>]
      BY <1>a, <2>1, GripRest
    <2>3. Work!LetGo(w)
      BY <2>1, <2>2 DEF Work!LetGo, GripOf
    <2>4. QED
      BY <2>3 DEF Work!Next
  <1>15. ASSUME NEW w \in Workers, Heartbeat(w)
         PROVE  [Work!Next]_(Work!vars)
    BY <1>15, <1>b DEF Heartbeat
  <1>16. ASSUME NEW w \in Workers, NEW r \in Runs, Claim(w, r)
         PROVE  [Work!Next]_(Work!vars)
    <2>1. PhaseOf' = [PhaseOf EXCEPT ![r] = "held"]
      <3>1. state' = [state EXCEPT ![r] = "leased"]
        BY <1>16 DEF Claim
      <3>2. PhaseOf' = [PhaseOf EXCEPT ![r] = Phase("leased")]
        BY <1>a, <3>1, PhaseUpdate
      <3>3. QED
        BY <3>2, PhaseValues
    <2>2. PhaseOf[r] \in {"open", "held"}
      BY <1>16, PhaseValues, ActiveHeld DEF Claim, Claimable, PhaseOf
    <2>3. GripOf[w] = <<>>
      BY <1>a, <1>16 DEF Claim, Holding, Working, GripOf
    <2>4. GripOf' = [GripOf EXCEPT ![w] = <<r, claims[r] + 1>>]
      BY <1>a, <1>16 DEF Claim, TypeOK, GripOf
    <2>5. claims' = [claims EXCEPT ![r] = @ + 1]
      BY <1>16 DEF Claim
    <2>6. Work!Take(w, r)
      BY <2>1, <2>2, <2>3, <2>4, <2>5 DEF Work!Take, PhaseOf, GripOf
    <2>7. QED
      BY <2>6 DEF Work!Next
  <1>17. ASSUME NEW u \in Users, NEW q \in Requests, NEW d \in {"approved", "rejected"},
             CheckDecision(u, q, d)
         PROVE  [Work!Next]_(Work!vars)
    BY <1>17, <1>b DEF CheckDecision
  <1>18. ASSUME NEW u \in Users, SaveApprovalDecision(u)
         PROVE  [Work!Next]_(Work!vars)
    BY <1>18, <1>b DEF SaveApprovalDecision
  <1>19. ASSUME NEW u \in Users, DecideRun(u)
         PROVE  [Work!Next]_(Work!vars)
    <2>1. PICK r : r = requestRun[handled[u]]
      OBVIOUS
    <2>2. /\ state[r] \in Active
          /\ \E s \in {"queued", "failed"} : state' = [state EXCEPT ![r] = s]
          /\ UNCHANGED <<claims, job, claimNo>>
      BY <1>19, <2>1 DEF DecideRun, AwaitsDecision, Outcome, Active
    <2>3. CASE r \in Runs
      BY <1>a, <2>2, <2>3, LapseOne
    <2>4. CASE r \notin Runs
      BY <1>a, <1>b, <2>2, <2>4 DEF TypeOK
    <2>5. QED
      BY <2>3, <2>4
  <1>20. ASSUME NEW u \in Users, AbandonDecision(u)
         PROVE  [Work!Next]_(Work!vars)
    BY <1>20, <1>b DEF AbandonDecision
  <1>21. CASE UNCHANGED vars
    BY <1>21, <1>b DEF vars
  <1>22. QED
    BY <1>1, <1>2, <1>3, <1>4, <1>5, <1>6, <1>7, <1>8, <1>9, <1>10,
       <1>11, <1>12, <1>13, <1>14, <1>15, <1>16, <1>17, <1>18, <1>19, <1>20, <1>21
       DEF Next, WorkerStep

\* The runs implement leased work: of all the workers that ever claimed a run only
\* the last one settles it, and a decision only releases it.
THEOREM LeasedWorkCorrect == Spec => ImplementsLeasedWork
  <1>1. Init => Work!Init
    BY DEF Init, Work!Init, Phase, Active
  <1>2. QED
    BY <1>1, WorkStep, Inductive, PTL DEF Spec, Work!Spec, ImplementsLeasedWork

-----------------------------------------------------------------------------
(* Mutual exclusion with heartbeats in time *)

\* A worker in a pass owns a live lease on its run, or the run was cancelled under it;
\* nobody else has the run in memory.
Exclusive ==
  \A w \in Workers :
    job[w] # None =>
      /\ \/ owner[job[w]] = w /\ ~expired[job[w]] /\ state[job[w]] \in {"leased", "running"}
         \/ state[job[w]] = "cancelled"
      /\ \A u \in Workers : job[u] = job[w] => u = w

\* A lease does not run out under its owner, so nobody recovers or claims the run, and
\* a run that waits for a decision is in nobody's memory.
LEMMA ExclusiveStep ==
  ASSUME TimelyHeartbeats
  PROVE  IInv /\ Exclusive /\ [Next]_vars => Exclusive'
  <1> SUFFICES ASSUME IInv, Exclusive, [Next]_vars PROVE Exclusive'
    OBVIOUS
  <1> USE NoneIsFresh, ConstantsAssumption
  <1> USE DEF runVars, requestVars, workerVars, handlerVars, history
  <1>a. TypeOK /\ LeaseConsistent /\ Holding
    BY DEF IInv
  <1>1. ASSUME NEW r \in Runs, Submit(r)
        PROVE  Exclusive'
    BY <1>1, <1>a DEF Exclusive, TypeOK, LeaseConsistent, Holding, Working, Submit
  <1>2. ASSUME NEW r \in Runs, Cancel(r)
        PROVE  Exclusive'
    BY <1>2, <1>a DEF Exclusive, TypeOK, LeaseConsistent, Holding, Working, Cancel, DropLease
  <1>3. ASSUME NEW r \in Runs, Retry(r)
        PROVE  Exclusive'
    BY <1>3, <1>a DEF Exclusive, TypeOK, LeaseConsistent, Holding, Working, Retry, DropLease
  <1>4. ASSUME NEW r \in Runs, Expire(r)
        PROVE  Exclusive'
    BY <1>4, <1>a DEF Exclusive, TypeOK, LeaseConsistent, Holding, Working, Expire, InUse, OwnsLease
  <1>5. CASE RecoverExpiredLeases
    BY <1>5, <1>a DEF Exclusive, TypeOK, LeaseConsistent, Holding, Working, RecoverExpiredLeases, Recoverable
  <1>6. ASSUME NEW w \in Workers, StartRunning(w)
        PROVE  Exclusive'
    BY <1>6, <1>a DEF Exclusive, TypeOK, LeaseConsistent, Holding, Working, StartRunning, OwnsLease
  <1>7. ASSUME NEW w \in Workers, Resume(w)
        PROVE  Exclusive'
    BY <1>7, <1>a DEF Exclusive, TypeOK, LeaseConsistent, Holding, Working, Resume
  <1>8. ASSUME NEW w \in Workers, Complete(w)
        PROVE  Exclusive'
    BY <1>8, <1>a DEF Exclusive, TypeOK, LeaseConsistent, Holding, Working, Complete, OwnsLease, DropLease, Rest
  <1>9. ASSUME NEW w \in Workers, NEW q \in Requests, Propose(w, q)
        PROVE  Exclusive'
    BY <1>9, <1>a DEF Exclusive, TypeOK, LeaseConsistent, Holding, Working, Propose
  <1>10. ASSUME NEW w \in Workers, SaveMessages(w)
         PROVE  Exclusive'
    BY <1>10, <1>a DEF Exclusive, TypeOK, LeaseConsistent, Holding, Working, SaveMessages
  <1>11. ASSUME NEW w \in Workers, Pause(w)
         PROVE  Exclusive'
    BY <1>11, <1>a DEF Exclusive, TypeOK, LeaseConsistent, Holding, Working, Pause, OwnsLease, Rest
  <1>12. ASSUME NEW w \in Workers, Fail(w)
         PROVE  Exclusive'
    BY <1>12, <1>a DEF Exclusive, TypeOK, LeaseConsistent, Holding, Working, Fail, OwnsLease, DropLease, Rest
  <1>13. ASSUME NEW w \in Workers, GiveUp(w)
         PROVE  Exclusive'
    BY <1>13, <1>a DEF Exclusive, TypeOK, LeaseConsistent, Holding, Working, GiveUp, Rest
  <1>14. ASSUME NEW w \in Workers, Crash(w)
         PROVE  Exclusive'
    BY <1>14, <1>a DEF Exclusive, TypeOK, LeaseConsistent, Holding, Working, Crash
  <1>15. ASSUME NEW w \in Workers, Heartbeat(w)
         PROVE  Exclusive'
    BY <1>15, <1>a DEF Exclusive, TypeOK, LeaseConsistent, Holding, Working, Heartbeat, OwnsLease
  <1>16. ASSUME NEW w \in Workers, NEW r \in Runs, Claim(w, r)
         PROVE  Exclusive'
    BY <1>16, <1>a DEF Exclusive, TypeOK, LeaseConsistent, Holding, Working, Claim, Claimable, Active
  <1>17. ASSUME NEW u \in Users, SaveApprovalDecision(u)
         PROVE  Exclusive'
    BY <1>17, <1>a DEF Exclusive, TypeOK, LeaseConsistent, Holding, Working, SaveApprovalDecision
  <1>18. ASSUME NEW u \in Users, DecideRun(u)
         PROVE  Exclusive'
    BY <1>18, <1>a DEF Exclusive, TypeOK, LeaseConsistent, Holding, Working, DecideRun, AwaitsDecision, DropLease
  <1>19. ASSUME NEW u \in Users, AbandonDecision(u)
         PROVE  Exclusive'
    BY <1>19, <1>a DEF Exclusive, TypeOK, LeaseConsistent, Holding, Working, AbandonDecision
  <1>20. ASSUME NEW u \in Users, NEW q \in Requests, NEW d \in {"approved", "rejected"}, CheckDecision(u, q, d)
         PROVE  Exclusive'
    BY <1>20, <1>a DEF Exclusive, TypeOK, LeaseConsistent, Holding, Working, CheckDecision
  <1>21. CASE UNCHANGED vars
    BY <1>21, <1>a DEF Exclusive, TypeOK, LeaseConsistent, Holding, Working, vars
  <1>22. QED
    BY <1>1, <1>2, <1>3, <1>4, <1>5, <1>6, <1>7, <1>8, <1>9, <1>10, <1>11, <1>12, <1>13, <1>14, <1>15, <1>16, <1>17, <1>18, <1>19, <1>20, <1>21
       DEF Next, WorkerStep

\* With heartbeats in time no two processes drive one run at the same time, although
\* Claim also takes runs that wait for approval.
THEOREM OneDriverCorrect ==
  ASSUME TimelyHeartbeats
  PROVE  Spec => []OneDriver
  <1>1. Init => Exclusive
    BY DEF Init, Exclusive
  <1>2. IInv /\ Exclusive /\ [Next]_vars => Exclusive'
    BY ExclusiveStep
  <1>3. IInv /\ Exclusive => OneDriver
    BY DEF IInv, Holding, Exclusive, OneDriver
  <1>4. QED
    BY <1>1, <1>2, <1>3, Inductive, PTL DEF Spec

-----------------------------------------------------------------------------
(* The human approval gate: what an approved tool call owes to a human, and   *)
(* how often it can be carried out.                                           *)

\* Rows refer to rows that exist: a checkpoint and a worker's tool call to a
\* request of that very run, a request to a submitted run.
Linked ==
  /\ \A r \in Runs :
       /\ checkpoint[r] # None => requestRun[checkpoint[r]] = r
       /\ state[r] = "absent" => checkpoint[r] = None
  /\ \A w \in Workers :
       /\ job[w] # None => state[job[w]] # "absent"
       /\ call[w] # None => job[w] # None /\ requestRun[call[w]] = job[w]
       /\ pc[w] \in {"resuming", "proposed", "saved"} => call[w] # None
  /\ \A q \in Requests :
       /\ requestRun[q] # None => state[requestRun[q]] # "absent"
       /\ decision[q] = "absent" <=> requestRun[q] = None
       /\ decision[q] = "absent" => executed[q] = 0 /\ approvers[q] = {}

\* What a call of the decision endpoint has established so far; nobody has ever
\* approved a request of a run that acts for them.
Decisions ==
  /\ \A u \in Users :
       handler[u] # "idle" =>
         /\ handled[u] \in Requests
         /\ decision[handled[u]] # "absent"
         /\ verdict[u] = "approved" => u # RequesterOf[requestRun[handled[u]]]
         /\ handler[u] = "recorded" =>
              /\ decision[handled[u]] # "pending"
              /\ verdict[u] = "approved" => u \in approvers[handled[u]]
  /\ \A q \in Requests :
       requestRun[q] # None => RequesterOf[requestRun[q]] \notin approvers[q]

\* A run that never lost a lease and was never retried has at most one worker,
\* whose place in the loop fits the state, and no tool call it may still carry out
\* has been carried out before.
Calm(r) == interrupted[r] \cap {"lease", "retry"} = {}
Alone(r) ==
  /\ \A v, w \in Workers : job[v] = r /\ job[w] = r => v = w
  /\ \A w \in Workers :
       job[w] = r =>
         /\ pc[w] = "claimed" => state[r] \in {"leased", "cancelled"}
         /\ pc[w] # "claimed" => state[r] \in {"running", "cancelled"}
         /\ pc[w] = "saved" => checkpoint[r] = call[w]
         /\ pc[w] # "thinking" /\ call[w] # None => executed[call[w]] = 0
  /\ state[r] \in {"queued", "waiting_for_approval"} /\ checkpoint[r] # None
       => executed[checkpoint[r]] = 0
  /\ \A q \in Requests : requestRun[q] = r => executed[q] <= 1

\* A request somebody may still act on: undecided, or decided by a call that has
\* not moved the run yet.
Live(q) == decision[q] = "pending" \/ \E u \in Users : handler[u] = "recorded" /\ handled[u] = q

\* A run nothing has disturbed has at most one live request, the one its worker is
\* about to pause for or it waits for; each has one decider; and what is queued or
\* claimed with a tool call has an approval for that call.
Gated(r) ==
  /\ \A q \in Requests :
       requestRun[q] = r /\ Live(q) =>
         /\ state[r] # "queued"
         /\ state[r] = "waiting_for_approval" => q = checkpoint[r]
         /\ \A w \in Workers :
              job[w] = r => pc[w] \in {"proposed", "saved"} /\ call[w] = q
  /\ \A u, v \in Users :
       /\ handler[u] = "recorded" /\ handler[v] = "recorded"
       /\ handled[u] = handled[v] /\ requestRun[handled[u]] = r
       => u = v
  /\ state[r] = "queued" /\ checkpoint[r] # None => approvers[checkpoint[r]] # {}
  /\ \A w \in Workers :
       job[w] = r /\ pc[w] \in {"claimed", "resuming"} /\ call[w] # None
         => approvers[call[w]] # {}
  /\ \A q \in Requests : requestRun[q] = r /\ executed[q] > 0 => approvers[q] # {}

GateInv ==
  /\ IInv
  /\ Linked
  /\ Decisions
  /\ \A r \in Runs : Calm(r) => Alone(r)
  /\ \A r \in Runs : interrupted[r] = {} => Gated(r)

-----------------------------------------------------------------------------
(* Rows and handlers *)

\* Rows keep referring to rows that exist.
LEMMA LinkedStep ==
  IInv /\ Linked /\ Decisions /\ [Next]_vars => Linked'
  <1> SUFFICES ASSUME IInv, Linked, Decisions, [Next]_vars PROVE Linked'
    OBVIOUS
  <1> USE NoneIsFresh DEF runVars, requestVars, workerVars, handlerVars, history, Active, Working
  <1>a. TypeOK /\ LeaseConsistent /\ Holding
    BY DEF IInv
  <1>1. ASSUME NEW r \in Runs, Submit(r)
        PROVE  Linked'
    BY <1>1, <1>a DEF Linked, TypeOK, LeaseConsistent, Holding, Submit
  <1>2. ASSUME NEW r \in Runs, Cancel(r)
        PROVE  Linked'
    BY <1>2, <1>a DEF Linked, TypeOK, LeaseConsistent, Holding, Cancel, DropLease
  <1>3. ASSUME NEW r \in Runs, Retry(r)
        PROVE  Linked'
    BY <1>3, <1>a DEF Linked, TypeOK, LeaseConsistent, Holding, Retry, DropLease
  <1>4. ASSUME NEW r \in Runs, Expire(r)
        PROVE  Linked'
    BY <1>4, <1>a DEF Linked, TypeOK, LeaseConsistent, Holding, Expire
  <1>5. CASE RecoverExpiredLeases
    BY <1>5, <1>a DEF Linked, TypeOK, LeaseConsistent, Holding, RecoverExpiredLeases, Recoverable
  <1>6. ASSUME NEW w \in Workers, StartRunning(w)
        PROVE  Linked'
    BY <1>6, <1>a DEF Linked, TypeOK, LeaseConsistent, Holding, StartRunning, OwnsLease
  <1>7. ASSUME NEW w \in Workers, Resume(w)
        PROVE  Linked'
    BY <1>7, <1>a DEF Linked, TypeOK, LeaseConsistent, Holding, Resume
  <1>8. ASSUME NEW w \in Workers, Complete(w)
        PROVE  Linked'
    BY <1>8, <1>a DEF Linked, TypeOK, LeaseConsistent, Holding, Complete, OwnsLease, DropLease, Rest
  <1>9. ASSUME NEW w \in Workers, NEW q \in Requests, Propose(w, q)
        PROVE  Linked'
    <2>1. job[w] \in Runs /\ requestRun[q] = None
      BY <1>9, <1>a DEF Propose, Linked, TypeOK, Holding
    <2>2. /\ \A r \in Runs : checkpoint[r] # q
          /\ \A v \in Workers : call[v] # q
      BY <1>a, <2>1 DEF Linked, TypeOK
    <2>3. /\ decision' = [decision EXCEPT ![q] = "pending"]
          /\ requestRun' = [requestRun EXCEPT ![q] = job[w]]
          /\ call' = [call EXCEPT ![w] = q]
          /\ pc' = [pc EXCEPT ![w] = "proposed"]
          /\ UNCHANGED <<state, checkpoint, job, executed, approvers>>
      BY <1>9 DEF Propose, ProposedState
    <2>4. \A r \in Runs :
            /\ checkpoint[r] # None => requestRun'[checkpoint[r]] = r
            /\ state[r] = "absent" => checkpoint[r] = None
      BY <1>a, <2>2, <2>3 DEF Linked, TypeOK
    <2>5. \A v \in Workers :
            /\ job[v] # None => state[job[v]] # "absent"
            /\ call'[v] # None => job[v] # None /\ requestRun'[call'[v]] = job[v]
            /\ pc'[v] \in {"resuming", "proposed", "saved"} => call'[v] # None
      BY <1>a, <2>1, <2>2, <2>3 DEF Linked, TypeOK
    <2>6. \A x \in Requests :
            /\ requestRun'[x] # None => state[requestRun'[x]] # "absent"
            /\ decision'[x] = "absent" <=> requestRun'[x] = None
            /\ decision'[x] = "absent" => executed[x] = 0 /\ approvers[x] = {}
      BY <1>a, <2>1, <2>3 DEF Linked, TypeOK
    <2>7. QED
      BY <2>3, <2>4, <2>5, <2>6 DEF Linked
  <1>10. ASSUME NEW w \in Workers, SaveMessages(w)
         PROVE  Linked'
    BY <1>10, <1>a DEF Linked, TypeOK, LeaseConsistent, Holding, SaveMessages, OwnsLease
  <1>11. ASSUME NEW w \in Workers, Pause(w)
         PROVE  Linked'
    BY <1>11, <1>a DEF Linked, TypeOK, LeaseConsistent, Holding, Pause, OwnsLease, Rest
  <1>12. ASSUME NEW w \in Workers, Fail(w)
         PROVE  Linked'
    BY <1>12, <1>a DEF Linked, TypeOK, LeaseConsistent, Holding, Fail, OwnsLease, FailedState, DropLease, Rest
  <1>13. ASSUME NEW w \in Workers, GiveUp(w)
         PROVE  Linked'
    BY <1>13, <1>a DEF Linked, TypeOK, LeaseConsistent, Holding, GiveUp, Rest
  <1>14. ASSUME NEW w \in Workers, Crash(w)
         PROVE  Linked'
    BY <1>14, <1>a DEF Linked, TypeOK, LeaseConsistent, Holding, Crash
  <1>15. ASSUME NEW w \in Workers, Heartbeat(w)
         PROVE  Linked'
    BY <1>15, <1>a DEF Linked, TypeOK, LeaseConsistent, Holding, Heartbeat, OwnsLease
  <1>16. ASSUME NEW w \in Workers, NEW r \in Runs, Claim(w, r)
         PROVE  Linked'
    BY <1>16, <1>a DEF Linked, TypeOK, LeaseConsistent, Holding, Claim, Claimable
  <1>17. ASSUME NEW u \in Users, NEW q \in Requests, NEW d \in {"approved", "rejected"},
             CheckDecision(u, q, d)
         PROVE  Linked'
    BY <1>17, <1>a DEF Linked, TypeOK, LeaseConsistent, Holding, CheckDecision
  <1>18. ASSUME NEW u \in Users, SaveApprovalDecision(u)
         PROVE  Linked'
    BY <1>18, <1>a DEF Linked, TypeOK, LeaseConsistent, Holding, SaveApprovalDecision, Decisions
  <1>19. ASSUME NEW u \in Users, DecideRun(u)
         PROVE  Linked'
    BY <1>19, <1>a DEF Linked, TypeOK, LeaseConsistent, Holding, DecideRun, AwaitsDecision, Outcome, DropLease, EndCall
  <1>20. ASSUME NEW u \in Users, AbandonDecision(u)
         PROVE  Linked'
    BY <1>20, <1>a DEF Linked, TypeOK, LeaseConsistent, Holding, AbandonDecision, EndCall
  <1>21. CASE UNCHANGED vars
    BY <1>21, <1>a DEF Linked, TypeOK, LeaseConsistent, Holding, vars
  <1>22. QED
    BY <1>1, <1>2, <1>3, <1>4, <1>5, <1>6, <1>7, <1>8, <1>9, <1>10,
       <1>11, <1>12, <1>13, <1>14, <1>15, <1>16, <1>17, <1>18, <1>19, <1>20, <1>21
       DEF Next, WorkerStep

\* A decision endpoint keeps what it has checked, and the self-approval check holds.
LEMMA DecisionsStep ==
  IInv /\ Linked /\ Decisions /\ [Next]_vars => Decisions'
  <1> SUFFICES ASSUME IInv, Linked, Decisions, [Next]_vars PROVE Decisions'
    OBVIOUS
  <1> USE NoneIsFresh DEF runVars, requestVars, workerVars, handlerVars, history
  <1>a. TypeOK /\ LeaseConsistent /\ Holding
    BY DEF IInv
  <1>1. ASSUME NEW r \in Runs, Submit(r)
        PROVE  Decisions'
    BY <1>1, <1>a DEF Decisions, Linked, TypeOK, Submit
  <1>2. ASSUME NEW r \in Runs, Cancel(r)
        PROVE  Decisions'
    BY <1>2, <1>a DEF Decisions, Linked, TypeOK, Cancel, DropLease
  <1>3. ASSUME NEW r \in Runs, Retry(r)
        PROVE  Decisions'
    BY <1>3, <1>a DEF Decisions, Linked, TypeOK, Retry, DropLease
  <1>4. ASSUME NEW r \in Runs, Expire(r)
        PROVE  Decisions'
    BY <1>4, <1>a DEF Decisions, Linked, TypeOK, Expire
  <1>5. CASE RecoverExpiredLeases
    BY <1>5, <1>a DEF Decisions, Linked, TypeOK, RecoverExpiredLeases, Recoverable
  <1>6. ASSUME NEW w \in Workers, StartRunning(w)
        PROVE  Decisions'
    BY <1>6, <1>a DEF Decisions, Linked, TypeOK, StartRunning, OwnsLease
  <1>7. ASSUME NEW w \in Workers, Resume(w)
        PROVE  Decisions'
    BY <1>7, <1>a DEF Decisions, Linked, TypeOK, Resume
  <1>8. ASSUME NEW w \in Workers, Complete(w)
        PROVE  Decisions'
    BY <1>8, <1>a DEF Decisions, Linked, TypeOK, Complete, OwnsLease, DropLease, Rest
  <1>9. ASSUME NEW w \in Workers, NEW q \in Requests, Propose(w, q)
        PROVE  Decisions'
    BY <1>9, <1>a DEF Decisions, Linked, TypeOK, Propose, ProposedState
  <1>10. ASSUME NEW w \in Workers, SaveMessages(w)
         PROVE  Decisions'
    BY <1>10, <1>a DEF Decisions, Linked, TypeOK, SaveMessages, OwnsLease
  <1>11. ASSUME NEW w \in Workers, Pause(w)
         PROVE  Decisions'
    BY <1>11, <1>a DEF Decisions, Linked, TypeOK, Pause, OwnsLease, Rest
  <1>12. ASSUME NEW w \in Workers, Fail(w)
         PROVE  Decisions'
    BY <1>12, <1>a DEF Decisions, Linked, TypeOK, Fail, OwnsLease, FailedState, DropLease, Rest
  <1>13. ASSUME NEW w \in Workers, GiveUp(w)
         PROVE  Decisions'
    BY <1>13, <1>a DEF Decisions, Linked, TypeOK, GiveUp, Rest
  <1>14. ASSUME NEW w \in Workers, Crash(w)
         PROVE  Decisions'
    BY <1>14, <1>a DEF Decisions, Linked, TypeOK, Crash
  <1>15. ASSUME NEW w \in Workers, Heartbeat(w)
         PROVE  Decisions'
    BY <1>15, <1>a DEF Decisions, Linked, TypeOK, Heartbeat, OwnsLease
  <1>16. ASSUME NEW w \in Workers, NEW r \in Runs, Claim(w, r)
         PROVE  Decisions'
    BY <1>16, <1>a DEF Decisions, Linked, TypeOK, Claim, Claimable
  <1>17. ASSUME NEW u \in Users, NEW q \in Requests, NEW d \in {"approved", "rejected"},
             CheckDecision(u, q, d)
         PROVE  Decisions'
    BY <1>17, <1>a DEF Decisions, Linked, TypeOK, CheckDecision
  <1>18. ASSUME NEW u \in Users, SaveApprovalDecision(u)
         PROVE  Decisions'
    BY <1>18, <1>a DEF Decisions, Linked, TypeOK, SaveApprovalDecision
  <1>19. ASSUME NEW u \in Users, DecideRun(u)
         PROVE  Decisions'
    BY <1>19, <1>a DEF Decisions, Linked, TypeOK, DecideRun, AwaitsDecision, Outcome, DropLease, EndCall
  <1>20. ASSUME NEW u \in Users, AbandonDecision(u)
         PROVE  Decisions'
    BY <1>20, <1>a DEF Decisions, Linked, TypeOK, AbandonDecision, EndCall
  <1>21. CASE UNCHANGED vars
    BY <1>21, <1>a DEF Decisions, Linked, TypeOK, vars
  <1>22. QED
    BY <1>1, <1>2, <1>3, <1>4, <1>5, <1>6, <1>7, <1>8, <1>9, <1>10,
       <1>11, <1>12, <1>13, <1>14, <1>15, <1>16, <1>17, <1>18, <1>19, <1>20, <1>21
       DEF Next, WorkerStep

-----------------------------------------------------------------------------
(* The gate *)

\* Calm in hindsight is calm before; then the one worker of the run moves alone.
LEMMA AloneStep ==
  ASSUME GateInv, [Next]_vars, NEW r \in Runs, Calm(r)'
  PROVE  Alone(r)'
  <1> USE NoneIsFresh DEF runVars, requestVars, workerVars, handlerVars, history, Active, Working
  <1>a. TypeOK /\ LeaseConsistent /\ Holding /\ Linked /\ Decisions
    BY DEF GateInv, IInv
  <1>b. Calm(r) => Alone(r)
    BY DEF GateInv
  <1>1. ASSUME NEW s \in Runs, Submit(s)
        PROVE  Alone(r)'
    BY <1>1, <1>a, <1>b DEF Alone, Calm, Linked, TypeOK, LeaseConsistent, Holding, Submit
  <1>2. ASSUME NEW s \in Runs, Cancel(s)
        PROVE  Alone(r)'
    BY <1>2, <1>a, <1>b DEF Alone, Calm, Linked, TypeOK, LeaseConsistent, Holding, Cancel, DropLease
  <1>3. ASSUME NEW s \in Runs, Retry(s)
        PROVE  Alone(r)'
    <2>1. s # r /\ Calm(r)
      BY <1>3, <1>a DEF Retry, Calm, TypeOK
    <2>2. QED
      BY <1>3, <1>a, <1>b, <2>1 DEF Alone, Calm, TypeOK, Retry, DropLease
  <1>4. ASSUME NEW s \in Runs, Expire(s)
        PROVE  Alone(r)'
    BY <1>4, <1>a, <1>b DEF Alone, Calm, Linked, TypeOK, LeaseConsistent, Holding, Expire
  <1>5. CASE RecoverExpiredLeases
    <2>1. interrupted'[r] = interrupted[r] \cup {"lease" : x \in {y \in Runs : Recoverable(y)} \cap {r}}
      BY <1>5, <1>a DEF RecoverExpiredLeases, TypeOK
    <2>2. ~Recoverable(r) /\ Calm(r)
      BY <2>1 DEF Calm
    <2>3. state'[r] = state[r] /\ UNCHANGED <<checkpoint, requestRun, pc, job, call, executed>>
      BY <1>5, <1>a, <2>2 DEF RecoverExpiredLeases, TypeOK
    <2>4. QED
      BY <1>b, <2>2, <2>3 DEF Alone
  <1>6. ASSUME NEW w \in Workers, StartRunning(w)
        PROVE  Alone(r)'
    BY <1>6, <1>a, <1>b DEF Alone, Calm, Linked, TypeOK, LeaseConsistent, Holding, StartRunning, OwnsLease
  <1>7. ASSUME NEW w \in Workers, Resume(w)
        PROVE  Alone(r)'
    BY <1>7, <1>a, <1>b DEF Alone, Calm, Linked, TypeOK, LeaseConsistent, Holding, Resume
  <1>8. ASSUME NEW w \in Workers, Complete(w)
        PROVE  Alone(r)'
    BY <1>8, <1>a, <1>b DEF Alone, Calm, Linked, TypeOK, LeaseConsistent, Holding, Complete, OwnsLease, DropLease, Rest
  <1>9. ASSUME NEW w \in Workers, NEW p \in Requests, Propose(w, p)
        PROVE  Alone(r)'
    BY <1>9, <1>a, <1>b DEF Alone, Calm, Linked, TypeOK, LeaseConsistent, Holding, Propose, ProposedState
  <1>10. ASSUME NEW w \in Workers, SaveMessages(w)
         PROVE  Alone(r)'
    BY <1>10, <1>a, <1>b DEF Alone, Calm, Linked, TypeOK, LeaseConsistent, Holding, SaveMessages, OwnsLease
  <1>11. ASSUME NEW w \in Workers, Pause(w)
         PROVE  Alone(r)'
    BY <1>11, <1>a, <1>b DEF Alone, Calm, Linked, TypeOK, LeaseConsistent, Holding, Pause, OwnsLease, Rest
  <1>12. ASSUME NEW w \in Workers, Fail(w)
         PROVE  Alone(r)'
    BY <1>12, <1>a, <1>b DEF Alone, Calm, Linked, TypeOK, LeaseConsistent, Holding, Fail, OwnsLease, FailedState, DropLease, Rest
  <1>13. ASSUME NEW w \in Workers, GiveUp(w)
         PROVE  Alone(r)'
    BY <1>13, <1>a, <1>b DEF Alone, Calm, Linked, TypeOK, LeaseConsistent, Holding, GiveUp, Rest
  <1>14. ASSUME NEW w \in Workers, Crash(w)
         PROVE  Alone(r)'
    BY <1>14, <1>a, <1>b DEF Alone, Calm, Linked, TypeOK, LeaseConsistent, Holding, Crash
  <1>15. ASSUME NEW w \in Workers, Heartbeat(w)
         PROVE  Alone(r)'
    BY <1>15, <1>a, <1>b DEF Alone, Calm, Linked, TypeOK, LeaseConsistent, Holding, Heartbeat, OwnsLease
  <1>16. ASSUME NEW w \in Workers, NEW s \in Runs, Claim(w, s)
         PROVE  Alone(r)'
    <2>1. Calm(r) /\ (s = r => state[r] = "queued")
      BY <1>16, <1>a DEF Claim, Claimable, Calm, TypeOK
    <2>2. Alone(r)
      BY <1>b, <2>1
    <2>3. CASE s # r
      BY <1>16, <1>a, <2>2, <2>3 DEF Alone, TypeOK, Holding, Claim
    <2>4. CASE s = r
      <3>1. \A v \in Workers : job[v] # r
        BY <2>1, <2>2, <2>4 DEF Alone
      <3>2. QED
        BY <1>16, <1>a, <2>1, <2>2, <2>4, <3>1 DEF Alone, Linked, TypeOK, Claim
    <2>5. QED
      BY <2>3, <2>4
  <1>17. ASSUME NEW u \in Users, NEW p \in Requests, NEW d \in {"approved", "rejected"},
             CheckDecision(u, p, d)
         PROVE  Alone(r)'
    BY <1>17, <1>a, <1>b DEF Alone, Calm, Linked, TypeOK, LeaseConsistent, Holding, CheckDecision
  <1>18. ASSUME NEW u \in Users, SaveApprovalDecision(u)
         PROVE  Alone(r)'
    BY <1>18, <1>a, <1>b DEF Alone, Calm, Linked, TypeOK, LeaseConsistent, Holding, SaveApprovalDecision, Decisions
  <1>19. ASSUME NEW u \in Users, DecideRun(u)
         PROVE  Alone(r)'
    BY <1>19, <1>a, <1>b DEF Alone, Calm, Linked, TypeOK, LeaseConsistent, Holding, DecideRun, AwaitsDecision, Outcome, DropLease, EndCall
  <1>20. ASSUME NEW u \in Users, AbandonDecision(u)
         PROVE  Alone(r)'
    BY <1>20, <1>a, <1>b DEF Alone, Calm, Linked, TypeOK, LeaseConsistent, Holding, AbandonDecision, EndCall
  <1>21. CASE UNCHANGED vars
    BY <1>21, <1>a, <1>b DEF Alone, Calm, Linked, TypeOK, LeaseConsistent, Holding, vars
  <1>22. QED
    BY <1>1, <1>2, <1>3, <1>4, <1>5, <1>6, <1>7, <1>8, <1>9, <1>10,
       <1>11, <1>12, <1>13, <1>14, <1>15, <1>16, <1>17, <1>18, <1>19, <1>20, <1>21
       DEF Next, WorkerStep

\* Undisturbed in hindsight is undisturbed before; then a request becomes live when
\* the worker proposes it and stays the only one until its decision moves the run.
LEMMA GatedStep ==
  ASSUME GateInv, [Next]_vars, NEW r \in Runs, interrupted'[r] = {}
  PROVE  Gated(r)'
  <1> USE NoneIsFresh DEF runVars, requestVars, workerVars, handlerVars, history, Active, Working
  <1>a. TypeOK /\ LeaseConsistent /\ Holding /\ Linked /\ Decisions
    BY DEF GateInv, IInv
  <1>b. interrupted[r] = {} => Gated(r) /\ Alone(r)
    BY DEF GateInv, Calm
  <1>1. ASSUME NEW s \in Runs, Submit(s)
        PROVE  Gated(r)'
    BY <1>1, <1>a, <1>b DEF Gated, Live, Alone, Linked, TypeOK, Holding, Submit
  <1>2. ASSUME NEW s \in Runs, Cancel(s)
        PROVE  Gated(r)'
    BY <1>2, <1>a, <1>b DEF Gated, Live, Alone, Linked, TypeOK, Holding, Cancel, DropLease
  <1>3. ASSUME NEW s \in Runs, Retry(s)
        PROVE  Gated(r)'
    <2>1. s # r /\ interrupted[r] = {}
      BY <1>3, <1>a DEF Retry, TypeOK
    <2>2. QED
      BY <1>3, <1>a, <1>b, <2>1 DEF Gated, Live, TypeOK, Retry, DropLease
  <1>4. ASSUME NEW s \in Runs, Expire(s)
        PROVE  Gated(r)'
    BY <1>4, <1>a, <1>b DEF Gated, Live, Alone, Linked, TypeOK, Holding, Expire
  <1>5. CASE RecoverExpiredLeases
    BY <1>5, <1>a, <1>b DEF Gated, Live, Alone, Linked, TypeOK, Holding, RecoverExpiredLeases, Recoverable
  <1>6. ASSUME NEW w \in Workers, StartRunning(w)
        PROVE  Gated(r)'
    BY <1>6, <1>a, <1>b DEF Gated, Live, Alone, Linked, TypeOK, Holding, StartRunning, OwnsLease
  <1>7. ASSUME NEW w \in Workers, Resume(w)
        PROVE  Gated(r)'
    BY <1>7, <1>a, <1>b DEF Gated, Live, Alone, Linked, TypeOK, Holding, Resume
  <1>8. ASSUME NEW w \in Workers, Complete(w)
        PROVE  Gated(r)'
    BY <1>8, <1>a, <1>b DEF Gated, Live, Alone, Linked, TypeOK, Holding, Complete, OwnsLease, DropLease, Rest
  <1>9. ASSUME NEW w \in Workers, NEW p \in Requests, Propose(w, p)
        PROVE  Gated(r)'
    <2>1. /\ decision' = [decision EXCEPT ![p] = "pending"]
          /\ requestRun' = [requestRun EXCEPT ![p] = job[w]]
          /\ pc' = [pc EXCEPT ![w] = "proposed"]
          /\ call' = [call EXCEPT ![w] = p]
          /\ UNCHANGED <<state, checkpoint, job, handler, handled, executed, approvers, interrupted>>
      BY <1>9 DEF Propose, ProposedState
    <2>2. pc[w] = "thinking" /\ decision[p] = "absent" /\ requestRun[p] = None /\ job[w] \in Runs
      BY <1>9, <1>a DEF Propose, Linked, TypeOK, Holding, Working
    <2>3. Gated(r) /\ Alone(r)
      BY <1>b, <2>1
    <2>4. /\ \A q \in Requests : checkpoint[r] = q => q # p
          /\ \A v \in Workers : call[v] # p
          /\ \A u \in Users : handler[u] = "recorded" => handled[u] # p /\ handled[u] \in Requests
      BY <1>a, <2>2 DEF Linked, Decisions, TypeOK
    <2>5. CASE job[w] # r
      BY <1>a, <2>1, <2>2, <2>3, <2>4, <2>5 DEF Gated, Live, TypeOK
    <2>6. CASE job[w] = r
      <3>1. \A q \in Requests : requestRun[q] = r => ~Live(q)
        BY <2>2, <2>3, <2>6 DEF Gated
      <3>2. \A q \in Requests : requestRun'[q] = r /\ Live(q)' => q = p
        BY <1>a, <2>1, <3>1 DEF Live, TypeOK
      <3>3. /\ state[r] \in {"running", "cancelled"}
            /\ \A v \in Workers : job[v] = r => v = w
        BY <2>2, <2>3, <2>6 DEF Alone
      <3>4. QED
        BY <1>a, <2>1, <2>2, <2>3, <2>4, <2>6, <3>2, <3>3 DEF Gated, Linked, TypeOK
    <2>7. QED
      BY <2>5, <2>6
  <1>10. ASSUME NEW w \in Workers, SaveMessages(w)
         PROVE  Gated(r)'
    BY <1>10, <1>a, <1>b DEF Gated, Live, Alone, Linked, TypeOK, Holding, SaveMessages, OwnsLease
  <1>11. ASSUME NEW w \in Workers, Pause(w)
         PROVE  Gated(r)'
    BY <1>11, <1>a, <1>b DEF Gated, Live, Alone, Linked, TypeOK, Holding, Pause, OwnsLease, Rest
  <1>12. ASSUME NEW w \in Workers, Fail(w)
         PROVE  Gated(r)'
    BY <1>12, <1>a, <1>b DEF Gated, Live, Alone, Linked, TypeOK, Holding, Fail, OwnsLease, FailedState, DropLease, Rest
  <1>13. ASSUME NEW w \in Workers, GiveUp(w)
         PROVE  Gated(r)'
    BY <1>13, <1>a, <1>b DEF Gated, Live, Alone, Linked, TypeOK, Holding, GiveUp, Rest
  <1>14. ASSUME NEW w \in Workers, Crash(w)
         PROVE  Gated(r)'
    BY <1>14, <1>a, <1>b DEF Gated, Live, Alone, Linked, TypeOK, Holding, Crash
  <1>15. ASSUME NEW w \in Workers, Heartbeat(w)
         PROVE  Gated(r)'
    BY <1>15, <1>a, <1>b DEF Gated, Live, Alone, Linked, TypeOK, Holding, Heartbeat, OwnsLease
  <1>16. ASSUME NEW w \in Workers, NEW s \in Runs, Claim(w, s)
         PROVE  Gated(r)'
    <2>1. interrupted[r] = {} /\ (s = r => state[r] = "queued")
      BY <1>16, <1>a DEF Claim, Claimable, TypeOK
    <2>2. Gated(r) /\ Alone(r)
      BY <1>b, <2>1
    <2>3. CASE s # r
      BY <1>16, <1>a, <2>2, <2>3 DEF Gated, Live, TypeOK, Holding, Claim
    <2>4. CASE s = r
      <3>1. /\ \A v \in Workers : job[v] # r
            /\ \A q \in Requests : requestRun[q] = r => ~Live(q)
        BY <2>1, <2>2, <2>4 DEF Alone, Gated
      <3>2. QED
        BY <1>16, <1>a, <2>1, <2>2, <2>4, <3>1 DEF Gated, Live, TypeOK, Claim
    <2>5. QED
      BY <2>3, <2>4
  <1>17. ASSUME NEW u \in Users, NEW p \in Requests, NEW d \in {"approved", "rejected"},
             CheckDecision(u, p, d)
         PROVE  Gated(r)'
    BY <1>17, <1>a, <1>b DEF Gated, Live, Alone, Linked, TypeOK, Holding, CheckDecision, Decisions
  <1>18. ASSUME NEW u \in Users, SaveApprovalDecision(u)
         PROVE  Gated(r)'
    <2> DEFINE h == handled[u]
    <2>1. h \in Requests /\ requestRun[h] \in Runs
      BY <1>18, <1>a DEF SaveApprovalDecision, Decisions, Linked, TypeOK
    <2>2. /\ decision' = [decision EXCEPT ![h] = verdict[u]]
          /\ handler' = [handler EXCEPT ![u] = "recorded"]
          /\ \A q \in Requests : approvers[q] \subseteq approvers'[q]
          /\ UNCHANGED <<state, checkpoint, requestRun, pc, job, call, handled, executed>>
      BY <1>18, <1>a, <2>1 DEF SaveApprovalDecision, TypeOK
    <2>3. /\ interrupted[r] = {}
          /\ requestRun[h] = r => decision[h] = "pending"
      BY <1>18, <1>a, <2>1 DEF SaveApprovalDecision, TypeOK
    <2>4. Gated(r) /\ Alone(r)
      BY <1>b, <2>3
    <2>5. \A q \in Requests : requestRun[q] = r /\ Live(q)' => Live(q)
      BY <1>a, <2>1, <2>2, <2>3 DEF Live, TypeOK
    <2>6. \A v \in Users :
            handler[v] = "recorded" /\ requestRun[handled[v]] = r => handled[v] # h
      BY <1>a, <2>1, <2>3 DEF Decisions
    <2>7. QED
      BY <1>a, <2>1, <2>2, <2>3, <2>4, <2>5, <2>6 DEF Gated, Linked, TypeOK
  <1>19. ASSUME NEW u \in Users, DecideRun(u)
         PROVE  Gated(r)'
    BY <1>19, <1>a, <1>b DEF Gated, Live, Alone, Linked, TypeOK, Holding, DecideRun, AwaitsDecision, Outcome, DropLease, EndCall, Decisions
  <1>20. ASSUME NEW u \in Users, AbandonDecision(u)
         PROVE  Gated(r)'
    BY <1>20, <1>a, <1>b DEF Gated, Live, Alone, Linked, TypeOK, Holding, AbandonDecision, EndCall, Decisions
  <1>21. CASE UNCHANGED vars
    BY <1>21, <1>a, <1>b DEF Gated, Live, Alone, Linked, TypeOK, Holding, vars
  <1>22. QED
    BY <1>1, <1>2, <1>3, <1>4, <1>5, <1>6, <1>7, <1>8, <1>9, <1>10,
       <1>11, <1>12, <1>13, <1>14, <1>15, <1>16, <1>17, <1>18, <1>19, <1>20, <1>21
       DEF Next, WorkerStep

\* The strengthening is inductive.
LEMMA GateInductive == Spec => []GateInv
  <1>1. Init => GateInv
    <2> SUFFICES ASSUME Init PROVE GateInv
      OBVIOUS
    <2> USE NoneIsFresh DEF Init
    <2>1. IInv
      BY InitInv
    <2>2. Linked /\ Decisions
      BY DEF Linked, Decisions
    <2>3. \A r \in Runs : Alone(r) /\ Gated(r)
      BY DEF Alone, Gated, Live
    <2>4. QED
      BY <2>1, <2>2, <2>3 DEF GateInv
  <1>2. GateInv /\ [Next]_vars => GateInv'
    <2> SUFFICES ASSUME GateInv, [Next]_vars PROVE GateInv'
      OBVIOUS
    <2>1. IInv'
      BY StepInv DEF GateInv
    <2>2. Linked' /\ Decisions'
      BY LinkedStep, DecisionsStep DEF GateInv
    <2>3. \A r \in Runs : Calm(r)' => Alone(r)'
      BY AloneStep
    <2>4. \A r \in Runs : interrupted'[r] = {} => Gated(r)'
      BY GatedStep
    <2>5. QED
      BY <2>1, <2>2, <2>3, <2>4 DEF GateInv
  <1>3. QED
    BY <1>1, <1>2, PTL DEF Spec

\* A tool call is carried out at most once unless its run lost a lease or was
\* retried, however decisions race with each other and with the worker.
THEOREM OnceCorrect == Spec => []OnceUnlessInterrupted
  <1>1. GateInv => OnceUnlessInterrupted
    <2> SUFFICES ASSUME GateInv, NEW q \in Requests, executed[q] > 1
                 PROVE  ~Calm(requestRun[q])
      BY DEF OnceUnlessInterrupted, Calm
    <2>1. executed[q] \in Nat /\ requestRun[q] \in Runs
      BY DEF GateInv, IInv, TypeOK, Linked
    <2>2. QED
      BY <2>1 DEF GateInv, Alone
  <1>2. QED
    BY <1>1, GateInductive, PTL

\* The gate: the tool call of an undisturbed run is carried out only after somebody
\* other than the account it acts for approved that very call.
THEOREM GateCorrect == Spec => []ApprovedBeforeExecuted
  <1>1. GateInv => ApprovedBeforeExecuted
    <2> SUFFICES ASSUME GateInv, NEW q \in Requests, executed[q] > 0,
                        interrupted[requestRun[q]] = {}
                 PROVE  approvers[q] \ {RequesterOf[requestRun[q]]} # {}
      BY DEF ApprovedBeforeExecuted
    <2>1. executed[q] \in Nat /\ requestRun[q] \in Runs /\ requestRun[q] # None
      BY NoneIsFresh DEF GateInv, IInv, TypeOK, Linked
    <2>2. approvers[q] # {}
      BY <2>1 DEF GateInv, Gated
    <2>3. RequesterOf[requestRun[q]] \notin approvers[q]
      BY <2>1 DEF GateInv, Decisions
    <2>4. QED
      BY <2>2, <2>3
  <1>2. QED
    BY <1>1, GateInductive, PTL

=============================================================================
