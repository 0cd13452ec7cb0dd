-------------------------- MODULE DurabilityProofs --------------------------
(***************************************************************************)
(* Theorems about Durability, for any calls, keys, bodies and relays, any  *)
(* attempt limit and any number of rollbacks.                              *)
(***************************************************************************)
EXTENDS Durability, TLAPS

-----------------------------------------------------------------------------
(* The inductive invariant *)

\* Two transactions under one key never both have the record inserted.
Single ==
  \A c, d \in Calls :
    /\ pc[c] \in {"inserted", "committed"}
    /\ pc[d] \in {"inserted", "committed"}
    /\ KeyOf[c] = KeyOf[d]
    => c = d

\* An open or committed transaction carries a body its call may carry; only a call
\* that is over has been answered, by the effect under its key.
Answered ==
  \A c \in Calls :
    /\ pc[c] \in InTransaction \cup {"committed"} => body[c] \in BodiesOf[c]
    /\ pc[c] = "idle" => body[c] = None
    /\ pc[c] = "committed" => reply[c] = c
    /\ reply[c] # None =>
         /\ pc[c] \in {"committed", "ended"}
         /\ pc[reply[c]] = "committed"
         /\ KeyOf[reply[c]] = KeyOf[c] /\ body[reply[c]] = body[c]

\* A locked event is due and has one holder; the sink is called under a lock only.
Locks ==
  \A r \in Relays :
    /\ holds[r] # None => Open(holds[r]) /\ \A s \in Relays : holds[s] = holds[r] => s = r
    /\ sink[r] # "uncalled" => holds[r] # None

Called(c) == \E r \in Relays : holds[r] = c /\ sink[r] # "uncalled"
Accepted(c) == \E r \in Relays : holds[r] = c /\ sink[r] = "accepted"

\* What the columns of an event say of the calls of the sink, counted or not.
Counts(c) ==
  /\ pc[c] # "committed" =>
       /\ status[c] = "pending"
       /\ tries[c] = 0 /\ received[c] = 0
  /\ status[c] = "pending" => attempt[c] = 0 /\ retryAt[c] = "null"
  /\ status[c] = "failed" =>
       /\ attempt[c] > 0
       /\ retryAt[c] = "null" => attempt[c] >= MaxAttempts
       /\ retryAt[c] # "null" => attempt[c] < MaxAttempts
  /\ status[c] = "delivered" => attempt[c] > 0 /\ received[c] > 0 /\ retryAt[c] = "null"
  /\ attempt[c] <= MaxAttempts
  /\ attempt[c] <= tries[c] /\ received[c] <= tries[c]
  /\ Called(c) => attempt[c] < tries[c]
  /\ Accepted(c) => received[c] > 0
  /\ tries[c] <= attempt[c] + rollbacks[c] + 1
  /\ ~Called(c) => tries[c] <= attempt[c] + rollbacks[c]
  /\ received[c] <= rollbacks[c] + 1
  /\ ~Accepted(c) /\ status[c] # "delivered" => received[c] <= rollbacks[c]

\* Once an event has been taken, every earlier one has had its turn, is having it,
\* or was committed too late for it.
Ordered ==
  \A c, d \in Calls :
    /\ pc[c] = "committed" /\ occurred[c] < occurred[d] /\ Taken(d)
    => tries[c] > 0 \/ rollbacks[c] > 0 \/ late[c] \/ ~Unlocked(c)

IInv ==
  /\ TypeOK
  /\ Single
  /\ Answered
  /\ Locks
  /\ \A c \in Calls : Counts(c)
  /\ Ordered

\* Every step keeps the types.
LEMMA TypeStep ==
  TypeOK /\ [Next]_vars => TypeOK'
  <1> SUFFICES ASSUME TypeOK, [Next]_vars PROVE TypeOK'
    OBVIOUS
  <1> USE ConstantsAssumption DEF callVars, eventVars, relayVars, history
  <1>1. ASSUME NEW x \in Calls, NEW b \in BodiesOf[x], LookUp(x, b)
        PROVE  TypeOK'
    BY <1>1 DEF TypeOK, InTransaction, Statuses, LookUp, Recorded, Siblings
  <1>2. ASSUME NEW x \in Calls, NEW b \in BodiesOf[x], Replay(x, b)
        PROVE  TypeOK'
    BY <1>2 DEF TypeOK, InTransaction, Statuses, Replay, Recorded, Siblings, SameBody, Refuse
  <1>3. ASSUME NEW x \in Calls, RunFunction(x)
        PROVE  TypeOK'
    BY <1>3 DEF TypeOK, InTransaction, Statuses, RunFunction
  <1>4. ASSUME NEW x \in Calls, InsertRecord(x)
        PROVE  TypeOK'
    BY <1>4 DEF TypeOK, InTransaction, Statuses, InsertRecord, KeyFree, Recorded, Siblings, Refuse
  <1>5. ASSUME NEW x \in Calls, Commit(x)
        PROVE  TypeOK'
    BY <1>5 DEF TypeOK, InTransaction, Statuses, Commit
  <1>6. ASSUME NEW x \in Calls, Rollback(x)
        PROVE  TypeOK'
    BY <1>6 DEF TypeOK, InTransaction, Statuses, Rollback, Refuse
  <1>7. ASSUME NEW x \in Calls, BackoffEnds(x)
        PROVE  TypeOK'
    BY <1>7 DEF TypeOK, InTransaction, Statuses, BackoffEnds
  <1>8. ASSUME NEW r \in Relays, Deliver(r)
        PROVE  TypeOK'
    BY <1>8 DEF TypeOK, InTransaction, Statuses, Deliver
  <1>9. ASSUME NEW r \in Relays, MarkFailed(r)
        PROVE  TypeOK'
    BY <1>9 DEF TypeOK, InTransaction, Statuses, MarkFailed, Release, NextRetry
  <1>10. ASSUME NEW r \in Relays, MarkDelivered(r)
         PROVE  TypeOK'
    BY <1>10 DEF TypeOK, InTransaction, Statuses, MarkDelivered, Release
  <1>11. ASSUME NEW r \in Relays, RelayRollback(r)
         PROVE  TypeOK'
    BY <1>11 DEF TypeOK, InTransaction, Statuses, RelayRollback, Release
  <1>12. ASSUME NEW r \in Relays, NEW x \in Calls, Take(r, x)
         PROVE  TypeOK'
    BY <1>12 DEF TypeOK, InTransaction, Statuses, Take, Age
  <1>13. CASE UNCHANGED vars
    BY <1>13 DEF TypeOK, InTransaction, Statuses, vars
  <1>14. QED
    BY <1>1, <1>2, <1>3, <1>4, <1>5, <1>6, <1>7, <1>8, <1>9, <1>10, <1>11, <1>12, <1>13
       DEF Next, ProcessStep, RelayStep

\* Every reachable state is well typed.
THEOREM TypeCorrect == Spec => []TypeOK
  <1>1. Init => TypeOK
    BY DEF Init, TypeOK, InTransaction, Statuses
  <1>2. TypeOK /\ [Next]_vars => TypeOK'
    BY TypeStep
  <1>3. QED
    BY <1>1, <1>2, PTL DEF Spec

\* The unique index lets one transaction under a key through.
LEMMA SingleStep ==
  TypeOK /\ Single /\ [Next]_vars => Single'
  <1> SUFFICES ASSUME TypeOK, Single, [Next]_vars PROVE Single'
    OBVIOUS
  <1> USE ConstantsAssumption DEF callVars, eventVars, relayVars, history
  <1>1. ASSUME NEW x \in Calls, NEW b \in BodiesOf[x], LookUp(x, b)
        PROVE  Single'
    BY <1>1 DEF TypeOK, InTransaction, Statuses, Single, LookUp, Recorded, Siblings
  <1>2. ASSUME NEW x \in Calls, NEW b \in BodiesOf[x], Replay(x, b)
        PROVE  Single'
    BY <1>2 DEF TypeOK, InTransaction, Statuses, Single, Replay, Recorded, Siblings, SameBody, Refuse
  <1>3. ASSUME NEW x \in Calls, RunFunction(x)
        PROVE  Single'
    BY <1>3 DEF TypeOK, InTransaction, Statuses, Single, RunFunction
  <1>4. ASSUME NEW x \in Calls, InsertRecord(x)
        PROVE  Single'
    BY <1>4 DEF TypeOK, InTransaction, Statuses, Single, InsertRecord, KeyFree, Recorded, Siblings, Refuse
  <1>5. ASSUME NEW x \in Calls, Commit(x)
        PROVE  Single'
    BY <1>5 DEF TypeOK, InTransaction, Statuses, Single, Commit
  <1>6. ASSUME NEW x \in Calls, Rollback(x)
        PROVE  Single'
    BY <1>6 DEF TypeOK, InTransaction, Statuses, Single, Rollback, Refuse
  <1>7. ASSUME NEW x \in Calls, BackoffEnds(x)
        PROVE  Single'
    BY <1>7 DEF TypeOK, InTransaction, Statuses, Single, BackoffEnds
  <1>8. ASSUME NEW r \in Relays, Deliver(r)
        PROVE  Single'
    BY <1>8 DEF TypeOK, InTransaction, Statuses, Single, Deliver
  <1>9. ASSUME NEW r \in Relays, MarkFailed(r)
        PROVE  Single'
    BY <1>9 DEF TypeOK, InTransaction, Statuses, Single, MarkFailed, Release, NextRetry
  <1>10. ASSUME NEW r \in Relays, MarkDelivered(r)
         PROVE  Single'
    BY <1>10 DEF TypeOK, InTransaction, Statuses, Single, MarkDelivered, Release
  <1>11. ASSUME NEW r \in Relays, RelayRollback(r)
         PROVE  Single'
    BY <1>11 DEF TypeOK, InTransaction, Statuses, Single, RelayRollback, Release
  <1>12. ASSUME NEW r \in Relays, NEW x \in Calls, Take(r, x)
         PROVE  Single'
    BY <1>12 DEF TypeOK, InTransaction, Statuses, Single, Take, Age
  <1>13. CASE UNCHANGED vars
    BY <1>13 DEF TypeOK, InTransaction, Statuses, Single, vars
  <1>14. QED
    BY <1>1, <1>2, <1>3, <1>4, <1>5, <1>6, <1>7, <1>8, <1>9, <1>10, <1>11, <1>12, <1>13
       DEF Next, ProcessStep, RelayStep

\* Records that answers refer to are never changed.
LEMMA AnsweredStep ==
  TypeOK /\ Single /\ Answered /\ [Next]_vars => Answered'
  <1> SUFFICES ASSUME TypeOK, Single, Answered, [Next]_vars PROVE Answered'
    OBVIOUS
  <1> USE ConstantsAssumption DEF callVars, eventVars, relayVars, history
  <1>1. ASSUME NEW x \in Calls, NEW b \in BodiesOf[x], LookUp(x, b)
        PROVE  Answered'
    BY <1>1 DEF TypeOK, InTransaction, Statuses, Answered, LookUp, Recorded, Siblings
  <1>2. ASSUME NEW x \in Calls, NEW b \in BodiesOf[x], Replay(x, b)
        PROVE  Answered'
    BY <1>2 DEF TypeOK, InTransaction, Statuses, Answered, Replay, Recorded, Siblings, SameBody, Refuse
  <1>3. ASSUME NEW x \in Calls, RunFunction(x)
        PROVE  Answered'
    BY <1>3 DEF TypeOK, InTransaction, Statuses, Answered, RunFunction
  <1>4. ASSUME NEW x \in Calls, InsertRecord(x)
        PROVE  Answered'
    BY <1>4 DEF TypeOK, InTransaction, Statuses, Answered, InsertRecord, KeyFree, Recorded, Siblings, Refuse
  <1>5. ASSUME NEW x \in Calls, Commit(x)
        PROVE  Answered'
    BY <1>5 DEF TypeOK, InTransaction, Statuses, Answered, Commit
  <1>6. ASSUME NEW x \in Calls, Rollback(x)
        PROVE  Answered'
    BY <1>6 DEF TypeOK, InTransaction, Statuses, Answered, Rollback, Refuse
  <1>7. ASSUME NEW x \in Calls, BackoffEnds(x)
        PROVE  Answered'
    BY <1>7 DEF TypeOK, InTransaction, Statuses, Answered, BackoffEnds
  <1>8. ASSUME NEW r \in Relays, Deliver(r)
        PROVE  Answered'
    BY <1>8 DEF TypeOK, InTransaction, Statuses, Answered, Deliver
  <1>9. ASSUME NEW r \in Relays, MarkFailed(r)
        PROVE  Answered'
    BY <1>9 DEF TypeOK, InTransaction, Statuses, Answered, MarkFailed, Release, NextRetry
  <1>10. ASSUME NEW r \in Relays, MarkDelivered(r)
         PROVE  Answered'
    BY <1>10 DEF TypeOK, InTransaction, Statuses, Answered, MarkDelivered, Release
  <1>11. ASSUME NEW r \in Relays, RelayRollback(r)
         PROVE  Answered'
    BY <1>11 DEF TypeOK, InTransaction, Statuses, Answered, RelayRollback, Release
  <1>12. ASSUME NEW r \in Relays, NEW x \in Calls, Take(r, x)
         PROVE  Answered'
    BY <1>12 DEF TypeOK, InTransaction, Statuses, Answered, Take, Age
  <1>13. CASE UNCHANGED vars
    BY <1>13 DEF TypeOK, InTransaction, Statuses, Answered, vars
  <1>14. QED
    BY <1>1, <1>2, <1>3, <1>4, <1>5, <1>6, <1>7, <1>8, <1>9, <1>10, <1>11, <1>12, <1>13
       DEF Next, ProcessStep, RelayStep

\* Only its holder moves a locked event on.
LEMMA LocksStep ==
  IInv /\ [Next]_vars => Locks'
  <1> SUFFICES ASSUME IInv, [Next]_vars PROVE Locks'
    OBVIOUS
  <1> USE ConstantsAssumption DEF callVars, eventVars, relayVars, history
  <1>a. TypeOK /\ Locks
    BY DEF IInv
  <1>1. ASSUME NEW x \in Calls, NEW b \in BodiesOf[x], LookUp(x, b)
        PROVE  Locks'
    BY <1>1, <1>a DEF TypeOK, InTransaction, Statuses, Locks, Open, Visible, Unlocked, LookUp, Recorded, Siblings
  <1>2. ASSUME NEW x \in Calls, NEW b \in BodiesOf[x], Replay(x, b)
        PROVE  Locks'
    BY <1>2, <1>a DEF TypeOK, InTransaction, Statuses, Locks, Open, Visible, Unlocked, Replay, Recorded, Siblings, SameBody, Refuse
  <1>3. ASSUME NEW x \in Calls, RunFunction(x)
        PROVE  Locks'
    BY <1>3, <1>a DEF TypeOK, InTransaction, Statuses, Locks, Open, Visible, Unlocked, RunFunction
  <1>4. ASSUME NEW x \in Calls, InsertRecord(x)
        PROVE  Locks'
    BY <1>4, <1>a DEF TypeOK, InTransaction, Statuses, Locks, Open, Visible, Unlocked, InsertRecord, KeyFree, Recorded, Siblings, Refuse
  <1>5. ASSUME NEW x \in Calls, Commit(x)
        PROVE  Locks'
    BY <1>5, <1>a DEF TypeOK, InTransaction, Statuses, Locks, Open, Visible, Unlocked, Commit
  <1>6. ASSUME NEW x \in Calls, Rollback(x)
        PROVE  Locks'
    BY <1>6, <1>a DEF TypeOK, InTransaction, Statuses, Locks, Open, Visible, Unlocked, Rollback, Refuse
  <1>7. ASSUME NEW x \in Calls, BackoffEnds(x)
        PROVE  Locks'
    BY <1>7, <1>a DEF TypeOK, InTransaction, Statuses, Locks, Open, Visible, Unlocked, BackoffEnds
  <1>8. ASSUME NEW r \in Relays, Deliver(r)
        PROVE  Locks'
    BY <1>8, <1>a DEF TypeOK, InTransaction, Statuses, Locks, Open, Visible, Unlocked, Deliver
  <1>9. ASSUME NEW r \in Relays, MarkFailed(r)
        PROVE  Locks'
    BY <1>9, <1>a DEF TypeOK, InTransaction, Statuses, Locks, Open, Visible, Unlocked, MarkFailed, Release, NextRetry
  <1>10. ASSUME NEW r \in Relays, MarkDelivered(r)
         PROVE  Locks'
    BY <1>10, <1>a DEF TypeOK, InTransaction, Statuses, Locks, Open, Visible, Unlocked, MarkDelivered, Release
  <1>11. ASSUME NEW r \in Relays, RelayRollback(r)
         PROVE  Locks'
    BY <1>11, <1>a DEF TypeOK, InTransaction, Statuses, Locks, Open, Visible, Unlocked, RelayRollback, Release
  <1>12. ASSUME NEW r \in Relays, NEW x \in Calls, Take(r, x)
         PROVE  Locks'
    BY <1>12, <1>a DEF TypeOK, InTransaction, Statuses, Locks, Open, Visible, Unlocked, Take, Age
  <1>13. CASE UNCHANGED vars
    BY <1>13, <1>a DEF TypeOK, InTransaction, Statuses, Locks, Open, Visible, Unlocked, vars
  <1>14. QED
    BY <1>1, <1>2, <1>3, <1>4, <1>5, <1>6, <1>7, <1>8, <1>9, <1>10, <1>11, <1>12, <1>13
       DEF Next, ProcessStep, RelayStep

\* A transaction that ends counts its call of the sink or a rollback.
LEMMA CountsStep ==
  IInv /\ [Next]_vars => \A c \in Calls : Counts(c)'
  <1> SUFFICES ASSUME IInv, [Next]_vars, NEW c \in Calls
               PROVE  Counts(c)'
    OBVIOUS
  <1> USE ConstantsAssumption DEF callVars, eventVars, relayVars, history
  <1>a. TypeOK /\ Locks /\ Counts(c)
    BY DEF IInv
  <1>1. ASSUME NEW x \in Calls, NEW b \in BodiesOf[x], LookUp(x, b)
        PROVE  Counts(c)'
    BY <1>1, <1>a DEF TypeOK, InTransaction, Statuses, Locks, Counts, Called, Accepted, Open, Visible, Unlocked, LookUp, Recorded, Siblings
  <1>2. ASSUME NEW x \in Calls, NEW b \in BodiesOf[x], Replay(x, b)
        PROVE  Counts(c)'
    BY <1>2, <1>a DEF TypeOK, InTransaction, Statuses, Locks, Counts, Called, Accepted, Open, Visible, Unlocked, Replay, Recorded, Siblings, SameBody, Refuse
  <1>3. ASSUME NEW x \in Calls, RunFunction(x)
        PROVE  Counts(c)'
    BY <1>3, <1>a DEF TypeOK, InTransaction, Statuses, Locks, Counts, Called, Accepted, Open, Visible, Unlocked, RunFunction
  <1>4. ASSUME NEW x \in Calls, InsertRecord(x)
        PROVE  Counts(c)'
    BY <1>4, <1>a DEF TypeOK, InTransaction, Statuses, Locks, Counts, Called, Accepted, Open, Visible, Unlocked, InsertRecord, KeyFree, Recorded, Siblings, Refuse
  <1>5. ASSUME NEW x \in Calls, Commit(x)
        PROVE  Counts(c)'
    BY <1>5, <1>a DEF TypeOK, InTransaction, Statuses, Locks, Counts, Called, Accepted, Open, Visible, Unlocked, Commit
  <1>6. ASSUME NEW x \in Calls, Rollback(x)
        PROVE  Counts(c)'
    BY <1>6, <1>a DEF TypeOK, InTransaction, Statuses, Locks, Counts, Called, Accepted, Open, Visible, Unlocked, Rollback, Refuse
  <1>7. ASSUME NEW x \in Calls, BackoffEnds(x)
        PROVE  Counts(c)'
    BY <1>7, <1>a DEF TypeOK, InTransaction, Statuses, Locks, Counts, Called, Accepted, Open, Visible, Unlocked, BackoffEnds
  <1>8. ASSUME NEW r \in Relays, Deliver(r)
        PROVE  Counts(c)'
    BY <1>8, <1>a DEF TypeOK, InTransaction, Statuses, Locks, Counts, Called, Accepted, Open, Visible, Unlocked, Deliver
  <1>9. ASSUME NEW r \in Relays, MarkFailed(r)
        PROVE  Counts(c)'
    BY <1>9, <1>a DEF TypeOK, InTransaction, Statuses, Locks, Counts, Called, Accepted, Open, Visible, Unlocked, MarkFailed, Release, NextRetry
  <1>10. ASSUME NEW r \in Relays, MarkDelivered(r)
         PROVE  Counts(c)'
    BY <1>10, <1>a DEF TypeOK, InTransaction, Statuses, Locks, Counts, Called, Accepted, Open, Visible, Unlocked, MarkDelivered, Release
  <1>11. ASSUME NEW r \in Relays, RelayRollback(r)
         PROVE  Counts(c)'
    BY <1>11, <1>a DEF TypeOK, InTransaction, Statuses, Locks, Counts, Called, Accepted, Open, Visible, Unlocked, RelayRollback, Release
  <1>12. ASSUME NEW r \in Relays, NEW x \in Calls, Take(r, x)
         PROVE  Counts(c)'
    BY <1>12, <1>a DEF TypeOK, InTransaction, Statuses, Locks, Counts, Called, Accepted, Open, Visible, Unlocked, Take, Age
  <1>13. CASE UNCHANGED vars
    BY <1>13, <1>a DEF TypeOK, InTransaction, Statuses, Locks, Counts, Called, Accepted, Open, Visible, Unlocked, vars
  <1>14. QED
    BY <1>1, <1>2, <1>3, <1>4, <1>5, <1>6, <1>7, <1>8, <1>9, <1>10, <1>11, <1>12, <1>13
       DEF Next, ProcessStep, RelayStep

\* Take picks the earliest event that is due, and what is not due has been tried.
LEMMA OrderedStep ==
  IInv /\ [Next]_vars => Ordered'
  <1> SUFFICES ASSUME IInv, [Next]_vars PROVE Ordered'
    OBVIOUS
  <1> USE ConstantsAssumption DEF callVars, eventVars, relayVars, history
  <1>a. TypeOK /\ Locks /\ Ordered /\ \A c \in Calls : Counts(c)
    BY DEF IInv
  <1>1. ASSUME NEW x \in Calls, NEW b \in BodiesOf[x], LookUp(x, b)
        PROVE  Ordered'
    BY <1>1, <1>a DEF TypeOK, InTransaction, Statuses, Locks, Ordered, Counts, Taken, Open, Visible, Unlocked, LookUp, Recorded, Siblings
  <1>2. ASSUME NEW x \in Calls, NEW b \in BodiesOf[x], Replay(x, b)
        PROVE  Ordered'
    <2>1. pc[x] = "idle" /\ UNCHANGED <<eventVars, relayVars, history>>
      BY <1>2 DEF Replay
    <2>2. pc' = [pc EXCEPT ![x] = "ended"]
      BY <1>2 DEF Replay, Refuse
    <2>3. occurred' = occurred \/ occurred' = [occurred EXCEPT ![x] = 0]
      BY <1>2 DEF Replay, Refuse
    <2>4. QED
      BY <1>a, <2>1, <2>2, <2>3
      DEF TypeOK, Locks, Ordered, Counts, Taken, Open, Visible, Unlocked
  <1>3. ASSUME NEW x \in Calls, RunFunction(x)
        PROVE  Ordered'
    BY <1>3, <1>a DEF TypeOK, InTransaction, Statuses, Locks, Ordered, Counts, Taken, Open, Visible, Unlocked, RunFunction
  <1>4. ASSUME NEW x \in Calls, InsertRecord(x)
        PROVE  Ordered'
    BY <1>4, <1>a DEF TypeOK, InTransaction, Statuses, Locks, Ordered, Counts, Taken, Open, Visible, Unlocked, InsertRecord, KeyFree, Recorded, Siblings, Refuse
  <1>5. ASSUME NEW x \in Calls, Commit(x)
        PROVE  Ordered'
    BY <1>5, <1>a DEF TypeOK, InTransaction, Statuses, Locks, Ordered, Counts, Taken, Open, Visible, Unlocked, Commit
  <1>6. ASSUME NEW x \in Calls, Rollback(x)
        PROVE  Ordered'
    BY <1>6, <1>a DEF TypeOK, InTransaction, Statuses, Locks, Ordered, Counts, Taken, Open, Visible, Unlocked, Rollback, Refuse
  <1>7. ASSUME NEW x \in Calls, BackoffEnds(x)
        PROVE  Ordered'
    BY <1>7, <1>a DEF TypeOK, InTransaction, Statuses, Locks, Ordered, Counts, Taken, Open, Visible, Unlocked, BackoffEnds
  <1>8. ASSUME NEW r \in Relays, Deliver(r)
        PROVE  Ordered'
    BY <1>8, <1>a DEF TypeOK, InTransaction, Statuses, Locks, Ordered, Counts, Taken, Open, Visible, Unlocked, Deliver
  <1>9. ASSUME NEW r \in Relays, MarkFailed(r)
        PROVE  Ordered'
    <2>1. holds[r] \in Calls /\ sink[r] # "uncalled" /\ holds' = [holds EXCEPT ![r] = None]
      BY <1>9, <1>a DEF TypeOK, MarkFailed, Release
    <2>2. tries[holds[r]] > 0
      BY <1>a, <2>1 DEF TypeOK, Counts, Called
    <2>3. UNCHANGED <<callVars, history>>
      BY <1>9 DEF MarkFailed
    <2>4. QED
      BY <1>a, <2>1, <2>2, <2>3 DEF TypeOK, Ordered, Taken, Unlocked
  <1>10. ASSUME NEW r \in Relays, MarkDelivered(r)
         PROVE  Ordered'
    <2>1. holds[r] \in Calls /\ sink[r] # "uncalled" /\ holds' = [holds EXCEPT ![r] = None]
      BY <1>10, <1>a DEF TypeOK, MarkDelivered, Release
    <2>2. tries[holds[r]] > 0
      BY <1>a, <2>1 DEF TypeOK, Counts, Called
    <2>3. UNCHANGED <<callVars, history>>
      BY <1>10 DEF MarkDelivered
    <2>4. QED
      BY <1>a, <2>1, <2>2, <2>3 DEF TypeOK, Ordered, Taken, Unlocked
  <1>11. ASSUME NEW r \in Relays, RelayRollback(r)
         PROVE  Ordered'
    BY <1>11, <1>a DEF TypeOK, InTransaction, Statuses, Locks, Ordered, Counts, Taken, Open, Visible, Unlocked, RelayRollback, Release
  <1>12. ASSUME NEW r \in Relays, NEW x \in Calls, Take(r, x)
         PROVE  Ordered'
    BY <1>12, <1>a DEF TypeOK, InTransaction, Statuses, Locks, Ordered, Counts, Taken, Open, Visible, Unlocked, Take, Age
  <1>13. CASE UNCHANGED vars
    BY <1>13, <1>a DEF TypeOK, InTransaction, Statuses, Locks, Ordered, Counts, Taken, Open, Visible, Unlocked, vars
  <1>14. QED
    BY <1>1, <1>2, <1>3, <1>4, <1>5, <1>6, <1>7, <1>8, <1>9, <1>10, <1>11, <1>12, <1>13
       DEF Next, ProcessStep, RelayStep

\* The strengthening is inductive.
LEMMA Inductive == Spec => []IInv
  <1>1. Init => IInv
    <2> SUFFICES ASSUME Init PROVE IInv
      OBVIOUS
    <2> USE ConstantsAssumption DEF Init
    <2>1. TypeOK
      BY DEF TypeOK, InTransaction, Statuses
    <2>2. Single /\ Answered /\ Locks
      BY DEF Single, Answered, Locks, InTransaction
    <2>3. \A c \in Calls : Counts(c)
      BY DEF Counts, Called, Accepted
    <2>4. Ordered
      BY DEF Ordered
    <2>5. QED
      BY <2>1, <2>2, <2>3, <2>4 DEF IInv
  <1>2. IInv /\ [Next]_vars => IInv'
    BY TypeStep, SingleStep, AnsweredStep, LocksStep, CountsStep, OrderedStep DEF IInv
  <1>3. QED
    BY <1>1, <1>2, PTL DEF Spec

-----------------------------------------------------------------------------
(* The invariants *)

\* However many first calls race under a key, one of them takes effect.
THEOREM OneEffectCorrect == Spec => []OneEffect
  <1>1. IInv => OneEffect
    BY DEF IInv, Single, OneEffect
  <1>2. QED
    BY <1>1, Inductive, PTL

\* Every answer carries the result of the effect under its key, asked for alike.
THEOREM AnswersCorrect == Spec => []AnswersAgree
  <1>1. IInv => AnswersAgree
    BY DEF IInv, Answered, AnswersAgree
  <1>2. QED
    BY <1>1, Inductive, PTL

\* The sink never hears of a change that was rolled back.
THEOREM NoPhantomsCorrect == Spec => []NoPhantoms
  <1>1. IInv => NoPhantoms
    BY DEF IInv, TypeOK, Counts, NoPhantoms
  <1>2. QED
    BY <1>1, Inductive, PTL

\* What is marked delivered has arrived, once unless relays rolled back.
THEOREM DeliveredCorrect == Spec => []DeliveredOnce
  <1>1. IInv => DeliveredOnce
    BY DEF IInv, TypeOK, Counts, DeliveredOnce
  <1>2. QED
    BY <1>1, Inductive, PTL

\* The attempt limit bounds the calls of the sink, rollbacks aside.
THEOREM TriesCorrect == Spec => []TriesBounded
  <1>1. IInv => TriesBounded
    <2> SUFFICES ASSUME IInv, NEW c \in Calls
                 PROVE  /\ tries[c] <= MaxAttempts + rollbacks[c]
                        /\ GivenUp(c) => tries[c] >= MaxAttempts
      BY DEF TriesBounded
    <2>1. TypeOK /\ Locks /\ Counts(c)
      BY DEF IInv
    <2>2. Called(c) => attempt[c] < MaxAttempts
      BY <2>1, ConstantsAssumption DEF Called, Locks, Counts, Open, TypeOK
    <2>3. QED
      BY <2>1, <2>2, ConstantsAssumption DEF Counts, TypeOK, GivenUp
  <1>2. QED
    BY <1>1, Inductive, PTL

\* Events arrive in the order they occurred but for those tried, rolled back or late.
THEOREM OrderCorrect == Spec => []InOrder
  <1>1. IInv => InOrder
    <2> SUFFICES ASSUME IInv, NEW d \in Calls, received[d] > 0 PROVE Taken(d)
      BY DEF IInv, Ordered, InOrder
    <2>1. TypeOK /\ Counts(d)
      BY DEF IInv
    <2>2. QED
      BY <2>1 DEF Counts, TypeOK, Taken
  <1>2. QED
    BY <1>1, Inductive, PTL

-----------------------------------------------------------------------------
(* Refinement *)

\* The mail of an event is due from the commit until it is delivered or given up.
LEMMA MailDue ==
  ASSUME NEW c \in Calls, pc[c] = "committed", Counts(c), TypeOK
  PROVE  MailOf[c] = "due" <=> status[c] # "delivered" /\ ~GivenUp(c)
  BY DEF MailOf, Mail

\* Every step of a transaction is an effect, the repetition of one, or nothing yet.
LEMMA ProcessImplements ==
  ASSUME IInv, NEW x \in Calls, ProcessStep(x)
  PROVE  [Promise!Next]_(Promise!vars)
  <1> USE ConstantsAssumption DEF callVars, eventVars, relayVars, history
  <1>a. TypeOK /\ Single /\ Answered /\ \A c \in Calls : Counts(c)
    BY DEF IInv
  <1>b. ASSUME UNCHANGED <<status, retryAt, reply, received>>,
               NEW s \in {"missing", "ran", "inserted", "ended"},
               pc[x] # "committed", pc' = [pc EXCEPT ![x] = s],
               \A c \in Calls \ {x} : body'[c] = body[c],
               body' \in [Calls -> Bodies \cup {None}],
               Asked[x] = None, s = "ended" => body'[x] = None
        PROVE  UNCHANGED Promise!vars
    <2>1. Effects' = Effects
      BY <1>a, <1>b DEF Effects, TypeOK
    <2>2. Asked' = Asked
      BY <1>a, <1>b DEF Asked, TypeOK
    <2>3. MailOf' = MailOf
      BY <1>a, <1>b DEF MailOf, Mail, GivenUp, TypeOK
    <2>4. QED
      BY <1>b, <2>1, <2>2, <2>3 DEF Promise!vars
  <1>c. pc[x] \in InTransaction \cup {"idle"} => Asked[x] = None
    BY <1>a DEF Asked, Answered, InTransaction
  <1>d. ASSUME pc[x] \in InTransaction \cup {"idle"}, Refuse(x),
               UNCHANGED <<eventVars, history>>
        PROVE  UNCHANGED Promise!vars
    <2>1. body' \in [Calls -> Bodies \cup {None}] /\ body'[x] = None
      BY <1>a, <1>d DEF Refuse, TypeOK
    <2>2. \A c \in Calls \ {x} : body'[c] = body[c]
      BY <1>a, <1>d DEF Refuse, TypeOK
    <2>3. QED
      BY <1>b, <1>c, <1>d, <2>1, <2>2 DEF Refuse, InTransaction
  <1>1. ASSUME NEW b \in BodiesOf[x], LookUp(x, b)
        PROVE  UNCHANGED Promise!vars
    <2>1. body' \in [Calls -> Bodies \cup {None}]
      BY <1>a, <1>1 DEF LookUp, TypeOK
    <2>2. \A c \in Calls \ {x} : body'[c] = body[c]
      BY <1>a, <1>1 DEF LookUp, TypeOK
    <2>3. QED
      BY <1>b, <1>c, <1>1, <2>1, <2>2 DEF LookUp
  <1>2. ASSUME NEW b \in BodiesOf[x], Replay(x, b)
        PROVE  [Promise!Next]_(Promise!vars)
    <2>1. PICK d \in Recorded(x) :
            IF SameBody(b, d)
            THEN /\ pc' = [pc EXCEPT ![x] = "ended"]
                 /\ body' = [body EXCEPT ![x] = b]
                 /\ reply' = [reply EXCEPT ![x] = d]
                 /\ UNCHANGED occurred
            ELSE Refuse(x)
      BY <1>2 DEF Replay
    <2>2. pc[x] = "idle" /\ UNCHANGED <<eventVars, relayVars, history>>
      BY <1>2 DEF Replay
    <2>3. CASE ~SameBody(b, d)
      BY <1>d, <2>1, <2>2, <2>3
    <2>4. CASE SameBody(b, d)
      <3>1. d \in Effects /\ KeyOf[d] = KeyOf[x] /\ d # x
        BY DEF Recorded, Siblings, Effects
      <3>2. Asked[d] = b
        BY <2>4, <3>1 DEF SameBody, Asked, Effects
      <3>3. Effects' = Effects
        BY <1>a, <2>1, <2>2, <2>4 DEF Effects, TypeOK
      <3>4. Asked' = [Asked EXCEPT ![x] = Asked[d]]
        BY <1>a, <2>1, <2>2, <2>4, <3>2 DEF Asked, TypeOK
      <3>5. MailOf' = MailOf
        BY <1>a, <2>1, <2>2, <2>4 DEF MailOf, Mail, GivenUp, TypeOK
      <3>6. Promise!Repeat(x)
        BY <1>c, <2>1, <2>2, <2>4, <3>1, <3>2, <3>3, <3>4, <3>5 DEF Promise!Repeat
      <3>7. QED
        BY <3>6 DEF Promise!Next
    <2>5. QED
      BY <2>3, <2>4
  <1>3. ASSUME RunFunction(x)
        PROVE  UNCHANGED Promise!vars
    BY <1>a, <1>b, <1>c, <1>3 DEF RunFunction, TypeOK, InTransaction
  <1>4. ASSUME InsertRecord(x)
        PROVE  UNCHANGED Promise!vars
    <2>1. CASE KeyFree(x)
      BY <1>a, <1>b, <1>c, <1>4, <2>1 DEF InsertRecord, TypeOK, InTransaction
    <2>2. CASE ~KeyFree(x)
      BY <1>d, <1>4, <2>2 DEF InsertRecord, InTransaction
    <2>3. QED
      BY <2>1, <2>2
  <1>5. ASSUME Commit(x)
        PROVE  Promise!Happen(x)
    <2>1. Asked[x] = None /\ body[x] \in BodiesOf[x]
      BY <1>a, <1>c, <1>5 DEF Commit, Answered, InTransaction
    <2>2. \A d \in Effects : KeyOf[d] # KeyOf[x]
      BY <1>a, <1>5 DEF Commit, Effects, Single
    <2>3. Effects' = Effects \cup {x}
      BY <1>a, <1>5 DEF Commit, Effects, TypeOK
    <2>4. Asked' = [Asked EXCEPT ![x] = body[x]]
      BY <1>a, <1>5 DEF Commit, Asked, TypeOK
    <2>5. MailOf' = [MailOf EXCEPT ![x] = "due"]
      BY <1>a, <1>5 DEF Commit, MailOf, Mail, GivenUp, Counts, TypeOK
    <2>6. QED
      BY <1>5, <2>1, <2>2, <2>3, <2>4, <2>5 DEF Commit, Promise!Happen
  <1>6. ASSUME Rollback(x)
        PROVE  UNCHANGED Promise!vars
    BY <1>d, <1>6 DEF Rollback
  <1>7. QED
    BY <1>1, <1>2, <1>3, <1>4, <1>5, <1>6 DEF ProcessStep, Promise!Next

\* Every step of a relay is a sending, the end of an event, or nothing.
LEMMA RelayImplements ==
  ASSUME IInv, NEW r \in Relays, RelayStep(r)
  PROVE  [Promise!Next]_(Promise!vars)
  <1> USE ConstantsAssumption DEF callVars, eventVars, relayVars, history
  <1>a. TypeOK /\ Locks /\ \A c \in Calls : Counts(c)
    BY DEF IInv
  <1>b. ASSUME UNCHANGED <<callVars, eventVars, received>> PROVE UNCHANGED Promise!vars
    BY <1>b DEF Promise!vars, Effects, Asked, MailOf, Mail, GivenUp
  <1>c. ASSUME holds[r] # None
        PROVE  holds[r] \in Calls /\ MailOf[holds[r]] = "due"
    BY <1>a, <1>c, MailDue DEF TypeOK, Locks, Open, Visible, GivenUp
  <1>d. ASSUME NEW h \in Calls, h = holds[r], UNCHANGED <<callVars, history>>,
               \A c \in Calls \ {h} : status'[c] = status[c] /\ retryAt'[c] = retryAt[c]
        PROVE  /\ Effects' = Effects
               /\ Asked' = Asked
               /\ MailOf' = [MailOf EXCEPT ![h] = Mail(h)']
    <2>1. Effects' = Effects /\ Asked' = Asked
      BY <1>d DEF Effects, Asked
    <2>2. \A c \in Calls \ {h} : Mail(c)' = Mail(c)
      BY <1>d DEF Mail, GivenUp
    <2>3. MailOf' = [MailOf EXCEPT ![h] = Mail(h)']
      BY <1>c, <1>d, <2>2 DEF MailOf
    <2>4. QED
      BY <2>1, <2>3
  <1>1. ASSUME Deliver(r)
        PROVE  [Promise!Next]_(Promise!vars)
    <2>1. CASE received' = received
      BY <1>b, <1>1, <2>1 DEF Deliver
    <2>2. CASE received' = [received EXCEPT ![holds[r]] = @ + 1]
      <3>1. holds[r] \in Calls /\ MailOf[holds[r]] = "due"
        BY <1>c, <1>1 DEF Deliver
      <3>2. UNCHANGED <<Effects, Asked, reply, MailOf>>
        BY <1>1 DEF Deliver, Effects, Asked, MailOf, Mail, GivenUp
      <3>3. Promise!Send(holds[r])
        BY <2>2, <3>1, <3>2 DEF Promise!Send
      <3>4. QED
        BY <3>1, <3>3 DEF Promise!Next
    <2>3. QED
      BY <1>1, <2>1, <2>2 DEF Deliver
  <1>2. ASSUME MarkFailed(r)
        PROVE  [Promise!Next]_(Promise!vars)
    <2>1. holds[r] # None /\ UNCHANGED <<callVars, history>>
      BY <1>2 DEF MarkFailed
    <2>2. PICK h \in Calls : h = holds[r]
      BY <1>c, <2>1
    <2>a. MailOf[h] = "due"
      BY <1>c, <2>1, <2>2
    <2>3. \A c \in Calls \ {h} : status'[c] = status[c] /\ retryAt'[c] = retryAt[c]
      BY <1>a, <1>2, <2>2 DEF MarkFailed, TypeOK
    <2>4. Mail(h)' \in {"due", "abandoned"}
      <3>1. pc'[h] = "committed" /\ status'[h] = "failed"
        BY <1>a, <1>2, <2>2 DEF MarkFailed, TypeOK, Locks, Open, Visible
      <3>2. QED
        BY <3>1 DEF Mail, GivenUp
    <2>5. CASE Mail(h)' = "due"
      <3>1. MailOf' = MailOf
        BY <1>d, <2>1, <2>2, <2>a, <2>3, <2>5 DEF MailOf
      <3>2. QED
        BY <1>d, <2>1, <2>2, <2>a, <2>3, <3>1 DEF Promise!vars
    <2>6. CASE Mail(h)' = "abandoned"
      <3>1. Promise!Settle(h)
        BY <1>d, <2>1, <2>2, <2>a, <2>3, <2>6 DEF Promise!Settle
      <3>2. QED
        BY <2>2, <3>1 DEF Promise!Next
    <2>7. QED
      BY <2>4, <2>5, <2>6
  <1>3. ASSUME MarkDelivered(r)
        PROVE  [Promise!Next]_(Promise!vars)
    <2>1. holds[r] # None /\ UNCHANGED <<callVars, history>> /\ sink[r] = "accepted"
      BY <1>3 DEF MarkDelivered
    <2>2. PICK h \in Calls : h = holds[r]
      BY <1>c, <2>1
    <2>a. MailOf[h] = "due"
      BY <1>c, <2>1, <2>2
    <2>3. \A c \in Calls \ {h} : status'[c] = status[c] /\ retryAt'[c] = retryAt[c]
      BY <1>a, <1>3, <2>2 DEF MarkDelivered, TypeOK
    <2>4. Mail(h)' = "delivered"
      <3>1. pc'[h] = "committed" /\ status'[h] = "delivered"
        BY <1>a, <1>3, <2>2 DEF MarkDelivered, TypeOK, Locks, Open, Visible
      <3>2. QED
        BY <3>1 DEF Mail
    <2>5. received[h] > 0
      BY <1>a, <2>1, <2>2 DEF Counts, Accepted
    <2>6. Promise!Settle(h)
      BY <1>d, <2>1, <2>2, <2>a, <2>3, <2>4, <2>5 DEF Promise!Settle
    <2>7. QED
      BY <2>2, <2>6 DEF Promise!Next
  <1>4. ASSUME RelayRollback(r)
        PROVE  UNCHANGED Promise!vars
    BY <1>b, <1>4 DEF RelayRollback
  <1>5. ASSUME NEW c \in Calls, Take(r, c)
        PROVE  UNCHANGED Promise!vars
    BY <1>b, <1>5 DEF Take
  <1>6. QED
    BY <1>1, <1>2, <1>3, <1>4, <1>5 DEF RelayStep

\* Waiting and stuttering steps do not show.
LEMMA WaitImplements ==
  ASSUME IInv, (\E c \in Calls : BackoffEnds(c)) \/ UNCHANGED vars
  PROVE  UNCHANGED Promise!vars
  <1> USE DEF callVars, eventVars, relayVars, history
  <1>1. TypeOK
    BY DEF IInv
  <1>2. ASSUME NEW c \in Calls, BackoffEnds(c) PROVE UNCHANGED Promise!vars
    BY <1>1, <1>2 DEF BackoffEnds, TypeOK, Promise!vars, Effects, Asked, MailOf, Mail, GivenUp
  <1>3. CASE UNCHANGED vars
    BY <1>3 DEF vars, Promise!vars, Effects, Asked, MailOf, Mail, GivenUp
  <1>4. QED
    BY <1>2, <1>3

\* Process, the unique index and the relays implement the promise.
THEOREM RefinesReliableEffects == Spec => ImplementsReliableEffects
  <1>1. Init => Promise!Init
    BY DEF Init, Promise!Init, Effects, Asked, MailOf, Mail
  <1>2. IInv /\ [Next]_vars => [Promise!Next]_(Promise!vars)
    BY ProcessImplements, RelayImplements, WaitImplements DEF Next
  <1>3. QED
    BY <1>1, <1>2, Inductive, PTL DEF Spec, Promise!Spec, ImplementsReliableEffects

=============================================================================
