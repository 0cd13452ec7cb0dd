----------------------------- MODULE Durability -----------------------------
(***************************************************************************)
(* Idempotent processing and the transactional outbox                      *)
(* (internal/platform/durability) with the relay loop of                   *)
(* internal/platform/app.                                                  *)
(*                                                                         *)
(* A call of Process runs a function inside a transaction, once per key;   *)
(* the function changes the state of a module and appends an event, which  *)
(* the relay loop of every worker process passes to a sink.  Transactions  *)
(* run at the default isolation level: a statement sees what has been      *)
(* committed, and an insert under a unique index waits for another         *)
(* transaction that has inserted the same key.                             *)
(***************************************************************************)
EXTENDS Naturals, FiniteSets

CONSTANTS
  Calls,          \* calls of Process, each with the one event its function appends
  Relays,         \* relay loops, one in every worker process
  KeyOf,          \* the idempotency key of a call
  Bodies,         \* the hashes of request bodies
  BodiesOf,       \* the bodies a call may carry
  MaxAttempts,    \* outbox_events.max_attempts (OutboxMaxAttempts is 5)
  RollbackBound,  \* bound: once an event was rolled back this often, none is any more
  None            \* SQL NULL

ASSUME ConstantsAssumption ==
  /\ None \notin Calls
  /\ None \notin Bodies
  /\ BodiesOf \in [Calls -> SUBSET Bodies]
  /\ MaxAttempts \in Nat \ {0}
  /\ RollbackBound \in Nat

VARIABLES
  body,       \* the hash of the request body, NULL once the call has failed
  pc,         \* where the transaction of each call is
  reply,      \* the call whose result was returned, None for an error
  occurred,   \* outbox_events.occurred_at, 0 before the event exists
  status,     \* outbox_events.status
  attempt,    \* outbox_events.attempt
  retryAt,    \* outbox_events.next_retry_at: NULL, in the future, or due
  holds,      \* the event each relay has locked
  sink,       \* what the sink has answered in the relay's open transaction
  received,   \* history: how often the sink has accepted the event
  tries,      \* history: how often the sink was called with it
  rollbacks,  \* history: relay transactions of the event that were rolled back
  late        \* history: the event was committed after a later one had been taken

callVars  == <<body, pc, reply, occurred>>
eventVars == <<status, attempt, retryAt>>
relayVars == <<holds, sink>>
history   == <<received, tries, rollbacks, late>>
vars == <<callVars, eventVars, relayVars, history>>

InTransaction == {"missing", "ran", "inserted"}
Statuses == {"pending", "delivered", "failed"}

TypeOK ==
  /\ body \in [Calls -> Bodies \cup {None}]
  /\ pc \in [Calls -> InTransaction \cup {"idle", "committed", "ended"}]
  /\ reply \in [Calls -> Calls \cup {None}]
  /\ occurred \in [Calls -> Nat]
  /\ status \in [Calls -> Statuses]
  /\ attempt \in [Calls -> Nat]
  /\ retryAt \in [Calls -> {"null", "future", "due"}]
  /\ holds \in [Relays -> Calls \cup {None}]
  /\ sink \in [Relays -> {"uncalled", "accepted", "failed"}]
  /\ received \in [Calls -> Nat]
  /\ tries \in [Calls -> Nat]
  /\ rollbacks \in [Calls -> Nat]
  /\ late \in [Calls -> BOOLEAN]

Init ==
  /\ body = [c \in Calls |-> None]
  /\ pc = [c \in Calls |-> "idle"]
  /\ reply = [c \in Calls |-> None]
  /\ occurred = [c \in Calls |-> 0]
  /\ status = [c \in Calls |-> "pending"]
  /\ attempt = [c \in Calls |-> 0]
  /\ retryAt = [c \in Calls |-> "null"]
  /\ holds = [r \in Relays |-> None]
  /\ sink = [r \in Relays |-> "uncalled"]
  /\ received = [c \in Calls |-> 0]
  /\ tries = [c \in Calls |-> 0]
  /\ rollbacks = [c \in Calls |-> 0]
  /\ late = [c \in Calls |-> FALSE]

-----------------------------------------------------------------------------
(* Process *)

Siblings(c) == {d \in Calls \ {c} : KeyOf[d] = KeyOf[c]}
Recorded(c) == {d \in Siblings(c) : pc[d] = "committed"}

\* The call returns an error; its transaction takes the event with it.
Refuse(c) ==
  /\ pc' = [pc EXCEPT ![c] = "ended"]
  /\ body' = [body EXCEPT ![c] = None]
  /\ occurred' = [occurred EXCEPT ![c] = 0]
  /\ UNCHANGED reply

AnyBody(b, d) == TRUE
SameBody(b, d) == body[d] = b

\* SELECT ... FOR UPDATE finds no record, so there is nothing to lock.
LookUp(c, b) ==
  /\ pc[c] = "idle" /\ Recorded(c) = {}
  /\ pc' = [pc EXCEPT ![c] = "missing"]
  /\ body' = [body EXCEPT ![c] = b]
  /\ UNCHANGED <<reply, occurred, eventVars, relayVars, history>>

\* It finds one: its result is replayed, or the body differs and the call refused.
Replay(c, b) ==
  /\ pc[c] = "idle"
  /\ \E d \in Recorded(c) :
       IF SameBody(b, d)
       THEN /\ pc' = [pc EXCEPT ![c] = "ended"]
            /\ body' = [body EXCEPT ![c] = b]
            /\ reply' = [reply EXCEPT ![c] = d]
            /\ UNCHANGED occurred
       ELSE Refuse(c)
  /\ UNCHANGED <<eventVars, relayVars, history>>

\* The function changes its module's state and appends the event, stamped with the
\* time; nobody else sees either before the commit.
RunFunction(c) ==
  /\ pc[c] = "missing"
  /\ pc' = [pc EXCEPT ![c] = "ran"]
  /\ \E now \in {occurred[d] + 1 : d \in Calls} :
       /\ \A d \in Calls : occurred[d] < now
       /\ occurred' = [occurred EXCEPT ![c] = now]
  /\ UNCHANGED <<body, reply, eventVars, relayVars, history>>

\* UNIQUE (idempotency_key): the insert waits for an open transaction that has
\* inserted the key, and is refused once that one has committed.
KeyFree(c) == Recorded(c) = {}

InsertRecord(c) ==
  /\ pc[c] = "ran"
  /\ \A d \in Siblings(c) : pc[d] # "inserted"
  /\ IF KeyFree(c)
     THEN pc' = [pc EXCEPT ![c] = "inserted"] /\ UNCHANGED <<body, reply, occurred>>
     ELSE Refuse(c)
  /\ UNCHANGED <<eventVars, relayVars, history>>

Taken(c) == tries[c] > 0 \/ \E r \in Relays : holds[r] = c

\* A caller that loses the answer calls again under the same key: another call.
Commit(c) ==
  /\ pc[c] = "inserted"
  /\ pc' = [pc EXCEPT ![c] = "committed"]
  /\ reply' = [reply EXCEPT ![c] = c]
  /\ late' = [late EXCEPT ![c] =
                \E d \in Calls : occurred[d] > occurred[c] /\ Taken(d)]
  /\ UNCHANGED <<body, occurred, eventVars, relayVars, received, tries, rollbacks>>

\* The function or a statement fails, or the process stops.
Rollback(c) ==
  /\ pc[c] \in InTransaction
  /\ Refuse(c)
  /\ UNCHANGED <<eventVars, relayVars, history>>

-----------------------------------------------------------------------------
(* RelayOnce *)

Visible(c) == pc[c] = "committed"

OpenUnlessLater(c) ==
  Visible(c) /\ (status[c] = "pending" \/ (status[c] = "failed" /\ retryAt[c] # "future"))
OpenOnce(c) == Visible(c) /\ status[c] = "pending"
Open(c) ==
  /\ Visible(c)
  /\ \/ status[c] = "pending"
     \/ status[c] = "failed" /\ retryAt[c] = "due"

NoLocks(c) == TRUE
\* FOR UPDATE SKIP LOCKED
Unlocked(c) == \A r \in Relays : holds[r] # c
Unordered == [c \in Calls |-> 0]
Age == occurred

Take(r, c) ==
  /\ holds[r] = None
  /\ Open(c) /\ Unlocked(c)
  /\ \A d \in Calls : Open(d) /\ Unlocked(d) => Age[c] <= Age[d]
  /\ holds' = [holds EXCEPT ![r] = c]
  /\ UNCHANGED <<callVars, eventVars, sink, history>>

\* The sink is called inside the transaction.
Deliver(r) ==
  LET c == holds[r] IN
  /\ c # None /\ sink[r] = "uncalled"
  /\ tries' = [tries EXCEPT ![c] = @ + 1]
  /\ \/ /\ sink' = [sink EXCEPT ![r] = "accepted"]
        /\ received' = [received EXCEPT ![c] = @ + 1]
     \/ /\ sink' = [sink EXCEPT ![r] = "failed"]
        /\ UNCHANGED received
  /\ UNCHANGED <<callVars, eventVars, holds, rollbacks, late>>

Release(r) ==
  /\ holds' = [holds EXCEPT ![r] = None]
  /\ sink' = [sink EXCEPT ![r] = "uncalled"]

NextRetry(n) == IF n < MaxAttempts THEN "future" ELSE "null"

MarkFailed(r) ==
  LET c == holds[r] IN
  /\ c # None /\ sink[r] = "failed"
  /\ status' = [status EXCEPT ![c] = "failed"]
  /\ attempt' = [attempt EXCEPT ![c] = @ + 1]
  /\ retryAt' = [retryAt EXCEPT ![c] = NextRetry(attempt[c] + 1)]
  /\ Release(r)
  /\ UNCHANGED <<callVars, history>>

MarkDelivered(r) ==
  LET c == holds[r] IN
  /\ c # None /\ sink[r] = "accepted"
  /\ status' = [status EXCEPT ![c] = "delivered"]
  /\ attempt' = [attempt EXCEPT ![c] = @ + 1]
  /\ retryAt' = [retryAt EXCEPT ![c] = "null"]
  /\ Release(r)
  /\ UNCHANGED <<callVars, history>>

\* A statement or the commit fails, or the worker process stops: the lock goes, and
\* with it everything the transaction wrote, the counted attempt included.
RelayRollback(r) ==
  LET c == holds[r] IN
  /\ c # None /\ \A d \in Calls : rollbacks[d] < RollbackBound
  /\ rollbacks' = [rollbacks EXCEPT ![c] = @ + 1]
  /\ Release(r)
  /\ UNCHANGED <<callVars, eventVars, received, tries, late>>

BackoffEnds(c) ==
  /\ retryAt[c] = "future"
  /\ retryAt' = [retryAt EXCEPT ![c] = "due"]
  /\ UNCHANGED <<callVars, status, attempt, relayVars, history>>

-----------------------------------------------------------------------------
ProcessStep(c) ==
  \/ \E b \in BodiesOf[c] : LookUp(c, b) \/ Replay(c, b)
  \/ RunFunction(c) \/ InsertRecord(c) \/ Commit(c) \/ Rollback(c)

RelayStep(r) ==
  \/ Deliver(r) \/ MarkFailed(r) \/ MarkDelivered(r) \/ RelayRollback(r)
  \/ \E c \in Calls : Take(r, c)

Next ==
  \/ \E c \in Calls : ProcessStep(c) \/ BackoffEnds(c)
  \/ \E r \in Relays : RelayStep(r)

\* Fairness.  Every relay loop keeps taking its next step (one call of RelayOnce a
\* second), and time passes.  Nothing is assumed of the callers.
Fairness ==
  /\ \A r \in Relays : WF_vars(RelayStep(r))
  /\ \A c \in Calls : WF_vars(BackoffEnds(c))

Spec == Init /\ [][Next]_vars
FairSpec == Spec /\ Fairness

-----------------------------------------------------------------------------
(* Refinement *)

GivenUp(c) == status[c] = "failed" /\ retryAt[c] = "null"

Mail(c) ==
  IF pc[c] # "committed" THEN "none"
  ELSE IF status[c] = "delivered" THEN "delivered"
  ELSE IF GivenUp(c) THEN "abandoned" ELSE "due"

Effects == {c \in Calls : pc[c] = "committed"}
Asked == [c \in Calls |-> IF pc[c] \in {"committed", "ended"} THEN body[c] ELSE None]
MailOf == [c \in Calls |-> Mail(c)]

Promise == INSTANCE ReliableEffects WITH
  effects <- Effects, asked <- Asked, answer <- reply, mail <- MailOf, sent <- received

\* Transactions, the unique index and the relays keep the promise: one effect per
\* key, answers that name it, and its event sent or openly given up.
ImplementsReliableEffects == Promise!Spec

-----------------------------------------------------------------------------
(* Properties *)

\* However many first calls race under a key, the function of a single one takes
\* effect, although each of them found no record to lock.
OneEffect ==
  \A c, d \in Calls : pc[c] = "committed" /\ pc[d] = "committed" /\ KeyOf[c] = KeyOf[d] => c = d

\* A successful answer carries the result of a committed call under the same key
\* and for the same body.
AnswersAgree ==
  \A c \in Calls : reply[c] # None =>
    /\ pc[reply[c]] = "committed"
    /\ KeyOf[reply[c]] = KeyOf[c] /\ body[reply[c]] = body[c]

\* The sink never hears of a change that was rolled back.
NoPhantoms == \A c \in Calls : received[c] > 0 => pc[c] = "committed"

\* An event marked delivered has reached the sink, and reaches it a second time
\* only when a relay transaction was rolled back after the sink had accepted it.
DeliveredOnce ==
  \A c \in Calls :
    /\ status[c] = "delivered" => received[c] > 0
    /\ received[c] <= 1 + rollbacks[c]

\* The sink is called with an event max_attempts times before it is given up, and
\* more often only for transactions that were rolled back and so not counted.
TriesBounded ==
  \A c \in Calls :
    /\ tries[c] <= MaxAttempts + rollbacks[c]
    /\ GivenUp(c) => tries[c] >= MaxAttempts

\* Events reach the sink in the order in which they occurred, except that one which
\* was tried before, rolled back, committed late or is being sent may be overtaken.
InOrder ==
  \A c, d \in Calls :
    /\ pc[c] = "committed" /\ received[c] = 0
    /\ received[d] > 0 /\ occurred[c] < occurred[d]
    => tries[c] > 0 \/ rollbacks[c] > 0 \/ late[c] \/ ~Unlocked(c)

\* Every committed event is delivered or given up in the end, whatever the sink
\* answers and whoever else keeps committing.
Settled == \A c \in Calls : pc[c] = "committed" ~> status[c] = "delivered" \/ GivenUp(c)

=============================================================================
