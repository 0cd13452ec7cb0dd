------------------------------ MODULE Inventory ------------------------------
(* The stock of one item at one location (internal/inventory): the            *)
(* append-only ledger of movements, from which every balance is summed, and   *)
(* the counts whose variances are posted back to the ledger.  A movement      *)
(* locks the location before it reads the balance; a reconciliation does not, *)
(* and what a request about a count checks is read on the pool, outside its   *)
(* transaction.                                                               *)
EXTENDS Integers, Sequences, FiniteSets

CONSTANTS None,
          Client,        \* requests the API serves at one time
          Movement,      \* the triples <<movement_type, quantity, expires_at>> asked for
          Counted,       \* quantities a person may count
          MaxTime,       \* bound of the clock
          MaxRequests,   \* bound: requests served in one behaviour
          MaxCounts      \* bound: rows of inventory_counts

VARIABLES locations,     \* how many rows stock_locations has
          movements,     \* inventory_movements; `seen' is history: how many there were
                         \* when the balance was checked
          counts,        \* inventory_counts: the status of each
          lines,         \* inventory_count_lines of each count
          lock,          \* who holds the row of the location
          countLock,     \* who holds the row of each count
          now,
          pc,
          requests

tables == <<locations, movements, counts, lines>>
vars   == <<tables, lock, countLock, now, pc, requests>>

Idle == [op |-> "idle"]
Never == MaxTime + 1

Init ==
  /\ locations \in {0, 1}
  /\ movements = <<>>
  /\ counts = <<>>
  /\ lines = <<>>
  /\ lock = None
  /\ countLock = [n \in 1 .. MaxCounts |-> None]
  /\ now = 0
  /\ pc = [c \in Client |-> Idle]
  /\ requests = 0

Served == requests < MaxRequests /\ requests' = requests + 1 /\ UNCHANGED <<pc, lock, countLock, now>>

Begin(c, frame) ==
  /\ pc[c] = Idle
  /\ requests < MaxRequests
  /\ requests' = requests + 1
  /\ pc' = [pc EXCEPT ![c] = frame]
  /\ UNCHANGED <<tables, lock, countLock, now>>

(* A request goes on with what it has read.                                   *)
Goes(c, frame) ==
  /\ pc' = [pc EXCEPT ![c] = frame]
  /\ UNCHANGED <<tables, lock, countLock, now, requests>>

(* Commit or roll back: the request ends and gives its locks back.            *)
Done(c) ==
  /\ pc' = [pc EXCEPT ![c] = Idle]
  /\ lock' = IF lock = c THEN None ELSE lock
  /\ countLock' = [n \in 1 .. MaxCounts |-> IF countLock[n] = c THEN None ELSE countLock[n]]
  /\ UNCHANGED <<now, requests>>

----------------------------------------------------------------------------
(* The statements of the store                                               *)

(* A fault: the location is read without being locked.                        *)
ReadLocation(c) == lock' = lock

LockLocation(c) == lock = None /\ lock' = c

(* The sum of the quantities of some rows, those of the first n of them.      *)
SumOf(rows, S) ==
  LET sum[n \in 0 .. Len(rows)] ==
        IF n = 0 THEN 0 ELSE sum[n - 1] + IF n \in S THEN rows[n].quantity ELSE 0
  IN sum[Len(rows)]

GetBalance == SumOf(movements, DOMAIN movements)

(* Stock that had expired at a time does not count, nor do the movements that *)
(* write expired stock off.                                                   *)
Effective(rows, at) == {n \in DOMAIN rows : rows[n].type # "expiry" /\ rows[n].expires > at}
GetEffectiveBalance(at) == SumOf(movements, Effective(movements, at))

InsertMovement(row) == movements' = Append(movements, row)

InsertCount ==
  /\ Len(counts) < MaxCounts
  /\ counts' = Append(counts, "draft")
  /\ lines' = Append(lines, <<>>)

(* The row of a count is written whatever its status, once nobody holds it.   *)
RowFree(c, n) == countLock[n] \in {None, c}
UpdateCountStatus(n, status) == counts' = [counts EXCEPT ![n] = status]

----------------------------------------------------------------------------
(* Locations and movements                                                   *)

CreateLocation ==
  /\ locations = 0
  /\ locations' = 1
  /\ UNCHANGED <<movements, counts, lines>>
handleCreateLocation == Served /\ CreateLocation

(* NOW() is the time the transaction began, before it waited for the lock.    *)
handleRecordMovement(c, m) ==
  /\ locations = 1
  /\ Begin(c, [op |-> "lock", type |-> m[1], quantity |-> m[2], expires |-> m[3], at |-> now, seen |-> 0])

(* Only an adjustment may leave the balance negative, a receipt may not.      *)
IsNegativeStock(balance, proposed) == balance + proposed < 0
Explained(type) == type = "adjustment"
Issues(type) == type \in {"issue", "consumption"}

CheckBalance(c) ==
  LET f == pc[c] IN
  /\ f.op = "lock"
  /\ LockLocation(c)
  /\ IsNegativeStock(GetBalance, f.quantity) => Explained(f.type)
  /\ pc' = [pc EXCEPT ![c] = [f EXCEPT !.op = IF Issues(f.type) THEN "effective" ELSE "insert",
                                       !.seen = Len(movements)]]
  /\ UNCHANGED <<tables, countLock, now, requests>>

CheckEffectiveBalance(c) ==
  /\ pc[c].op = "effective"
  /\ GetEffectiveBalance(pc[c].at) + pc[c].quantity >= 0
  /\ Goes(c, [pc[c] EXCEPT !.op = "insert"])

RecordMovement(c) ==
  /\ pc[c].op = "insert"
  /\ InsertMovement([type |-> pc[c].type, quantity |-> pc[c].quantity, expires |-> pc[c].expires,
                     at |-> pc[c].at, seen |-> pc[c].seen, count |-> None])
  /\ Done(c)
  /\ UNCHANGED <<locations, counts, lines>>

----------------------------------------------------------------------------
(* Counts                                                                    *)

CreateCount ==
  /\ locations = 1
  /\ InsertCount
  /\ UNCHANGED <<locations, movements>>
handleCreateCount == Served /\ CreateCount

Closed(n) == counts[n] \in {"reviewed", "reconciled"}

handleUpdateCountLine(c, n, counted) ==
  /\ ~Closed(n)
  /\ Begin(c, [op |-> "expect", count |-> n, read |-> counts[n], counted |-> counted])

(* The balance, read on the pool and not the locked location.                 *)
ReadExpected(c) ==
  /\ pc[c].op = "expect"
  /\ Goes(c, [op |-> "line", count |-> pc[c].count, read |-> pc[c].read,
              line |-> [expected |-> GetBalance, counted |-> pc[c].counted,
                        variance |-> pc[c].counted - GetBalance]])

(* The transaction: a count read as a draft is set in progress, whatever it   *)
(* has become, which holds its row; then the line is looked for ...           *)
FindCountLine(c) ==
  LET n == pc[c].count IN
  /\ pc[c].op = "line"
  /\ IF pc[c].read = "draft"
     THEN countLock[n] = None /\ countLock' = [countLock EXCEPT ![n] = c]
     ELSE UNCHANGED countLock
  /\ pc' = [pc EXCEPT ![c] = [op |-> "upsert", count |-> n, read |-> pc[c].read, line |-> pc[c].line,
                              found |-> lines[n] # <<>>]]
  /\ UNCHANGED <<tables, lock, now, requests>>

(* ... and inserted, or its first row updated, which keeps the quantity that  *)
(* was expected before.                                                       *)
UpsertCountLine(n, found, line) ==
  lines' = IF found
           THEN [lines EXCEPT ![n][1].counted = line.counted, ![n][1].variance = line.variance]
           ELSE [lines EXCEPT ![n] = Append(@, line)]

UpdateCountLine(c) ==
  LET f == pc[c] IN
  /\ f.op = "upsert"
  /\ UpsertCountLine(f.count, f.found, f.line)
  /\ IF f.read = "draft" THEN UpdateCountStatus(f.count, "in_progress") ELSE UNCHANGED counts
  /\ Done(c)
  /\ UNCHANGED <<locations, movements>>

handleReviewCount(c, n) ==
  /\ ~Closed(n)
  /\ Begin(c, [op |-> "review", count |-> n])

ReviewCount(c) ==
  /\ pc[c].op = "review"
  /\ RowFree(c, pc[c].count)
  /\ UpdateCountStatus(pc[c].count, "reviewed")
  /\ Done(c)
  /\ UNCHANGED <<locations, movements, lines>>

handleReconcileCount(c, n) ==
  /\ counts[n] # "reconciled"
  /\ Begin(c, [op |-> "lines", count |-> n, at |-> now])

ListCountLines(c) ==
  /\ pc[c].op = "lines"
  /\ Goes(c, [op |-> "reconcile", count |-> pc[c].count, at |-> pc[c].at, lines |-> lines[pc[c].count]])

(* One adjustment for each variance, without the lock of the location.        *)
Adjustment(count, at, line) ==
  [type |-> "adjustment", quantity |-> line.variance, expires |-> Never, at |-> at, seen |-> 0, count |-> count]

(* The ledger after the adjustments of the first n lines.                     *)
Adjusted(count, at, read) ==
  LET ledger[n \in 0 .. Len(read)] ==
        IF n = 0 THEN movements
        ELSE IF read[n].variance = 0 THEN ledger[n - 1]
        ELSE Append(ledger[n - 1], Adjustment(count, at, read[n]))
  IN ledger[Len(read)]

ReconcileCount(c) ==
  /\ pc[c].op = "reconcile"
  /\ RowFree(c, pc[c].count)
  /\ movements' = Adjusted(pc[c].count, pc[c].at, pc[c].lines)
  /\ UpdateCountStatus(pc[c].count, "reconciled")
  /\ Done(c)
  /\ UNCHANGED <<locations, lines>>

----------------------------------------------------------------------------

Tick ==
  /\ now < MaxTime
  /\ now' = now + 1
  /\ UNCHANGED <<tables, lock, countLock, pc, requests>>

(* A request is refused, its transaction rolled back, or the server dies.     *)
Abandon(c) ==
  /\ pc[c] # Idle
  /\ Done(c)
  /\ UNCHANGED tables

Next ==
  \/ handleCreateLocation \/ handleCreateCount \/ Tick
  \/ \E c \in Client :
       \/ \E m \in Movement : handleRecordMovement(c, m)
       \/ CheckBalance(c) \/ CheckEffectiveBalance(c) \/ RecordMovement(c)
       \/ \E n \in DOMAIN counts :
            \/ \E counted \in Counted : handleUpdateCountLine(c, n, counted)
            \/ handleReviewCount(c, n)
            \/ handleReconcileCount(c, n)
       \/ ReadExpected(c) \/ FindCountLine(c) \/ UpdateCountLine(c)
       \/ ReviewCount(c) \/ ListCountLines(c) \/ ReconcileCount(c)
       \/ Abandon(c)

Spec == Init /\ [][Next]_vars

----------------------------------------------------------------------------

(* What counts wrote off once so many movements had been seen: nothing holds  *)
(* a reconciliation back while a request that checked the balance goes on.    *)
WrittenOff(rows, seen) == {k \in DOMAIN rows : k > seen /\ rows[k].count # None /\ rows[k].quantity < 0}

(* The movements before the n-th one, without what was written off meanwhile. *)
Before(rows, n) == {k \in DOMAIN rows : k < n} \ WrittenOff(rows, rows[n].seen)

(* No movement but an adjustment leaves less than nothing of all that had     *)
(* been posted when it was checked, counts and adjustments included           *)
(* ("unexplained negative stock is rejected"), ...                            *)
NothingUnexplained ==
  \A n \in DOMAIN movements :
    ~Explained(movements[n].type) => SumOf(movements, Before(movements, n) \union {n}) >= 0

(* ... and what is issued was there and had not expired when its request      *)
(* began ("expired stock cannot be issued").                                  *)
ExpiredNotIssued ==
  \A n \in DOMAIN movements :
    Issues(movements[n].type) =>
      SumOf(movements, (Before(movements, n) \intersect Effective(movements, movements[n].at)) \union {n}) >= 0

(* The two together, as requests race for the last piece in stock.            *)
StockIsThere == NothingUnexplained /\ ExpiredNotIssued

(* "inventory count already reviewed": the variance of a count is posted once.*)
(* Does not hold, a count can be reconciled by two requests.                  *)
PostedOnce ==
  \A n \in DOMAIN counts :
    Cardinality({k \in DOMAIN movements : movements[k].count = n}) <= Len(lines[n])

(* A line tells the variance of what was counted from what was expected.  Does*)
(* not hold, one counted again keeps what was expected at first.              *)
LinesAddUp ==
  \A n \in DOMAIN lines : \A k \in DOMAIN lines[n] :
    lines[n][k].variance = lines[n][k].counted - lines[n][k].expected

=============================================================================
