------------------------------ MODULE Dispatch ------------------------------
(* Assigning workers to tickets (internal/operations/dispatch_service.go):    *)
(* the hard constraints, the attributed override, and the answer of the       *)
(* worker.  No operation opens a transaction: every statement is a step of    *)
(* its own, and the ticket and the tables of the workforce are only read,     *)
(* while the workforce package writes them.                                   *)
EXTENDS TicketStore

CONSTANTS Worker,
          Profile,         \* what the table workers says of each and nothing updates
          MaxAssignments   \* bound: rows of the table ticket_assignments

(* The hard constraints evaluateWorker checks on the row of a worker.  A      *)
(* high-risk ticket requires two persons, which no one worker satisfies, so   *)
(* that what it requires of specialists and certificates decides nothing.     *)
evaluateWorker(w, type) ==
  /\ Profile[w].adult
  /\ type \in Profile[w].skills
  /\ type \notin HighRiskTicketTypes

Assignable(t) == tickets[t].status \in {"scheduled", "assigned"}

Dispatching(op, t, w, seen, unread) == [op |-> op, ticket |-> t, worker |-> w, seen |-> seen, unread |-> unread]

BeginDispatch(c, op, t, w) ==
  /\ Assignable(t)
  /\ Begin(c, Dispatching(op, t, w, 0, FALSE))
  /\ UNCHANGED dispatchTables

Dispatches(c, op, seen, unread) ==
  /\ pc' = [pc EXCEPT ![c] = Dispatching(op, pc[c].ticket, pc[c].worker, seen, unread)]
  /\ UNCHANGED <<dispatchTables, requests>>

handleAssignWorker(c, t, w) == BeginDispatch(c, "assigning", t, w)

(* Among the active workers that are listed ...                               *)
FindWorker(c) ==
  /\ pc[c].op = "assigning"
  /\ workers[pc[c].worker].active
  /\ evaluateWorker(pc[c].worker, tickets[pc[c].ticket].type)
  /\ Dispatches(c, "available", workers[pc[c].worker].writes, FALSE)

(* ... the worker must have a window of availability, ...                     *)
FindAvailability(c) ==
  /\ pc[c].op = "available"
  /\ workers[pc[c].worker].available
  /\ Dispatches(c, "rested", pc[c].seen, FALSE)

(* ... and be rested by the time entries of the day, unless they cannot be    *)
(* read.                                                                      *)
FindTimeEntries(c, unread) ==
  /\ pc[c].op = "rested"
  /\ unread \/ workers[pc[c].worker].rested
  /\ Dispatches(c, "assign", pc[c].seen, unread)

AssignWorker(c) ==
  /\ pc[c].op = "assign"
  /\ Len(assignments) < MaxAssignments
  /\ InsertAssignment(pc[c])
  /\ Done(c)
  /\ UNCHANGED <<overrides, workers>>

(* An override is for an active worker too.                                   *)
handleOverrideAssignment(c, t, w) == BeginDispatch(c, "overriding", t, w)

FindOverridden(c) ==
  /\ pc[c].op = "overriding"
  /\ workers[pc[c].worker].active
  /\ Dispatches(c, "override", 0, FALSE)

(* A fault: the assignment is made before the override is on record.          *)
AssignBeforeRecord(c) ==
  /\ pc[c].op = "override"
  /\ Len(assignments) < MaxAssignments
  /\ InsertAssignment(pc[c])
  /\ pc' = [pc EXCEPT ![c].op = "overridden"]
  /\ UNCHANGED <<overrides, workers, requests>>

(* The override is recorded first, the assignment by a second statement.      *)
RecordOverride(c) ==
  /\ pc[c].op = "override"
  /\ InsertOverride(pc[c].ticket, pc[c].worker)
  /\ pc' = [pc EXCEPT ![c].op = "overridden"]
  /\ UNCHANGED <<assignments, workers, requests>>

OverrideAssignment(c) ==
  /\ pc[c].op = "overridden"
  /\ Len(assignments) < MaxAssignments
  /\ InsertAssignment(pc[c])
  /\ Done(c)
  /\ UNCHANGED <<overrides, workers>>

(* The answers of the worker to an offer that was read as offered.            *)
handleAcceptAssignment(c, a) ==
  /\ assignments[a].status = "offered"
  /\ Begin(c, [op |-> "accept", assignment |-> a, row |-> assignments[a]])
  /\ UNCHANGED dispatchTables

AcceptAssignment(c) ==
  /\ pc[c].op = "accept"
  /\ UpdateAssignmentStatus(pc[c].assignment, pc[c].row, "accepted")
  /\ Done(c)
  /\ UNCHANGED <<overrides, workers>>

handleDeclineAssignment(c, a) ==
  /\ assignments[a].status = "offered"
  /\ Begin(c, [op |-> "decline", assignment |-> a, row |-> assignments[a]])
  /\ UNCHANGED dispatchTables

DeclineAssignment(c) ==
  /\ pc[c].op = "decline"
  /\ UpdateAssignmentStatus(pc[c].assignment, pc[c].row, "declined")
  /\ Done(c)
  /\ UNCHANGED <<overrides, workers>>

----------------------------------------------------------------------------
(* What the workforce package writes of a worker meanwhile.  Nothing makes a  *)
(* worker active again, or takes a window of availability away.               *)

Writes(w, row) == Served /\ workers' = [workers EXCEPT ![w] = row] /\ UNCHANGED <<assignments, overrides>>

ReviewAdverseAction(w) == Writes(w, [workers[w] EXCEPT !.active = FALSE, !.writes = @ + 1])

CreateAvailabilityWindow(w) == Writes(w, [workers[w] EXCEPT !.available = TRUE])

(* Who has just worked has not rested.  The request looked the worker up      *)
(* before and refuses who is not active, but not who no longer is.            *)
RecordTimeEntry(w) == Writes(w, [workers[w] EXCEPT !.rested = FALSE, !.writes = @ + 1])

(* After hours of rest, or at midnight.                                       *)
Rest(w) ==
  /\ ~workers[w].rested
  /\ workers' = [workers EXCEPT ![w].rested = TRUE]
  /\ UNCHANGED <<assignments, overrides, pc, requests>>

DispatchNext ==
  \/ \E c \in Client :
       \/ \E t \in DOMAIN tickets, w \in Worker : \/ handleAssignWorker(c, t, w)
                                                  \/ handleOverrideAssignment(c, t, w)
       \/ \E a \in DOMAIN assignments : \/ handleAcceptAssignment(c, a)
                                        \/ handleDeclineAssignment(c, a)
       \/ FindWorker(c) \/ FindAvailability(c) \/ \E unread \in BOOLEAN : FindTimeEntries(c, unread)
       \/ AssignWorker(c)
       \/ FindOverridden(c) \/ RecordOverride(c) \/ OverrideAssignment(c)
       \/ AcceptAssignment(c)
       \/ DeclineAssignment(c)
  \/ \E w \in Worker : \/ ReviewAdverseAction(w) \/ CreateAvailabilityWindow(w)
                       \/ RecordTimeEntry(w) \/ Rest(w)
=============================================================================
