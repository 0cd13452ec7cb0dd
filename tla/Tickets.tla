------------------------------ MODULE Tickets ------------------------------
(* The life of a ticket (internal/operations/service.go): creation, the      *)
(* transitions of state_machine.go, blocking, cancelling, reopening by a     *)
(* follow-up, the classification of incidents and service recovery.  All but *)
(* two of the operations are one transaction that holds the row of the       *)
(* ticket from its read to its commit, hence one step; ReopenTicket and      *)
(* CloseServiceRecovery read outside their transaction and take two.         *)
EXTENDS TicketStore

CONSTANT MaxTickets   \* bound: rows of the table tickets

validTransitions ==
  [draft |-> {"proposed", "cancelled"},
   proposed |-> {"approved", "rejected", "cancelled", "draft"},
   approved |-> {"scheduled", "cancelled", "draft"},
   scheduled |-> {"assigned", "blocked", "cancelled", "draft"},
   assigned |-> {"in_progress", "blocked", "cancelled", "draft"},
   in_progress |-> {"evidence_submitted", "blocked", "cancelled"},
   evidence_submitted |-> {"verified", "in_progress", "cancelled"},
   verified |-> {"closed", "in_progress"},
   closed |-> {},
   blocked |-> {"scheduled", "assigned", "in_progress", "cancelled"},
   cancelled |-> {},
   rejected |-> {"draft", "cancelled"}]

CanTransition(from, to) == to \in validTransitions[from]
IsTerminalState(s) == s \in TerminalStates

ApplyTransition(row, to) == [row EXCEPT !.status = to, !.version = @ + 1]

(* Items that require evidence and are not marked not_applicable need one     *)
(* reference that resolves to a record of the ticket.                         *)
itemHasAcceptedEvidence(row, t) == row.evidence \intersect listEvidence(t) # {}
RequiredEvidenceBlocking(t) ==
  {i \in listChecklistItems(t) : /\ items[i].required
                                 /\ items[i].status # "not_applicable"
                                 /\ ~itemHasAcceptedEvidence(items[i], t)}
assertEvidenceGates(t) == RequiredEvidenceBlocking(t) = {}

----------------------------------------------------------------------------

CreateTicket(type) ==
  /\ Len(tickets) < MaxTickets
  /\ insertTicket(NewTicket(type))
  /\ UNCHANGED <<stateEvents, alerts, recoveries>>

handleCreateTicket ==
  /\ Served
  /\ \E type \in {TypeTurnover, TypeIncident} : CreateTicket(type)

TransitionTicket(t, to, actor) ==
  LET row   == tickets[t]
      moved == [ApplyTransition(row, to) EXCEPT
                  !.verifiedBy = IF to = "verified" THEN actor ELSE @]
  IN /\ to # "blocked"
     /\ Unlocked(t)
     /\ CanTransition(row.status, to)
     /\ to \in {"evidence_submitted", "closed"} => assertEvidenceGates(t)
     /\ ~ (to = "verified" /\ row.type \in HighRiskTicketTypes /\ row.assignedTo = actor)
     /\ UpdateTicketStatus(t, moved)
     /\ InsertStateEvent(t, row.status, to, moved.version)
     /\ UNCHANGED <<alerts, recoveries>>

handleTransitionTicket(t) ==
  /\ Served
  /\ \E to \in AllStates, actor \in Actor : TransitionTicket(t, to, actor)

(* A fault: terminal tickets can be blocked.                                  *)
BlockTerminalTicket(t) ==
  LET row == tickets[t]
  IN /\ Unlocked(t)
     /\ row.status # "blocked"
     /\ SetTicketBlocker(t, row)
     /\ InsertStateEvent(t, row.status, "blocked", row.version + 1)
     /\ UNCHANGED <<alerts, recoveries>>

(* Any ticket that is neither blocked nor terminal; the table of transitions  *)
(* is not consulted.                                                          *)
BlockTicket(t) ==
  LET row == tickets[t]
  IN /\ Unlocked(t)
     /\ row.status # "blocked"
     /\ ~IsTerminalState(row.status)
     /\ SetTicketBlocker(t, row)
     /\ InsertStateEvent(t, row.status, "blocked", row.version + 1)
     /\ UNCHANGED <<alerts, recoveries>>

handleBlockTicket(t) == Served /\ BlockTicket(t)

(* A fault: the event names the usual target, not the one of the type.        *)
UnblockWithUsualEvent(t) ==
  LET row    == tickets[t]
      target == IF row.type = TypeIncident THEN "in_progress" ELSE "scheduled"
  IN /\ Unlocked(t)
     /\ row.status = "blocked"
     /\ ClearTicketBlocker(t, row, target)
     /\ InsertStateEvent(t, "blocked", "scheduled", row.version + 1)
     /\ UNCHANGED <<alerts, recoveries>>

UnblockTicket(t) ==
  LET row    == tickets[t]
      target == IF row.type = TypeIncident THEN "in_progress" ELSE "scheduled"
  IN /\ Unlocked(t)
     /\ row.status = "blocked"
     /\ ClearTicketBlocker(t, row, target)
     /\ InsertStateEvent(t, "blocked", target, row.version + 1)
     /\ UNCHANGED <<alerts, recoveries>>

handleUnblockTicket(t) == Served /\ UnblockTicket(t)

CancelTicket(t) ==
  LET row == tickets[t]
  IN /\ Unlocked(t)
     /\ ~IsTerminalState(row.status)
     /\ CanTransition(row.status, "cancelled")
     /\ UpdateTicketStatus(t, ApplyTransition(row, "cancelled"))
     /\ InsertStateEvent(t, row.status, "cancelled", row.version + 1)
     /\ UNCHANGED <<alerts, recoveries>>

handleCancelTicket(t) == Served /\ CancelTicket(t)

----------------------------------------------------------------------------
(* Reopening: the status is read before the transaction, which creates the    *)
(* follow-up, then locks the original and links it.                           *)

handleReopenTicket(c, t) ==
  /\ tickets[t].status \in {"closed", "cancelled"}
  /\ Begin(c, [op |-> "reopen", ticket |-> t, type |-> tickets[t].type])
  /\ UNCHANGED ticketTables

ReopenTicket(c) ==
  LET t == pc[c].ticket
  IN /\ pc[c].op = "reopen"
     /\ Len(tickets) < MaxTickets
     /\ Unlocked(t)
     /\ tickets' = Append([tickets EXCEPT ![t].followUp = Len(tickets) + 1, ![t].reopened = TRUE,
                                          ![t].version = @ + 1],
                          NewTicket(pc[c].type))
     /\ Done(c)
     /\ UNCHANGED <<stateEvents, alerts, recoveries>>

----------------------------------------------------------------------------
(* Incidents                                                                 *)

SeverityAlertTargets(severity) ==
  IF severity \in {"critical", "high"} THEN {"on_call", "owner"}
  ELSE IF severity = "medium" THEN {"on_call"} ELSE {}

ClassifyIncident(t, severity) ==
  LET row == tickets[t]
  IN /\ Unlocked(t)
     /\ row.type = TypeIncident
     /\ ~IsTerminalState(row.status)
     /\ UpdateTicketStatus(t, [row EXCEPT !.severity = severity, !.version = @ + 1])
     /\ InsertIncidentAlerts(t, severity, SeverityAlertTargets(severity))
     /\ UNCHANGED <<stateEvents, recoveries>>

handleClassifyIncident(t) ==
  Served /\ \E severity \in {"high", "low"} : ClassifyIncident(t, severity)

(* The failure is copied: severity and the hashes of the evidence so far.     *)
BuildRecovery(t, followUp) ==
  [incident |-> t, followUp |-> followUp, status |-> "open",
   severity |-> IF tickets[t].severity = None THEN "low" ELSE tickets[t].severity,
   hashes |-> {evidence[e].hash : e \in listEvidence(t)}]

StartServiceRecovery(t) ==
  LET row == tickets[t]
  IN /\ Unlocked(t)
     /\ Len(tickets) < MaxTickets
     /\ row.type = TypeIncident
     /\ ~IsTerminalState(row.status)
     /\ InsertServiceRecovery(BuildRecovery(t, Len(tickets) + 1))
     /\ tickets' = Append([tickets EXCEPT ![t].followUp = Len(tickets) + 1, ![t].version = @ + 1],
                          NewTicket(row.type))
     /\ UNCHANGED <<stateEvents, alerts>>

handleStartServiceRecovery(t) == Served /\ StartServiceRecovery(t)

(* The recovery is read through the pool, outside the transaction.            *)
handleCloseServiceRecovery(c, r) ==
  /\ recoveries[r].status = "open"
  /\ Begin(c, [op |-> "closeRecovery", recovery |-> r])
  /\ UNCHANGED ticketTables

CloseServiceRecovery(c) ==
  /\ pc[c].op = "closeRecovery"
  /\ CloseOpenRecovery(pc[c].recovery)
  /\ Done(c)
  /\ UNCHANGED <<tickets, stateEvents, alerts>>

----------------------------------------------------------------------------

TicketNext ==
  \/ handleCreateTicket
  \/ \E t \in DOMAIN tickets : \/ handleTransitionTicket(t)
                               \/ handleBlockTicket(t)
                               \/ handleUnblockTicket(t)
                               \/ handleCancelTicket(t)
                               \/ handleClassifyIncident(t)
                               \/ handleStartServiceRecovery(t)
  \/ \E c \in Client : \/ \E t \in DOMAIN tickets : handleReopenTicket(c, t)
                       \/ \E r \in DOMAIN recoveries : handleCloseServiceRecovery(c, r)
                       \/ ReopenTicket(c)
                       \/ CloseServiceRecovery(c)
=============================================================================
