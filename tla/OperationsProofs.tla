-------------------------- MODULE OperationsProofs --------------------------
(***************************************************************************)
(* What the tables of the operations package keep to however requests      *)
(* interleave, for any number of requests, tickets, items and assignments: *)
(* the events tell where a ticket is, a reopened ticket stays closed, what *)
(* is uploaded is recorded, an override is on record before the assignment *)
(* it allows, and a synchronisation is applied once under its key.         *)
(***************************************************************************)
EXTENDS Operations, TableLemmas

-----------------------------------------------------------------------------
(* The frames of requests *)

\* A step touches one frame at most, and leaves there one of its own component.
TicketOps == {"idle", "reopen", "closeRecovery"}

LEMMA TicketFrames ==
  ASSUME DOMAIN pc = Client, TicketNext
  PROVE  DOMAIN pc' = Client /\ \A d \in Client : pc'[d] = pc[d] \/ pc'[d].op \in TicketOps
  <1> DEFINE Goal == DOMAIN pc' = Client /\ \A d \in Client : pc'[d] = pc[d] \/ pc'[d].op \in TicketOps
  <1>1. ASSUME handleCreateTicket PROVE Goal
    BY <1>1 DEF TicketOps, handleCreateTicket, Served
  <1>2. ASSUME NEW c \in Client, ReopenTicket(c) PROVE Goal
    BY <1>2 DEF TicketOps, ReopenTicket, Done, Idle
  <1>3. ASSUME NEW c \in Client, CloseServiceRecovery(c) PROVE Goal
    BY <1>3 DEF TicketOps, CloseServiceRecovery, Done, Idle
  <1>4. ASSUME NEW c \in Client, NEW t \in DOMAIN tickets, handleReopenTicket(c, t) PROVE Goal
    BY <1>4 DEF TicketOps, handleReopenTicket, Begin
  <1>5. ASSUME NEW c \in Client, NEW r \in DOMAIN recoveries, handleCloseServiceRecovery(c, r) PROVE Goal
    BY <1>5 DEF TicketOps, handleCloseServiceRecovery, Begin
  <1>6. ASSUME pc' = pc PROVE Goal
    BY <1>6
  <1> HIDE DEF Goal
  <1>7. ASSUME NEW t \in DOMAIN tickets,
               \/ handleTransitionTicket(t) \/ handleBlockTicket(t) \/ handleUnblockTicket(t)
               \/ handleCancelTicket(t) \/ handleClassifyIncident(t) \/ handleStartServiceRecovery(t)
        PROVE  pc' = pc
    BY <1>7 DEF handleTransitionTicket, handleBlockTicket, handleUnblockTicket, handleCancelTicket,
                handleClassifyIncident, handleStartServiceRecovery, Served
  <1>8. Goal
    BY <1>1, <1>2, <1>3, <1>4, <1>5, <1>6, <1>7 DEF TicketNext
  <1>9. QED
    BY <1>8 DEF Goal

ChecklistOps == {"idle", "checklist", "sync", "register", "queue", "upload"}

LEMMA ChecklistFrames ==
  ASSUME DOMAIN pc = Client, ChecklistNext
  PROVE  DOMAIN pc' = Client /\ \A d \in Client : pc'[d] = pc[d] \/ pc'[d].op \in ChecklistOps
  BY DEF ChecklistOps, ChecklistNext, handleSyncChecklist, SyncChecklist, handleIdempotentSyncChecklist,
         IdempotentSyncChecklist, handleRegisterEvidence, RegisterEvidence, handleQueueOfflineEvidence,
         QueueOfflineEvidence, handleSyncOfflineEvidence, SyncOfflineEvidence, Begin, Done, Idle

\* The operations that dispatch has.
Dispatched == {"assigning", "available", "rested", "assign", "overriding", "override", "overridden"}
Answered == {"accept", "decline"}
DispatchOps == {"idle"} \union Dispatched \union Answered

LEMMA DispatchFrames ==
  ASSUME DOMAIN pc = Client, DispatchNext
  PROVE  DOMAIN pc' = Client /\ \A d \in Client : pc'[d] = pc[d] \/ pc'[d].op \in DispatchOps
  <1> DEFINE Goal == DOMAIN pc' = Client /\ \A d \in Client : pc'[d] = pc[d] \/ pc'[d].op \in DispatchOps
  <1>1. ASSUME NEW c \in Client, NEW t \in DOMAIN tickets, NEW w \in Worker,
               handleAssignWorker(c, t, w) \/ handleOverrideAssignment(c, t, w)
        PROVE  Goal
    BY <1>1 DEF DispatchOps, Dispatched, handleAssignWorker, handleOverrideAssignment, BeginDispatch, Dispatching, Begin
  <1>2. ASSUME NEW c \in Client, NEW a \in DOMAIN assignments,
               handleAcceptAssignment(c, a) \/ handleDeclineAssignment(c, a)
        PROVE  Goal
    BY <1>2 DEF DispatchOps, Answered, handleAcceptAssignment, handleDeclineAssignment, Begin
  <1>3. ASSUME NEW c \in Client,
               \/ FindWorker(c) \/ FindAvailability(c) \/ FindOverridden(c)
               \/ \E unread \in BOOLEAN : FindTimeEntries(c, unread)
        PROVE  Goal
    BY <1>3 DEF DispatchOps, Dispatched, FindWorker, FindAvailability, FindOverridden, FindTimeEntries, Dispatches,
                Dispatching
  <1>4. ASSUME NEW c \in Client,
               AssignWorker(c) \/ OverrideAssignment(c) \/ AcceptAssignment(c) \/ DeclineAssignment(c)
        PROVE  Goal
    BY <1>4 DEF DispatchOps, AssignWorker, OverrideAssignment, AcceptAssignment, DeclineAssignment, Done, Idle
  <1>5. ASSUME NEW c \in Client, RecordOverride(c) PROVE Goal
    BY <1>5 DEF DispatchOps, Dispatched, RecordOverride
  <1>6. ASSUME pc' = pc PROVE Goal
    BY <1>6
  <1>7. ASSUME NEW w \in Worker,
               ReviewAdverseAction(w) \/ CreateAvailabilityWindow(w) \/ RecordTimeEntry(w) \/ Rest(w)
        PROVE  pc' = pc
    BY <1>7 DEF ReviewAdverseAction, CreateAvailabilityWindow, RecordTimeEntry, Rest, Writes, Served
  <1> HIDE DEF Goal
  <1>8. Goal
    BY <1>1, <1>2, <1>3, <1>4, <1>5, <1>6, <1>7 DEF DispatchNext
  <1>9. QED
    BY <1>8 DEF Goal

LEMMA AbandonFrames ==
  ASSUME DOMAIN pc = Client, NEW c \in Client, Abandon(c)
  PROVE  /\ DOMAIN pc' = Client
         /\ \A d \in Client : pc'[d] = pc[d] \/ pc'[d].op = "idle"
         /\ UNCHANGED <<ticketTables, checklistTables, dispatchTables>>
  BY DEF Abandon, Done, Idle

-----------------------------------------------------------------------------
(* Tickets and their events *)

\* A row has the columns of the table, and a version.
IsTicket(row) ==
  /\ DOMAIN row = {"type", "status", "version", "blocker", "assignedTo", "verifiedBy", "followUp", "reopened",
                   "severity"}
  /\ row.version \in Nat

\* An event is of a ticket that there is.
EventsNameTickets == \A n \in DOMAIN stateEvents : stateEvents[n].ticket \in DOMAIN tickets

\* A reopening under way is of a ticket that is closed or cancelled for good.
Reopening(c) ==
  pc[c].op = "reopen" => /\ pc[c].ticket \in DOMAIN tickets
                         /\ tickets[pc[c].ticket].status \in TerminalStates

TicketsInv ==
  /\ DOMAIN pc = Client
  /\ IsTable(tickets)
  /\ \A t \in DOMAIN tickets : IsTicket(tickets[t])
  /\ IsTable(stateEvents)
  /\ EventsNameTickets
  /\ \A n \in DOMAIN stateEvents : stateEvents[n].version \in Nat
  /\ EventsTellStatus
  /\ ReopenedStaysTerminal
  /\ \A c \in Client : Reopening(c)

\* No ticket goes, and its type is what it was.
TypesStay ==
  DOMAIN tickets \subseteq DOMAIN tickets' /\ \A t \in DOMAIN tickets : tickets'[t].type = tickets[t].type

\* A ticket that is closed or cancelled is moved nowhere.
LEMMA TerminalIsFinal ==
  ASSUME NEW from \in TerminalStates, NEW to \in AllStates
  PROVE  ~CanTransition(from, to)
  BY DEF CanTransition, validTransitions, TerminalStates

\* Rows change and are added without an event: the status stays.
LEMMA QuietStep ==
  ASSUME TicketsInv, IsTable(tickets'), DOMAIN tickets \subseteq DOMAIN tickets',
         \A t \in DOMAIN tickets :
           /\ tickets'[t].status = tickets[t].status /\ tickets'[t].version >= tickets[t].version
           /\ tickets'[t].type = tickets[t].type,
         \A t \in DOMAIN tickets' :
           IsTicket(tickets'[t]) /\ (tickets'[t].reopened => tickets'[t].status \in TerminalStates),
         stateEvents' = stateEvents,
         DOMAIN pc' = Client, \A c \in Client : pc'[c] = pc[c] \/ Reopening(c)'
  PROVE  TicketsInv' /\ TypesStay
  <1>1. \A c \in Client : Reopening(c)'
    BY DEF TicketsInv, Reopening
  <1>2. ASSUME NEW n \in DOMAIN stateEvents
        PROVE  TellsStatus(n)'
    <2>1. TellsStatus(n) /\ LaterEvents(n)' = LaterEvents(n)
      BY DEF TicketsInv, EventsTellStatus, LaterEvents
    <2>2. PICK t : t = stateEvents[n].ticket
      OBVIOUS
    <2>3. t \in DOMAIN tickets /\ IsTicket(tickets[t]) /\ IsTicket(tickets'[t]) /\ stateEvents[n].version \in Nat
      BY <2>2 DEF TicketsInv, EventsNameTickets
    <2>4. tickets[t].version \in Nat /\ tickets'[t].version \in Nat
      BY <2>3 DEF IsTicket
    <2>5. stateEvents[n].version <= tickets'[t].version
      BY <2>1, <2>2, <2>3, <2>4 DEF TellsStatus
    <2>6. QED
      BY <2>1, <2>2, <2>3, <2>5 DEF TellsStatus
  <1>3. EventsNameTickets'
    BY DEF TicketsInv, EventsNameTickets
  <1>4. QED
    BY <1>1, <1>2, <1>3 DEF TicketsInv, TypesStay, EventsTellStatus, ReopenedStaysTerminal

\* A ticket that is not terminal gets another status, and an event that tells it.
LEMMA EventStep ==
  ASSUME TicketsInv, NEW t \in DOMAIN tickets, NEW row, IsTicket(row),
         tickets[t].status \notin TerminalStates,
         row.version = tickets[t].version + 1, row.reopened = tickets[t].reopened, row.type = tickets[t].type,
         tickets' = [tickets EXCEPT ![t] = row],
         stateEvents' = Append(stateEvents, [ticket |-> t, from |-> tickets[t].status, to |-> row.status,
                                             version |-> row.version]),
         pc' = pc
  PROVE  TicketsInv' /\ TypesStay
  <1> DEFINE event == [ticket |-> t, from |-> tickets[t].status, to |-> row.status, version |-> row.version]
  <1>1. /\ IsTable(tickets') /\ DOMAIN tickets' = DOMAIN tickets
        /\ \A u \in DOMAIN tickets : tickets'[u] = IF u = t THEN row ELSE tickets[u]
    BY TableUpdated DEF TicketsInv
  <1>2. PICK new : new = Len(stateEvents) + 1
    OBVIOUS
  <1>3. /\ IsTable(stateEvents') /\ new \notin DOMAIN stateEvents
        /\ DOMAIN stateEvents' = DOMAIN stateEvents \union {new}
        /\ \A n \in DOMAIN stateEvents : stateEvents'[n] = stateEvents[n]
        /\ stateEvents'[new] = event
    BY <1>2, TableInserted DEF TicketsInv
  <1>4. \A n \in DOMAIN stateEvents : n \in Nat /\ n < new
    BY <1>2, TableRows DEF TicketsInv
  <1>5. event.ticket = t /\ event.from = tickets[t].status /\ event.to = row.status /\ event.version = row.version
    OBVIOUS
  <1> HIDE DEF event
  <1>6. IsTicket(tickets[t])
    BY DEF TicketsInv
  <1>7. row.version \in Nat /\ tickets[t].version \in Nat
    BY <1>6 DEF IsTicket
  <1>8. TellsStatus(new)'
    <2>1. LaterEvents(new)' = {}
      BY <1>2, <1>3, <1>4, TableRows DEF LaterEvents, TicketsInv
    <2>2. QED
      BY <1>1, <1>3, <1>5, <1>7, <2>1 DEF TellsStatus
  <1>9. ASSUME NEW n \in DOMAIN stateEvents, stateEvents[n].ticket # t
        PROVE  TellsStatus(n)'
    <2>1. TellsStatus(n) /\ stateEvents'[n] = stateEvents[n] /\ stateEvents[n].ticket \in DOMAIN tickets
      BY <1>3 DEF TicketsInv, EventsTellStatus, EventsNameTickets
    <2>2. LaterEvents(n)' = LaterEvents(n)
      BY <1>3, <1>5, <1>9 DEF LaterEvents
    <2>3. tickets'[stateEvents[n].ticket] = tickets[stateEvents[n].ticket]
      BY <1>1, <1>9, <2>1
    <2>4. \A m \in LaterEvents(n) : stateEvents'[m] = stateEvents[m]
      BY <1>3 DEF LaterEvents
    <2>5. QED
      BY <2>1, <2>2, <2>3, <2>4 DEF TellsStatus
  <1>10. ASSUME NEW n \in DOMAIN stateEvents, stateEvents[n].ticket = t
         PROVE  TellsStatus(n)'
    <2>1. TellsStatus(n) /\ stateEvents'[n] = stateEvents[n] /\ stateEvents[n].version \in Nat
      BY <1>3 DEF TicketsInv, EventsTellStatus
    <2>2. LaterEvents(n)' = LaterEvents(n) \union {new}
      BY <1>3, <1>4, <1>5, <1>10 DEF LaterEvents
    <2>3. stateEvents[n].version <= tickets[t].version
      BY <1>10, <2>1 DEF TellsStatus
    <2>4. stateEvents[n].version < row.version /\ stateEvents'[n].version <= tickets'[t].version
      BY <1>1, <1>7, <2>1, <2>3
    <2>5. LaterEvents(n)' # {} /\ stateEvents'[n].ticket = t
      BY <1>10, <2>1, <2>2
    <2>6. \A m \in LaterEvents(n) : m \in DOMAIN stateEvents /\ stateEvents'[m] = stateEvents[m] /\ m <= new
      BY <1>2, <1>3, <1>4, TableRows DEF LaterEvents, TicketsInv
    <2>7. CASE LaterEvents(n) = {}
      <3>1. stateEvents[n].to = tickets[t].status
        BY <1>10, <2>1, <2>7 DEF TellsStatus
      <3>2. LaterEvents(n)' = {new} /\ new <= new
        BY <1>2, <2>2, <2>7, TableRows DEF TicketsInv
      <3>3. stateEvents'[new].from = stateEvents'[n].to /\ stateEvents'[new].version > stateEvents'[n].version
        BY <1>3, <1>5, <1>7, <2>1, <2>4, <3>1
      <3>4. QED
        BY <2>4, <2>5, <3>2, <3>3 DEF TellsStatus
    <2>8. CASE LaterEvents(n) # {}
      <3>1. PICK next \in LaterEvents(n) : /\ \A m \in LaterEvents(n) : next <= m
                                           /\ stateEvents[next].from = stateEvents[n].to
                                           /\ stateEvents[next].version > stateEvents[n].version
        BY <2>1, <2>8 DEF TellsStatus
      <3>2. /\ next \in LaterEvents(n)' /\ \A m \in LaterEvents(n)' : next <= m
            /\ stateEvents'[next].from = stateEvents'[n].to
            /\ stateEvents'[next].version > stateEvents'[n].version
        BY <2>1, <2>2, <2>6, <3>1
      <3>3. QED
        BY <2>4, <2>5, <3>2 DEF TellsStatus
    <2>9. QED
      BY <2>7, <2>8
  <1>11. \A n \in DOMAIN stateEvents' : TellsStatus(n)'
    BY <1>3, <1>8, <1>9, <1>10
  <1>12. EventsNameTickets' /\ \A n \in DOMAIN stateEvents' : stateEvents'[n].version \in Nat
    BY <1>1, <1>3, <1>5, <1>7 DEF TicketsInv, EventsNameTickets
  <1>13. ReopenedStaysTerminal'
    BY <1>1 DEF TicketsInv, ReopenedStaysTerminal
  <1>14. \A c \in Client : Reopening(c)'
    BY <1>1 DEF TicketsInv, Reopening
  <1>15. QED
    BY <1>1, <1>3, <1>11, <1>12, <1>13, <1>14 DEF TicketsInv, TypesStay, EventsTellStatus

LEMMA TransitionStep ==
  ASSUME TicketsInv, NEW t \in DOMAIN tickets, handleTransitionTicket(t)
  PROVE  TicketsInv' /\ TypesStay
  <1>1. PICK to \in AllStates, actor \in Actor : TransitionTicket(t, to, actor) /\ pc' = pc
    BY DEF handleTransitionTicket, Served
  <1> DEFINE row == [ApplyTransition(tickets[t], to) EXCEPT !.verifiedBy = IF to = "verified" THEN actor ELSE @]
  <1>2. IsTicket(tickets[t])
    BY DEF TicketsInv
  <1>3. /\ CanTransition(tickets[t].status, to)
        /\ tickets' = [tickets EXCEPT ![t] = row]
        /\ stateEvents' = Append(stateEvents, [ticket |-> t, from |-> tickets[t].status, to |-> to,
                                               version |-> row.version])
    BY <1>1 DEF TransitionTicket, UpdateTicketStatus, InsertStateEvent
  <1>4. /\ IsTicket(row) /\ row.version = tickets[t].version + 1 /\ row.reopened = tickets[t].reopened
        /\ row.type = tickets[t].type /\ row.status = to
    BY <1>2 DEF IsTicket, ApplyTransition
  <1>5. tickets[t].status \notin TerminalStates
    BY <1>3, TerminalIsFinal
  <1>6. QED
    BY <1>1, <1>3, <1>4, <1>5, EventStep

LEMMA CancelStep ==
  ASSUME TicketsInv, NEW t \in DOMAIN tickets, handleCancelTicket(t)
  PROVE  TicketsInv' /\ TypesStay
  <1> DEFINE row == ApplyTransition(tickets[t], "cancelled")
  <1>1. IsTicket(tickets[t])
    BY DEF TicketsInv
  <1>2. /\ tickets[t].status \notin TerminalStates /\ pc' = pc
        /\ tickets' = [tickets EXCEPT ![t] = row]
        /\ stateEvents' = Append(stateEvents, [ticket |-> t, from |-> tickets[t].status, to |-> "cancelled",
                                               version |-> tickets[t].version + 1])
    BY DEF handleCancelTicket, Served, CancelTicket, IsTerminalState, UpdateTicketStatus, InsertStateEvent
  <1>3. /\ IsTicket(row) /\ row.version = tickets[t].version + 1 /\ row.reopened = tickets[t].reopened
        /\ row.type = tickets[t].type /\ row.status = "cancelled"
    BY <1>1 DEF IsTicket, ApplyTransition
  <1>4. QED
    BY <1>2, <1>3, EventStep

LEMMA BlockStep ==
  ASSUME TicketsInv, NEW t \in DOMAIN tickets, handleBlockTicket(t)
  PROVE  TicketsInv' /\ TypesStay
  <1> DEFINE row == [tickets[t] EXCEPT !.status = "blocked", !.version = @ + 1, !.blocker = TRUE]
  <1>1. IsTicket(tickets[t])
    BY DEF TicketsInv
  <1>2. /\ tickets[t].status \notin TerminalStates /\ pc' = pc
        /\ tickets' = [tickets EXCEPT ![t] = row]
        /\ stateEvents' = Append(stateEvents, [ticket |-> t, from |-> tickets[t].status, to |-> "blocked",
                                               version |-> tickets[t].version + 1])
    BY DEF handleBlockTicket, Served, BlockTicket, IsTerminalState, SetTicketBlocker, InsertStateEvent
  <1>3. /\ IsTicket(row) /\ row.version = tickets[t].version + 1 /\ row.reopened = tickets[t].reopened
        /\ row.type = tickets[t].type /\ row.status = "blocked"
    BY <1>1 DEF IsTicket, ApplyTransition
  <1>4. QED
    BY <1>2, <1>3, EventStep

LEMMA UnblockStep ==
  ASSUME TicketsInv, NEW t \in DOMAIN tickets, handleUnblockTicket(t)
  PROVE  TicketsInv' /\ TypesStay
  <1> DEFINE target == IF tickets[t].type = TypeIncident THEN "in_progress" ELSE "scheduled"
             row == [tickets[t] EXCEPT !.status = target, !.version = @ + 1, !.blocker = FALSE]
  <1>1. IsTicket(tickets[t])
    BY DEF TicketsInv
  <1>2. /\ tickets[t].status = "blocked" /\ pc' = pc
        /\ tickets' = [tickets EXCEPT ![t] = row]
        /\ stateEvents' = Append(stateEvents, [ticket |-> t, from |-> "blocked", to |-> target,
                                               version |-> tickets[t].version + 1])
    BY DEF handleUnblockTicket, Served, UnblockTicket, ClearTicketBlocker, InsertStateEvent
  <1>3. /\ IsTicket(row) /\ row.version = tickets[t].version + 1 /\ row.reopened = tickets[t].reopened
        /\ row.type = tickets[t].type /\ row.status = target
    BY <1>1 DEF IsTicket, ApplyTransition
  <1>4. tickets[t].status \notin TerminalStates
    BY <1>2 DEF TerminalStates
  <1>5. QED
    BY <1>2, <1>3, <1>4, EventStep

LEMMA ClassifyStep ==
  ASSUME TicketsInv, NEW t \in DOMAIN tickets, handleClassifyIncident(t)
  PROVE  TicketsInv' /\ TypesStay
  <1>1. PICK severity \in {"high", "low"} : ClassifyIncident(t, severity) /\ pc' = pc
    BY DEF handleClassifyIncident, Served
  <1> DEFINE row == [tickets[t] EXCEPT !.severity = severity, !.version = @ + 1]
  <1>2. IsTicket(tickets[t])
    BY DEF TicketsInv
  <1>3. tickets' = [tickets EXCEPT ![t] = row] /\ stateEvents' = stateEvents
    BY <1>1 DEF ClassifyIncident, UpdateTicketStatus
  <1>4. /\ IsTicket(row) /\ row.version = tickets[t].version + 1 /\ row.reopened = tickets[t].reopened
        /\ row.type = tickets[t].type /\ row.status = tickets[t].status
    BY <1>2 DEF IsTicket, ApplyTransition
  <1>5. /\ IsTable(tickets') /\ DOMAIN tickets' = DOMAIN tickets
        /\ \A u \in DOMAIN tickets : tickets'[u] = IF u = t THEN row ELSE tickets[u]
    BY <1>3, <1>4, TableUpdated DEF TicketsInv
  <1>6. \A u \in DOMAIN tickets : tickets[u].version \in Nat
    BY DEF TicketsInv, IsTicket
  <1> HIDE DEF row
  <1>7. \A u \in DOMAIN tickets : /\ tickets'[u].status = tickets[u].status
                                  /\ tickets'[u].version >= tickets[u].version
                                  /\ tickets'[u].type = tickets[u].type
                                  /\ tickets'[u].reopened = tickets[u].reopened
    BY <1>4, <1>5, <1>6
  <1>8. \A u \in DOMAIN tickets' :
          IsTicket(tickets'[u]) /\ (tickets'[u].reopened => tickets'[u].status \in TerminalStates)
    BY <1>4, <1>5, <1>7 DEF TicketsInv, ReopenedStaysTerminal
  <1>9. DOMAIN pc' = Client /\ \A c \in Client : pc'[c] = pc[c]
    BY <1>1 DEF TicketsInv
  <1>10. QED
    BY <1>3, <1>5, <1>7, <1>8, <1>9, QuietStep

\* A follow-up is inserted and linked: the status of its original stays.
LEMMA FollowUpStep ==
  ASSUME TicketsInv, NEW t \in DOMAIN tickets, NEW row, IsTicket(row), NEW type,
         tickets' = Append([tickets EXCEPT ![t] = row], NewTicket(type)),
         row.version = tickets[t].version + 1, row.status = tickets[t].status, row.type = tickets[t].type,
         row.reopened => row.status \in TerminalStates,
         stateEvents' = stateEvents,
         DOMAIN pc' = Client, \A c \in Client : pc'[c] = pc[c] \/ pc'[c].op # "reopen"
  PROVE  TicketsInv' /\ TypesStay
  <1> DEFINE linked == [tickets EXCEPT ![t] = row]
  <1>1. /\ IsTable(linked) /\ DOMAIN linked = DOMAIN tickets
        /\ \A u \in DOMAIN tickets : linked[u] = IF u = t THEN row ELSE tickets[u]
    BY TableUpdated DEF TicketsInv
  <1> HIDE DEF linked
  <1>2. IsTicket(NewTicket(type)) /\ NewTicket(type).reopened = FALSE
    BY DEF NewTicket, IsTicket
  <1>3. PICK new : new = Len(linked) + 1
    OBVIOUS
  <1>4. tickets' = Append(linked, NewTicket(type))
    BY DEF linked
  <1>5. /\ IsTable(tickets') /\ DOMAIN tickets' = DOMAIN tickets \union {new}
        /\ \A u \in DOMAIN tickets : tickets'[u] = linked[u]
        /\ tickets'[new] = NewTicket(type)
    <2>1. /\ IsTable(Append(linked, NewTicket(type)))
          /\ DOMAIN Append(linked, NewTicket(type)) = DOMAIN linked \union {new}
          /\ \A u \in DOMAIN linked : Append(linked, NewTicket(type))[u] = linked[u]
          /\ Append(linked, NewTicket(type))[new] = NewTicket(type)
      BY <1>1, <1>3, TableInserted
    <2>2. QED
      BY <1>1, <1>4, <2>1
  <1>6. \A u \in DOMAIN tickets : tickets[u].version \in Nat
    BY DEF TicketsInv, IsTicket
  <1>7. \A u \in DOMAIN tickets : /\ tickets'[u].status = tickets[u].status
                                  /\ tickets'[u].version >= tickets[u].version
                                  /\ tickets'[u].type = tickets[u].type
    BY <1>1, <1>5, <1>6
  <1>8. \A u \in DOMAIN tickets' :
          IsTicket(tickets'[u]) /\ (tickets'[u].reopened => tickets'[u].status \in TerminalStates)
    BY <1>1, <1>2, <1>5 DEF TicketsInv, ReopenedStaysTerminal
  <1>9. \A c \in Client : pc'[c] = pc[c] \/ Reopening(c)'
    BY DEF Reopening
  <1>10. DOMAIN tickets \subseteq DOMAIN tickets'
    BY <1>5
  <1>11. QED
    BY <1>5, <1>7, <1>8, <1>9, <1>10, QuietStep

LEMMA RecoveryStep ==
  ASSUME TicketsInv, NEW t \in DOMAIN tickets, handleStartServiceRecovery(t)
  PROVE  TicketsInv' /\ TypesStay
  <1> DEFINE row == [tickets[t] EXCEPT !.followUp = Len(tickets) + 1, !.version = @ + 1]
  <1>1. IsTicket(tickets[t]) /\ Len(tickets) \in Nat
    BY TableRows DEF TicketsInv
  <1>2. /\ pc' = pc /\ stateEvents' = stateEvents
        /\ tickets' = Append([tickets EXCEPT ![t] = row], NewTicket(tickets[t].type))
    BY DEF handleStartServiceRecovery, Served, StartServiceRecovery
  <1>3. /\ IsTicket(row) /\ row.version = tickets[t].version + 1 /\ row.reopened = tickets[t].reopened
        /\ row.type = tickets[t].type /\ row.status = tickets[t].status
    BY <1>1 DEF IsTicket, ApplyTransition
  <1>4. row.reopened => row.status \in TerminalStates
    BY <1>3 DEF TicketsInv, ReopenedStaysTerminal
  <1>5. DOMAIN pc' = Client /\ \A c \in Client : pc'[c] = pc[c]
    BY <1>2 DEF TicketsInv
  <1>6. QED
    BY <1>2, <1>3, <1>4, <1>5, FollowUpStep

LEMMA ReopenStep ==
  ASSUME TicketsInv, NEW c \in Client, ReopenTicket(c)
  PROVE  TicketsInv' /\ TypesStay
  <1>1. PICK t : t = pc[c].ticket
    OBVIOUS
  <1> DEFINE row == [tickets[t] EXCEPT !.followUp = Len(tickets) + 1, !.reopened = TRUE, !.version = @ + 1]
  <1>2. /\ pc[c].op = "reopen" /\ Reopening(c)
        /\ stateEvents' = stateEvents /\ pc' = [pc EXCEPT ![c] = Idle]
        /\ tickets' = Append([tickets EXCEPT ![t] = row], NewTicket(pc[c].type))
    BY <1>1 DEF ReopenTicket, Done, TicketsInv
  <1>3. t \in DOMAIN tickets /\ tickets[t].status \in TerminalStates
    BY <1>1, <1>2 DEF Reopening
  <1>4. IsTicket(tickets[t]) /\ Len(tickets) \in Nat
    BY <1>3, TableRows DEF TicketsInv
  <1>5. /\ IsTicket(row) /\ row.version = tickets[t].version + 1 /\ row.status = tickets[t].status
        /\ row.type = tickets[t].type
    BY <1>4 DEF IsTicket, ApplyTransition
  <1>6. DOMAIN pc' = Client /\ \A d \in Client : pc'[d] = pc[d] \/ pc'[d].op # "reopen"
    BY <1>2 DEF TicketsInv, Idle
  <1>7. QED
    BY <1>2, <1>3, <1>5, <1>6, FollowUpStep

LEMMA CreateStep ==
  ASSUME TicketsInv, handleCreateTicket
  PROVE  TicketsInv' /\ TypesStay
  <1>1. PICK type \in {TypeTurnover, TypeIncident} : CreateTicket(type) /\ pc' = pc
    BY DEF handleCreateTicket, Served
  <1>2. IsTicket(NewTicket(type)) /\ NewTicket(type).reopened = FALSE
    BY DEF NewTicket, IsTicket
  <1>3. tickets' = Append(tickets, NewTicket(type)) /\ stateEvents' = stateEvents
    BY <1>1 DEF CreateTicket, insertTicket
  <1>4. PICK new : /\ IsTable(tickets')
                   /\ DOMAIN tickets' = DOMAIN tickets \union {new}
                   /\ \A u \in DOMAIN tickets : tickets'[u] = tickets[u]
                   /\ tickets'[new] = NewTicket(type)
    BY <1>2, <1>3, TableInserted DEF TicketsInv
  <1>5. \A u \in DOMAIN tickets : tickets[u].version \in Nat
    BY DEF TicketsInv, IsTicket
  <1>6. \A u \in DOMAIN tickets : /\ tickets'[u].status = tickets[u].status
                                  /\ tickets'[u].version >= tickets[u].version
                                  /\ tickets'[u].type = tickets[u].type
    BY <1>4, <1>5
  <1>7. \A u \in DOMAIN tickets' :
          IsTicket(tickets'[u]) /\ (tickets'[u].reopened => tickets'[u].status \in TerminalStates)
    BY <1>2, <1>4 DEF TicketsInv, ReopenedStaysTerminal
  <1>8. DOMAIN pc' = Client /\ \A c \in Client : pc'[c] = pc[c]
    BY <1>1 DEF TicketsInv
  <1>9. DOMAIN tickets \subseteq DOMAIN tickets'
    BY <1>4
  <1>10. QED
    BY <1>3, <1>4, <1>6, <1>7, <1>8, <1>9, QuietStep

\* The tickets and their events stay, and no frame is one of a reopening that was not.
LEMMA OtherStep ==
  ASSUME TicketsInv, UNCHANGED <<tickets, stateEvents>>, DOMAIN pc' = Client,
         \A c \in Client : pc'[c] = pc[c] \/ Reopening(c)'
  PROVE  TicketsInv' /\ TypesStay
  <1>1. \A t \in DOMAIN tickets : tickets[t].version \in Nat
    BY DEF TicketsInv, IsTicket
  <1>2. \A t \in DOMAIN tickets : /\ tickets'[t].status = tickets[t].status
                                  /\ tickets'[t].version >= tickets[t].version
                                  /\ tickets'[t].type = tickets[t].type
    BY <1>1
  <1>3. \A t \in DOMAIN tickets' :
          IsTicket(tickets'[t]) /\ (tickets'[t].reopened => tickets'[t].status \in TerminalStates)
    BY DEF TicketsInv, ReopenedStaysTerminal
  <1>4. IsTable(tickets') /\ DOMAIN tickets \subseteq DOMAIN tickets'
    BY DEF TicketsInv
  <1>5. QED
    BY <1>2, <1>3, <1>4, QuietStep

LEMMA TicketsStep ==
  ASSUME TicketsInv, [Next]_vars
  PROVE  TicketsInv' /\ TypesStay
  <1>1. CASE TicketNext
    <2>1. ASSUME NEW c \in Client, NEW t \in DOMAIN tickets, handleReopenTicket(c, t)
          PROVE  TicketsInv' /\ TypesStay
      <3>1. /\ tickets[t].status \in TerminalStates
            /\ pc' = [pc EXCEPT ![c] = [op |-> "reopen", ticket |-> t, type |-> tickets[t].type]]
            /\ UNCHANGED <<tickets, stateEvents>>
        BY <2>1 DEF handleReopenTicket, Begin, ticketTables, TerminalStates
      <3>3. Reopening(c)'
        BY <3>1 DEF TicketsInv, Reopening
      <3>4. QED
        BY <3>1, <3>3, OtherStep DEF TicketsInv
    <2>2. ASSUME NEW c \in Client, NEW r \in DOMAIN recoveries, handleCloseServiceRecovery(c, r)
          PROVE  TicketsInv' /\ TypesStay
      <3>1. /\ UNCHANGED <<tickets, stateEvents>> /\ DOMAIN pc' = Client
            /\ \A d \in Client : pc'[d] = pc[d] \/ pc'[d].op # "reopen"
        BY <2>2 DEF handleCloseServiceRecovery, Begin, ticketTables, TicketsInv
      <3>2. QED
        BY <3>1, OtherStep DEF Reopening
    <2>3. ASSUME NEW c \in Client, CloseServiceRecovery(c)
          PROVE  TicketsInv' /\ TypesStay
      <3>1. /\ UNCHANGED <<tickets, stateEvents>> /\ DOMAIN pc' = Client
            /\ \A d \in Client : pc'[d] = pc[d] \/ pc'[d].op # "reopen"
        BY <2>3 DEF CloseServiceRecovery, Done, Idle, TicketsInv
      <3>2. QED
        BY <3>1, OtherStep DEF Reopening
    <2>4. QED
      BY <1>1, <2>1, <2>2, <2>3, CreateStep, TransitionStep, BlockStep, UnblockStep, CancelStep,
         ClassifyStep, RecoveryStep, ReopenStep DEF TicketNext
  <1>2. CASE ChecklistNext /\ UNCHANGED ticketTables
    BY <1>2, ChecklistFrames, OtherStep DEF ChecklistOps, TicketsInv, Reopening, ticketTables
  <1>3. CASE DispatchNext /\ UNCHANGED ticketTables
    BY <1>3, DispatchFrames, OtherStep DEF DispatchOps, Dispatched, Answered, TicketsInv, Reopening, ticketTables
  <1>4. ASSUME NEW c \in Client, Abandon(c)
        PROVE  TicketsInv' /\ TypesStay
    BY <1>4, AbandonFrames, OtherStep DEF TicketsInv, Reopening, ticketTables
  <1>5. CASE UNCHANGED vars
    BY <1>5, OtherStep DEF TicketsInv, vars, ticketTables
  <1>6. QED
    BY <1>1, <1>2, <1>3, <1>4, <1>5 DEF Next

\* The events and the tickets in every reachable state.
LEMMA TicketsAlways == Spec => []TicketsInv
  <1>1. Init => TicketsInv
    <2> SUFFICES ASSUME Init
                 PROVE  TicketsInv
      OBVIOUS
    <2>1. tickets \in StartTickets /\ stateEvents = <<>> /\ pc = [c \in Client |-> Idle]
      BY DEF Init
    <2>2. tickets \in Seq(Ticket) /\ ReopenedStaysTerminal
      BY <2>1, StartIsConsistent DEF ReopenedStaysTerminal
    <2>3. IsTable(tickets) /\ \A t \in DOMAIN tickets : tickets[t] \in Ticket
      BY <2>2, Rows, TableOf
    <2>4. \A t \in DOMAIN tickets : IsTicket(tickets[t])
      BY <2>3 DEF Ticket, IsTicket
    <2>5. QED
      BY <2>1, <2>2, <2>3, <2>4, EmptyTable DEF TicketsInv, EventsNameTickets, EventsTellStatus, Reopening, Idle
  <1>2. TicketsInv /\ [Next]_vars => TicketsInv'
    BY TicketsStep
  <1>3. QED
    BY <1>1, <1>2, PTL DEF Spec

\* Whoever replays the events of a ticket learns its status.
THEOREM EventsCorrect == Spec => []EventsTellStatus
  <1>1. TicketsInv => EventsTellStatus
    BY DEF TicketsInv
  <1>2. QED
    BY <1>1, TicketsAlways, PTL

\* A ticket with a follow-up that reopened it is not open beside it.
THEOREM ReopenedCorrect == Spec => []ReopenedStaysTerminal
  <1>1. TicketsInv => ReopenedStaysTerminal
    BY DEF TicketsInv
  <1>2. QED
    BY <1>1, TicketsAlways, PTL

-----------------------------------------------------------------------------
(* The offline queue and the evidence *)

\* There is evidence of the hash on the ticket.
Recorded(table, t, h) == \E e \in DOMAIN table : table[e].ticket = t /\ table[e].hash = h

QueuedColumns == \A q \in DOMAIN queued : DOMAIN queued[q] = {"ticket", "hash", "status"}

\* An upload under way is of an entry of the queue, and the evidence it has found is that of the entry.
Uploading(c) ==
  pc[c].op = "upload" =>
    /\ pc[c].entry \in DOMAIN queued
    /\ queued[pc[c].entry].ticket = pc[c].ticket /\ queued[pc[c].entry].hash = pc[c].hash
    /\ pc[c].found # 0 => /\ pc[c].found \in DOMAIN evidence
                          /\ evidence[pc[c].found].ticket = pc[c].ticket
                          /\ evidence[pc[c].found].hash = pc[c].hash

UploadInv ==
  /\ DOMAIN pc = Client
  /\ IsTable(evidence) /\ IsTable(queued)
  /\ QueuedColumns
  /\ UploadedIsRecorded
  /\ \A c \in Client : Uploading(c)

\* Nothing is lost from the tables.
EvidenceKept == \A e \in DOMAIN evidence : e \in DOMAIN evidence' /\ evidence'[e] = evidence[e]
QueueKept ==
  \A q \in DOMAIN queued : /\ q \in DOMAIN queued'
                           /\ queued'[q].ticket = queued[q].ticket /\ queued'[q].hash = queued[q].hash

\* Evidence is added, entries are added, and those that become uploaded have their evidence.
LEMMA UploadStep ==
  ASSUME UploadInv, IsTable(evidence'), IsTable(queued'), EvidenceKept, QueueKept, QueuedColumns',
         \A q \in DOMAIN queued' :
           queued'[q].status = "uploaded" =>
             (q \in DOMAIN queued /\ queued[q].status = "uploaded")
               \/ Recorded(evidence', queued'[q].ticket, queued'[q].hash),
         DOMAIN pc' = Client, \A c \in Client : pc'[c] = pc[c] \/ Uploading(c)'
  PROVE  UploadInv'
  <1>1. \A c \in Client : Uploading(c)'
    BY DEF UploadInv, Uploading, EvidenceKept, QueueKept
  <1>2. UploadedIsRecorded'
    <2>1. SUFFICES ASSUME NEW q \in DOMAIN queued', queued'[q].status = "uploaded"
                   PROVE  Recorded(evidence', queued'[q].ticket, queued'[q].hash)
      BY DEF UploadedIsRecorded, Recorded, listEvidence
    <2>2. CASE q \in DOMAIN queued /\ queued[q].status = "uploaded"
      <3>1. PICK e \in DOMAIN evidence : evidence[e].ticket = queued[q].ticket /\ evidence[e].hash = queued[q].hash
        BY <2>2 DEF UploadInv, UploadedIsRecorded, listEvidence
      <3>2. QED
        BY <2>2, <3>1 DEF EvidenceKept, QueueKept, Recorded
    <2>3. QED
      BY <2>1, <2>2
  <1>3. QED
    BY <1>1, <1>2 DEF UploadInv

\* A record of evidence is inserted.
LEMMA EvidenceInserted ==
  ASSUME UploadInv, NEW t, NEW h, InsertEvidence(t, h)
  PROVE  IsTable(evidence') /\ EvidenceKept /\ Recorded(evidence', t, h)
  <1> DEFINE row == [ticket |-> t, hash |-> h]
  <1>1. PICK new : new = Len(evidence) + 1
    OBVIOUS
  <1>2. row.ticket = t /\ row.hash = h
    OBVIOUS
  <1> HIDE DEF row
  <1>3. evidence' = Append(evidence, row)
    BY DEF InsertEvidence, row
  <1>4. /\ IsTable(evidence') /\ DOMAIN evidence' = DOMAIN evidence \union {new} /\ evidence'[new] = row
        /\ \A e \in DOMAIN evidence : evidence'[e] = evidence[e]
    BY <1>1, <1>3, TableInserted DEF UploadInv
  <1>5. QED
    BY <1>2, <1>4 DEF EvidenceKept, Recorded

LEMMA RegisterUploads ==
  ASSUME UploadInv, NEW c \in Client, RegisterEvidence(c)
  PROVE  UploadInv'
  <1>1. /\ UNCHANGED queued /\ pc' = [pc EXCEPT ![c] = Idle]
        /\ InsertEvidence(pc[c].ticket, pc[c].hash) \/ UNCHANGED evidence
    BY DEF RegisterEvidence, Done
  <1>2. IsTable(evidence') /\ EvidenceKept
    BY <1>1, EvidenceInserted DEF UploadInv, EvidenceKept
  <1>3. IsTable(queued') /\ QueueKept /\ QueuedColumns'
    BY <1>1 DEF UploadInv, QueueKept, QueuedColumns
  <1>4. DOMAIN pc' = Client /\ \A d \in Client : pc'[d] = pc[d] \/ Uploading(d)'
    BY <1>1 DEF UploadInv, Idle, Uploading
  <1>5. QED
    BY <1>1, <1>2, <1>3, <1>4, UploadStep

LEMMA QueueUploads ==
  ASSUME UploadInv, NEW c \in Client, QueueOfflineEvidence(c)
  PROVE  UploadInv'
  <1> DEFINE row == [ticket |-> pc[c].ticket, hash |-> pc[c].hash, status |-> "queued"]
  <1>1. PICK new : new = Len(queued) + 1
    OBVIOUS
  <1>2. DOMAIN row = {"ticket", "hash", "status"} /\ row.status # "uploaded"
    OBVIOUS
  <1>3. UNCHANGED evidence /\ pc' = [pc EXCEPT ![c] = Idle] /\ queued' = Append(queued, row)
    BY DEF QueueOfflineEvidence, InsertQueuedOfflineEvidence, Done
  <1> HIDE DEF row
  <1>4. /\ IsTable(queued') /\ DOMAIN queued' = DOMAIN queued \union {new} /\ queued'[new] = row
        /\ \A q \in DOMAIN queued : queued'[q] = queued[q]
    BY <1>1, <1>3, TableInserted DEF UploadInv
  <1>5. IsTable(evidence') /\ EvidenceKept
    BY <1>3 DEF UploadInv, EvidenceKept
  <1>6. QueueKept /\ QueuedColumns'
    BY <1>2, <1>4 DEF UploadInv, QueueKept, QueuedColumns
  <1>7. DOMAIN pc' = Client /\ \A d \in Client : pc'[d] = pc[d] \/ Uploading(d)'
    BY <1>3 DEF UploadInv, Idle, Uploading
  <1>8. \A q \in DOMAIN queued' : queued'[q].status = "uploaded" =>
                                    q \in DOMAIN queued /\ queued[q].status = "uploaded"
    BY <1>2, <1>4
  <1>9. QED
    BY <1>4, <1>5, <1>6, <1>7, <1>8, UploadStep

LEMMA SyncUploads ==
  ASSUME UploadInv, NEW c \in Client, SyncOfflineEvidence(c)
  PROVE  UploadInv'
  <1>1. PICK entry : entry = pc[c].entry
    OBVIOUS
  <1> DEFINE row == [queued[entry] EXCEPT !.status = IF @ = "queued" THEN "uploaded" ELSE @]
  <1>2. /\ pc[c].op = "upload" /\ pc' = [pc EXCEPT ![c] = Idle]
        /\ queued' = [queued EXCEPT ![entry] = row]
        /\ IF pc[c].found = 0 THEN InsertEvidence(pc[c].ticket, pc[c].hash) ELSE UNCHANGED evidence
    BY <1>1 DEF SyncOfflineEvidence, MarkQueuedEvidenceUploaded, Done
  <1>3. /\ entry \in DOMAIN queued
        /\ queued[entry].ticket = pc[c].ticket /\ queued[entry].hash = pc[c].hash
        /\ pc[c].found # 0 => Recorded(evidence, pc[c].ticket, pc[c].hash)
    BY <1>1, <1>2 DEF UploadInv, Uploading, Recorded
  <1>4. /\ DOMAIN row = {"ticket", "hash", "status"}
        /\ row.ticket = pc[c].ticket /\ row.hash = pc[c].hash
    BY <1>3 DEF UploadInv, QueuedColumns
  <1> HIDE DEF row
  <1>5. /\ IsTable(queued') /\ DOMAIN queued' = DOMAIN queued
        /\ \A q \in DOMAIN queued : queued'[q] = IF q = entry THEN row ELSE queued[q]
    BY <1>2, <1>3, TableUpdated DEF UploadInv
  <1>6. IsTable(evidence') /\ EvidenceKept /\ Recorded(evidence', pc[c].ticket, pc[c].hash)
    <2>1. CASE pc[c].found = 0
      BY <1>2, <2>1, EvidenceInserted
    <2>2. CASE pc[c].found # 0
      BY <1>2, <1>3, <2>2 DEF UploadInv, EvidenceKept, Recorded
    <2>3. QED
      BY <2>1, <2>2
  <1>7. QueueKept /\ QueuedColumns'
    BY <1>3, <1>4, <1>5 DEF UploadInv, QueueKept, QueuedColumns
  <1>8. DOMAIN pc' = Client /\ \A d \in Client : pc'[d] = pc[d] \/ Uploading(d)'
    BY <1>2 DEF UploadInv, Idle, Uploading
  <1>9. \A q \in DOMAIN queued' : queued'[q].status = "uploaded" =>
                                    (q \in DOMAIN queued /\ queued[q].status = "uploaded")
                                      \/ Recorded(evidence', queued'[q].ticket, queued'[q].hash)
    BY <1>4, <1>5, <1>6 DEF Recorded
  <1>10. QED
    BY <1>5, <1>6, <1>7, <1>8, <1>9, UploadStep

\* The queue and the evidence stay, and an upload that begins has read them.
LEMMA OtherUploads ==
  ASSUME UploadInv, UNCHANGED <<evidence, queued>>,
         DOMAIN pc' = Client, \A c \in Client : pc'[c] = pc[c] \/ pc'[c].op # "upload" \/ Uploading(c)'
  PROVE  UploadInv'
  BY DEF UploadInv, QueuedColumns, UploadedIsRecorded, listEvidence, Uploading

LEMMA UploadAlwaysStep ==
  ASSUME UploadInv, [Next]_vars
  PROVE  UploadInv'
  <1>1. ASSUME ChecklistNext
        PROVE  UploadInv'
    <2>1. ASSUME NEW c \in Client, NEW t \in DOMAIN tickets, NEW h \in Hash, handleSyncOfflineEvidence(c, t, h)
          PROVE  UploadInv'
      <3>1. PICK q \in FindQueuedOfflineEvidence(t, h), e \in Existing(t, h) :
              pc' = [pc EXCEPT ![c] = [op |-> "upload", ticket |-> t, hash |-> h, entry |-> q, found |-> e]]
        BY <2>1 DEF handleSyncOfflineEvidence, Begin
      <3>2. UNCHANGED <<evidence, queued>>
        BY <2>1 DEF handleSyncOfflineEvidence, checklistTables
      <3>3. q \in DOMAIN queued /\ queued[q].ticket = t /\ queued[q].hash = h
        BY DEF FindQueuedOfflineEvidence
      <3>4. e # 0 => e \in DOMAIN evidence /\ evidence[e].ticket = t /\ evidence[e].hash = h
        BY DEF Existing, FindEvidenceByHash, listEvidence
      <3>5. Uploading(c)'
        BY <3>1, <3>2, <3>3, <3>4 DEF UploadInv, Uploading
      <3>6. DOMAIN pc' = Client /\ \A d \in Client : pc'[d] = pc[d] \/ Uploading(d)'
        BY <3>1, <3>5 DEF UploadInv
      <3>7. QED
        BY <3>2, <3>6, OtherUploads
    <2>2. ASSUME NEW c \in Client, NEW t \in DOMAIN tickets, NEW h \in Hash,
                 \/ \E i \in listChecklistItems(t) : handleRegisterEvidence(c, t, h, i)
                 \/ handleQueueOfflineEvidence(c, t, h)
          PROVE  UploadInv'
      <3>1. /\ UNCHANGED <<evidence, queued>> /\ DOMAIN pc' = Client
            /\ \A d \in Client : pc'[d] = pc[d] \/ pc'[d].op # "upload"
        BY <2>2 DEF handleRegisterEvidence, handleQueueOfflineEvidence, Begin, checklistTables, UploadInv
      <3>2. QED
        BY <3>1, OtherUploads
    <2>3. ASSUME NEW c \in Client, NEW t \in DOMAIN tickets, NEW inc \in Payload,
                 \/ handleSyncChecklist(c, t, inc)
                 \/ \E k \in SyncKey : handleIdempotentSyncChecklist(c, t, k, inc)
          PROVE  UploadInv'
      <3>1. /\ UNCHANGED <<evidence, queued>> /\ DOMAIN pc' = Client
            /\ \A d \in Client : pc'[d] = pc[d] \/ pc'[d].op # "upload"
        BY <2>3 DEF handleSyncChecklist, handleIdempotentSyncChecklist, Begin, checklistTables, UploadInv
      <3>2. QED
        BY <3>1, OtherUploads
    <2>4. ASSUME NEW c \in Client, SyncChecklist(c) \/ IdempotentSyncChecklist(c)
          PROVE  UploadInv'
      <3>1. /\ UNCHANGED <<evidence, queued>> /\ DOMAIN pc' = Client
            /\ \A d \in Client : pc'[d] = pc[d] \/ pc'[d].op # "upload"
        BY <2>4 DEF SyncChecklist, IdempotentSyncChecklist, Done, Idle, UploadInv
      <3>2. QED
        BY <3>1, OtherUploads
    <2>5. QED
      BY <1>1, <2>1, <2>2, <2>3, <2>4, RegisterUploads, QueueUploads, SyncUploads DEF ChecklistNext
  <1>2. CASE TicketNext /\ UNCHANGED checklistTables
    BY <1>2, TicketFrames, OtherUploads DEF TicketOps, UploadInv, checklistTables
  <1>3. CASE DispatchNext /\ UNCHANGED checklistTables
    BY <1>3, DispatchFrames, OtherUploads DEF DispatchOps, Dispatched, Answered, UploadInv, checklistTables
  <1>4. ASSUME NEW c \in Client, Abandon(c)
        PROVE  UploadInv'
    BY <1>4, AbandonFrames, OtherUploads DEF UploadInv, checklistTables
  <1>5. CASE UNCHANGED vars
    BY <1>5, OtherUploads DEF UploadInv, vars, checklistTables
  <1>6. QED
    BY <1>1, <1>2, <1>3, <1>4, <1>5 DEF Next

\* What a client is told is uploaded is recorded, so that it may delete its copy.
THEOREM UploadsCorrect == Spec => []UploadedIsRecorded
  <1>1. Init => UploadInv
    BY EmptyTable DEF Init, UploadInv, QueuedColumns, UploadedIsRecorded, Uploading, Idle
  <1>2. UploadInv /\ [Next]_vars => UploadInv'
    BY UploadAlwaysStep
  <1>3. UploadInv => UploadedIsRecorded
    BY DEF UploadInv
  <1>4. QED
    BY <1>1, <1>2, <1>3, PTL DEF Spec

-----------------------------------------------------------------------------
(* Assignments and overrides *)

AssignmentColumns ==
  \A a \in DOMAIN assignments :
    DOMAIN assignments[a] = {"ticket", "worker", "status", "version", "was", "seen", "unread"}

\* The override that lets a worker have a ticket.
Override(t, w) == [ticket |-> t, worker |-> w]

\* The worker may have the ticket by a row of T and O: the constraints held, or an override is on record.
IsAllowed(row, T, O) ==
  /\ row.ticket \in DOMAIN T
  /\ Override(row.ticket, row.worker) \notin O =>
       /\ evaluateWorker(row.worker, T[row.ticket].type)
       /\ row.was.available
       /\ row.was.writes = row.seen => row.was.active /\ (row.unread \/ row.was.rested)

\* What a request has found is so, unless the worker was written since.
Found(f, T, W) ==
  /\ evaluateWorker(f.worker, T[f.ticket].type)
  /\ f.seen \in Nat /\ f.seen <= W[f.worker].writes
  /\ W[f.worker].writes = f.seen => W[f.worker].active
  /\ f.op \in {"rested", "assign"} => W[f.worker].available
  /\ f.op = "assign" /\ W[f.worker].writes = f.seen => f.unread \/ W[f.worker].rested

\* A request that dispatches, while T are the tickets, O the overrides, W the workers and A the
\* assignments.
DispatchFits(f, T, O, W, A) ==
  /\ f.op \in Dispatched => f.ticket \in DOMAIN T /\ f.worker \in Worker
  /\ f.op \in {"available", "rested", "assign"} => Found(f, T, W)
  /\ f.op = "overridden" => Override(f.ticket, f.worker) \in O
  /\ f.op \in Answered => f.assignment \in DOMAIN A

WorkerRow == [active : BOOLEAN, available : BOOLEAN, rested : BOOLEAN, writes : Nat]

AssignInv ==
  /\ DOMAIN pc = Client
  /\ workers \in [Worker -> WorkerRow]
  /\ IsTable(assignments)
  /\ AssignmentColumns
  /\ \A a \in DOMAIN assignments : IsAllowed(assignments[a], tickets, overrides)
  /\ \A c \in Client : DispatchFits(pc[c], tickets, overrides, workers, assignments)

\* No ticket goes or changes its type.
SameTypes(T, U) == DOMAIN T \subseteq DOMAIN U /\ \A t \in DOMAIN T : U[t].type = T[t].type

\* A worker is written, or is what it was but for a rest or a new window of availability.
WorkerStays(old, new) ==
  /\ old.writes <= new.writes
  /\ old.available => new.available
  /\ new.writes = old.writes => (old.active => new.active) /\ (old.rested => new.rested)

LEMMA AllowedStays ==
  ASSUME NEW row, NEW T, NEW O, NEW U, NEW P, IsAllowed(row, T, O), SameTypes(T, U), O \subseteq P
  PROVE  IsAllowed(row, U, P)
  <1>1. row.ticket \in DOMAIN U /\ U[row.ticket].type = T[row.ticket].type
    BY DEF IsAllowed, SameTypes
  <1>2. QED
    BY <1>1 DEF IsAllowed

LEMMA FoundStays ==
  ASSUME NEW f, NEW T, NEW W \in [Worker -> WorkerRow], NEW U, NEW V \in [Worker -> WorkerRow],
         f.ticket \in DOMAIN T, f.worker \in Worker, Found(f, T, W), SameTypes(T, U),
         \A w \in Worker : WorkerStays(W[w], V[w])
  PROVE  Found(f, U, V)
  <1>1. U[f.ticket].type = T[f.ticket].type
    BY DEF SameTypes
  <1>2. PICK old, new : old = W[f.worker] /\ new = V[f.worker]
    OBVIOUS
  <1>3. old.writes \in Nat /\ new.writes \in Nat /\ WorkerStays(old, new)
    BY <1>2 DEF WorkerRow
  <1>4. QED
    BY <1>1, <1>2, <1>3 DEF Found, WorkerStays

LEMMA DispatchFitsStays ==
  ASSUME NEW f, NEW T, NEW O, NEW W \in [Worker -> WorkerRow], NEW A,
         NEW U, NEW P, NEW V \in [Worker -> WorkerRow], NEW B,
         DispatchFits(f, T, O, W, A), SameTypes(T, U), O \subseteq P, DOMAIN A \subseteq DOMAIN B,
         \A w \in Worker : WorkerStays(W[w], V[w])
  PROVE  DispatchFits(f, U, P, V, B)
  <1>1. f.op \in Dispatched => f.ticket \in DOMAIN T /\ f.ticket \in DOMAIN U /\ f.worker \in Worker
    BY DEF DispatchFits, SameTypes
  <1>2. f.op \in {"available", "rested", "assign"} => Found(f, U, V)
    BY <1>1, FoundStays DEF DispatchFits, Dispatched
  <1>3. QED
    BY <1>1, <1>2 DEF DispatchFits

\* Rows that are added are allowed, and the others keep all but their answer; requests find what is so.
LEMMA AssignStep ==
  ASSUME AssignInv, TypesStay, IsTable(assignments'), AssignmentColumns', overrides \subseteq overrides',
         workers' \in [Worker -> WorkerRow], \A w \in Worker : WorkerStays(workers[w], workers'[w]),
         DOMAIN assignments \subseteq DOMAIN assignments',
         \A a \in DOMAIN assignments' :
           \E row : /\ IsAllowed(row, tickets, overrides)
                    /\ \A col \in {"ticket", "worker", "was", "seen", "unread"} : assignments'[a][col] = row[col],
         DOMAIN pc' = Client,
         \A c \in Client : pc'[c] = pc[c] \/ DispatchFits(pc'[c], tickets, overrides, workers', assignments')
  PROVE  AssignInv'
  <1>1. PICK U, P, V, B : U = tickets' /\ P = overrides' /\ V = workers' /\ B = assignments'
    OBVIOUS
  <1>2. SameTypes(tickets, U) /\ SameTypes(tickets, tickets)
    BY <1>1 DEF TypesStay, SameTypes
  <1>3. \A w \in Worker : WorkerStays(V[w], V[w])
    BY <1>1 DEF WorkerStays, WorkerRow
  <1>4. ASSUME NEW a \in DOMAIN B
        PROVE  IsAllowed(B[a], U, P)
    <2>1. PICK row : /\ IsAllowed(row, tickets, overrides)
                     /\ \A col \in {"ticket", "worker", "was", "seen", "unread"} : B[a][col] = row[col]
      BY <1>1
    <2>2. IsAllowed(row, U, P)
      BY <1>1, <1>2, <2>1, AllowedStays
    <2>3. QED
      BY <2>1, <2>2 DEF IsAllowed
  <1>5. ASSUME NEW c \in Client
        PROVE  DispatchFits(pc'[c], U, P, V, B)
    <2>1. CASE pc'[c] = pc[c]
      <3>1. DispatchFits(pc[c], tickets, overrides, workers, assignments) /\ workers \in [Worker -> WorkerRow]
        BY DEF AssignInv
      <3>2. DispatchFits(pc[c], U, P, V, B)
        BY <1>1, <1>2, <3>1, DispatchFitsStays
      <3>3. QED
        BY <2>1, <3>2
    <2>2. CASE DispatchFits(pc'[c], tickets, overrides, workers', assignments')
      <3>1. PICK f : f = pc'[c]
        OBVIOUS
      <3>2. DispatchFits(f, tickets, overrides, V, B)
        BY <1>1, <2>2, <3>1
      <3>3. DispatchFits(f, U, P, V, B)
        BY <1>1, <1>2, <1>3, <3>2, DispatchFitsStays
      <3>4. QED
        BY <3>1, <3>3
    <2>3. QED
      BY <2>1, <2>2
  <1>6. QED
    BY <1>1, <1>4, <1>5 DEF AssignInv

\* An assignment that is allowed is inserted.
LEMMA InsertStep ==
  ASSUME AssignInv, UNCHANGED <<tickets, overrides, workers>>, NEW c \in Client,
         pc[c].op \in {"assign", "overridden"}, InsertAssignment(pc[c]), Done(c)
  PROVE  AssignInv'
  <1>1. PICK f, was : f = pc[c] /\ was = workers[f.worker]
    OBVIOUS
  <1>2. DispatchFits(f, tickets, overrides, workers, assignments) /\ f.op \in {"assign", "overridden"}
    BY <1>1 DEF AssignInv
  <1> DEFINE row == [ticket |-> f.ticket, worker |-> f.worker, status |-> "offered", version |-> 1,
                     was |-> was, seen |-> f.seen, unread |-> f.unread]
  <1>3. /\ row.ticket = f.ticket /\ row.worker = f.worker /\ row.was = was /\ row.seen = f.seen
        /\ row.unread = f.unread
        /\ DOMAIN row = {"ticket", "worker", "status", "version", "was", "seen", "unread"}
    OBVIOUS
  <1>4. assignments' = Append(assignments, row) /\ pc' = [pc EXCEPT ![c] = Idle]
    BY <1>1 DEF InsertAssignment, Done
  <1> HIDE DEF row
  <1>5. IsAllowed(row, tickets, overrides)
    <2>1. f.ticket \in DOMAIN tickets
      BY <1>2 DEF DispatchFits, Dispatched
    <2>2. CASE f.op = "overridden"
      BY <1>2, <1>3, <2>1, <2>2 DEF DispatchFits, IsAllowed
    <2>3. CASE f.op = "assign"
      <3>1. Found(f, tickets, workers)
        BY <1>2, <2>3 DEF DispatchFits
      <3>2. QED
        BY <1>1, <1>3, <2>1, <2>3, <3>1 DEF Found, IsAllowed
    <2>4. QED
      BY <1>2, <2>2, <2>3
  <1>6. PICK new : new = Len(assignments) + 1
    OBVIOUS
  <1>7. /\ IsTable(assignments') /\ DOMAIN assignments' = DOMAIN assignments \union {new}
        /\ assignments'[new] = row /\ \A a \in DOMAIN assignments : assignments'[a] = assignments[a]
    BY <1>4, <1>6, TableInserted DEF AssignInv
  <1>8. AssignmentColumns'
    BY <1>3, <1>7 DEF AssignInv, AssignmentColumns
  <1>9. \A a \in DOMAIN assignments' : IsAllowed(assignments'[a], tickets, overrides)
    BY <1>5, <1>7 DEF AssignInv
  <1>10. \A a \in DOMAIN assignments' :
           \E any : /\ IsAllowed(any, tickets, overrides)
                    /\ \A col \in {"ticket", "worker", "was", "seen", "unread"} : assignments'[a][col] = any[col]
    BY <1>9
  <1>11. /\ DOMAIN pc' = Client
         /\ \A d \in Client : pc'[d] = pc[d] \/ DispatchFits(pc'[d], tickets, overrides, workers', assignments')
    BY <1>4 DEF AssignInv, Idle, DispatchFits, Dispatched, Answered
  <1>12. TypesStay /\ DOMAIN assignments \subseteq DOMAIN assignments' /\ overrides \subseteq overrides'
    BY <1>7 DEF TypesStay
  <1>13. workers' \in [Worker -> WorkerRow] /\ \A w \in Worker : WorkerStays(workers[w], workers'[w])
    BY DEF AssignInv, WorkerStays, WorkerRow
  <1>14. QED
    BY <1>7, <1>8, <1>10, <1>11, <1>12, <1>13, AssignStep

\* The worker answers an offer.
LEMMA AnswerStep ==
  ASSUME AssignInv, UNCHANGED <<tickets, overrides, workers>>, NEW c \in Client, NEW status,
         pc[c].op \in Answered,
         UpdateAssignmentStatus(pc[c].assignment, pc[c].row, status), Done(c)
  PROVE  AssignInv'
  <1>1. PICK at : at = pc[c].assignment
    OBVIOUS
  <1>2. at \in DOMAIN assignments
    BY <1>1 DEF AssignInv, DispatchFits
  <1> DEFINE row == [assignments[at] EXCEPT !.status = status, !.version = @ + 1]
             Kept == {"ticket", "worker", "was", "seen", "unread"}
  <1>3. /\ \A col \in Kept : row[col] = assignments[at][col]
        /\ DOMAIN row = {"ticket", "worker", "status", "version", "was", "seen", "unread"}
    BY <1>2 DEF AssignInv, AssignmentColumns
  <1>4. assignments' = [assignments EXCEPT ![at] = row] /\ pc' = [pc EXCEPT ![c] = Idle]
    BY <1>1 DEF UpdateAssignmentStatus, Done
  <1> HIDE DEF row
  <1>5. /\ IsTable(assignments') /\ DOMAIN assignments' = DOMAIN assignments
        /\ \A a \in DOMAIN assignments : assignments'[a] = IF a = at THEN row ELSE assignments[a]
    BY <1>2, <1>4, TableUpdated DEF AssignInv
  <1>6. AssignmentColumns'
    BY <1>3, <1>5 DEF AssignInv, AssignmentColumns
  <1>7. ASSUME NEW a \in DOMAIN assignments'
        PROVE  \E any : /\ IsAllowed(any, tickets, overrides)
                        /\ \A col \in Kept : assignments'[a][col] = any[col]
    <2>1. IsAllowed(assignments[a], tickets, overrides) /\ \A col \in Kept : assignments'[a][col] = assignments[a][col]
      BY <1>3, <1>5 DEF AssignInv
    <2>2. QED
      BY <2>1
  <1>8. /\ DOMAIN pc' = Client
        /\ \A d \in Client : pc'[d] = pc[d] \/ DispatchFits(pc'[d], tickets, overrides, workers', assignments')
    BY <1>4 DEF AssignInv, Idle, DispatchFits, Dispatched, Answered
  <1>9. TypesStay /\ DOMAIN assignments \subseteq DOMAIN assignments' /\ overrides \subseteq overrides'
    BY <1>5 DEF TypesStay
  <1>10. workers' \in [Worker -> WorkerRow] /\ \A w \in Worker : WorkerStays(workers[w], workers'[w])
    BY DEF AssignInv, WorkerStays, WorkerRow
  <1>11. QED
    BY <1>5, <1>6, <1>7, <1>8, <1>9, <1>10, AssignStep

\* The assignments stay, and what goes on has found what it needs.
LEMMA AssignmentsStay ==
  ASSUME AssignInv, TypesStay, UNCHANGED assignments, overrides \subseteq overrides',
         workers' \in [Worker -> WorkerRow], \A w \in Worker : WorkerStays(workers[w], workers'[w]),
         DOMAIN pc' = Client,
         \A c \in Client : pc'[c] = pc[c] \/ DispatchFits(pc'[c], tickets, overrides, workers', assignments')
  PROVE  AssignInv'
  <1>1. IsTable(assignments') /\ AssignmentColumns' /\ DOMAIN assignments \subseteq DOMAIN assignments'
    BY DEF AssignInv, AssignmentColumns
  <1>2. \A a \in DOMAIN assignments' :
          \E any : /\ IsAllowed(any, tickets, overrides)
                   /\ \A col \in {"ticket", "worker", "was", "seen", "unread"} : assignments'[a][col] = any[col]
    BY DEF AssignInv
  <1>3. QED
    BY <1>1, <1>2, AssignStep

\* The tables of dispatch stay.
LEMMA OtherAssignments ==
  ASSUME AssignInv, TypesStay, UNCHANGED <<assignments, overrides, workers>>, DOMAIN pc' = Client,
         \A c \in Client : pc'[c] = pc[c] \/ DispatchFits(pc'[c], tickets, overrides, workers, assignments)
  PROVE  AssignInv'
  <1>1. workers' \in [Worker -> WorkerRow] /\ \A w \in Worker : WorkerStays(workers[w], workers'[w])
    BY DEF AssignInv, WorkerStays, WorkerRow
  <1>2. QED
    BY <1>1, AssignmentsStay

\* A request finds what it needs of the worker it is about.
LEMMA FoundStep ==
  ASSUME AssignInv, UNCHANGED tickets, NEW c \in Client, NEW f, f = pc[c], f.op \in Dispatched,
         NEW op \in {"available", "rested", "assign", "override"}, NEW seen, NEW unread,
         op = "available" => /\ workers[f.worker].active /\ evaluateWorker(f.worker, tickets[f.ticket].type)
                             /\ seen = workers[f.worker].writes,
         op = "rested" => f.op = "available" /\ seen = f.seen /\ workers[f.worker].available,
         op = "assign" => f.op = "rested" /\ seen = f.seen /\ (unread \/ workers[f.worker].rested),
         pc' = [pc EXCEPT ![c] = Dispatching(op, f.ticket, f.worker, seen, unread)],
         UNCHANGED <<assignments, overrides, workers>>
  PROVE  AssignInv'
  <1>1. DispatchFits(f, tickets, overrides, workers, assignments)
    BY DEF AssignInv
  <1>2. /\ f.ticket \in DOMAIN tickets /\ f.worker \in Worker
        /\ f.op \in {"available", "rested", "assign"} => Found(f, tickets, workers)
        /\ workers[f.worker].writes \in Nat
    BY <1>1 DEF DispatchFits, AssignInv, WorkerRow
  <1> DEFINE frame == Dispatching(op, f.ticket, f.worker, seen, unread)
  <1>3. /\ frame.op = op /\ frame.ticket = f.ticket /\ frame.worker = f.worker /\ frame.seen = seen
        /\ frame.unread = unread
    BY DEF Dispatching
  <1>4. pc' = [pc EXCEPT ![c] = frame]
    OBVIOUS
  <1> HIDE DEF frame
  <1>5. op # "override" => Found(frame, tickets, workers)
    BY <1>2, <1>3 DEF Found
  <1>6. DispatchFits(frame, tickets, overrides, workers, assignments)
    BY <1>2, <1>3, <1>5 DEF DispatchFits, Answered
  <1>7. DOMAIN pc' = Client
        /\ \A d \in Client : pc'[d] = pc[d] \/ DispatchFits(pc'[d], tickets, overrides, workers, assignments)
    BY <1>4, <1>6 DEF AssignInv
  <1>8. QED
    BY <1>7, OtherAssignments DEF TypesStay

LEMMA FindStep ==
  ASSUME AssignInv, UNCHANGED tickets, NEW c \in Client,
         \/ FindWorker(c) \/ FindAvailability(c) \/ FindOverridden(c)
         \/ \E unread \in BOOLEAN : FindTimeEntries(c, unread)
  PROVE  AssignInv'
  <1>1. PICK f : f = pc[c]
    OBVIOUS
  <1>2. CASE FindWorker(c)
    <2>1. PICK seen : seen = workers[f.worker].writes
      OBVIOUS
    <2>2. /\ f.op = "assigning" /\ workers[f.worker].active /\ evaluateWorker(f.worker, tickets[f.ticket].type)
          /\ pc' = [pc EXCEPT ![c] = Dispatching("available", f.ticket, f.worker, seen, FALSE)]
          /\ UNCHANGED <<assignments, overrides, workers>>
      BY <1>1, <1>2, <2>1 DEF FindWorker, Dispatches, dispatchTables
    <2>3. QED
      BY <1>1, <2>1, <2>2, FoundStep DEF Dispatched
  <1>3. CASE FindAvailability(c)
    <2>1. /\ f.op = "available" /\ workers[f.worker].available
          /\ pc' = [pc EXCEPT ![c] = Dispatching("rested", f.ticket, f.worker, f.seen, FALSE)]
          /\ UNCHANGED <<assignments, overrides, workers>>
      BY <1>1, <1>3 DEF FindAvailability, Dispatches, dispatchTables
    <2>2. QED
      BY <1>1, <2>1, FoundStep DEF Dispatched
  <1>4. CASE FindOverridden(c)
    <2>1. /\ f.op = "overriding"
          /\ pc' = [pc EXCEPT ![c] = Dispatching("override", f.ticket, f.worker, 0, FALSE)]
          /\ UNCHANGED <<assignments, overrides, workers>>
      BY <1>1, <1>4 DEF FindOverridden, Dispatches, dispatchTables
    <2>2. QED
      BY <1>1, <2>1, FoundStep DEF Dispatched
  <1>5. ASSUME NEW unread \in BOOLEAN, FindTimeEntries(c, unread)
        PROVE  AssignInv'
    <2>1. /\ f.op = "rested" /\ (unread \/ workers[f.worker].rested)
          /\ pc' = [pc EXCEPT ![c] = Dispatching("assign", f.ticket, f.worker, f.seen, unread)]
          /\ UNCHANGED <<assignments, overrides, workers>>
      BY <1>1, <1>5 DEF FindTimeEntries, Dispatches, dispatchTables
    <2>2. QED
      BY <1>1, <2>1, FoundStep DEF Dispatched
  <1>6. QED
    BY <1>2, <1>3, <1>4, <1>5

Row(active, available, rested, writes) ==
  [active |-> active, available |-> available, rested |-> rested, writes |-> writes]

LEMMA RowWritten ==
  ASSUME NEW old \in WorkerRow
  PROVE  /\ [old EXCEPT !.active = FALSE, !.writes = @ + 1] = Row(FALSE, old.available, old.rested, old.writes + 1)
         /\ [old EXCEPT !.available = TRUE] = Row(old.active, TRUE, old.rested, old.writes)
         /\ [old EXCEPT !.rested = FALSE, !.writes = @ + 1] = Row(old.active, old.available, FALSE, old.writes + 1)
         /\ [old EXCEPT !.rested = TRUE] = Row(old.active, old.available, TRUE, old.writes)
  <1>1. PICK active, available, rested, writes :
          /\ old = [active |-> active, available |-> available, rested |-> rested, writes |-> writes]
          /\ old.active = active /\ old.available = available /\ old.rested = rested /\ old.writes = writes
    BY DEF WorkerRow
  <1>2. PICK n, no, yes : n = writes + 1 /\ no = FALSE /\ yes = TRUE
    OBVIOUS
  <1> DEFINE suspended == [old EXCEPT !.active = no]
             tired == [old EXCEPT !.rested = no]
             listed == [old EXCEPT !.available = yes]
             rests == [old EXCEPT !.rested = yes]
  <1>3. listed = [active |-> active, available |-> yes, rested |-> rested, writes |-> writes]
    BY <1>1
  <1>4. rests = [active |-> active, available |-> available, rested |-> yes, writes |-> writes]
    BY <1>1
  <1>5. suspended = [active |-> no, available |-> available, rested |-> rested, writes |-> writes]
    BY <1>1
  <1>6. tired = [active |-> active, available |-> available, rested |-> no, writes |-> writes]
    BY <1>1
  <1>7. [old EXCEPT !.active = FALSE, !.writes = @ + 1] = [suspended EXCEPT !.writes = n]
    BY <1>1, <1>2
  <1>8. [old EXCEPT !.rested = FALSE, !.writes = @ + 1] = [tired EXCEPT !.writes = n]
    BY <1>1, <1>2
  <1> HIDE DEF suspended, tired, listed, rests
  <1>9. [suspended EXCEPT !.writes = n] = [active |-> no, available |-> available, rested |-> rested, writes |-> n]
    BY <1>5
  <1>10. [tired EXCEPT !.writes = n] = [active |-> active, available |-> available, rested |-> no, writes |-> n]
    BY <1>6
  <1>11. QED
    BY <1>1, <1>2, <1>3, <1>4, <1>7, <1>8, <1>9, <1>10 DEF Row, listed, rests

LEMMA RowStays ==
  ASSUME NEW old \in WorkerRow
  PROVE  LET suspended == Row(FALSE, old.available, old.rested, old.writes + 1)
             listed == Row(old.active, TRUE, old.rested, old.writes)
             tired == Row(old.active, old.available, FALSE, old.writes + 1)
             rested == Row(old.active, old.available, TRUE, old.writes)
         IN /\ suspended \in WorkerRow /\ WorkerStays(old, suspended)
            /\ listed \in WorkerRow /\ WorkerStays(old, listed)
            /\ tired \in WorkerRow /\ WorkerStays(old, tired)
            /\ rested \in WorkerRow /\ WorkerStays(old, rested)
  <1>1. old.active \in BOOLEAN /\ old.available \in BOOLEAN /\ old.rested \in BOOLEAN /\ old.writes \in Nat
    BY DEF WorkerRow
  <1>2. PICK n \in Nat : n = old.writes
    BY <1>1
  <1>3. QED
    BY <1>1, <1>2 DEF Row, WorkerRow, WorkerStays

\* The workforce package writes of a worker.
LEMMA WorkforceStep ==
  ASSUME AssignInv, UNCHANGED tickets, NEW w \in Worker,
         ReviewAdverseAction(w) \/ CreateAvailabilityWindow(w) \/ RecordTimeEntry(w) \/ Rest(w)
  PROVE  AssignInv'
  <1>1. PICK old : old = workers[w] /\ old \in WorkerRow
    BY DEF AssignInv
  <1>2. PICK row \in WorkerRow : workers' = [workers EXCEPT ![w] = row] /\ WorkerStays(old, row)
    <2>1. CASE ReviewAdverseAction(w)
      <3>1. workers' = [workers EXCEPT ![w] = Row(FALSE, old.available, old.rested, old.writes + 1)]
        BY <1>1, <2>1, RowWritten DEF ReviewAdverseAction, Writes
      <3>2. QED
        BY <1>1, <3>1, RowStays
    <2>2. CASE CreateAvailabilityWindow(w)
      <3>1. workers' = [workers EXCEPT ![w] = Row(old.active, TRUE, old.rested, old.writes)]
        BY <1>1, <2>2, RowWritten DEF CreateAvailabilityWindow, Writes
      <3>2. QED
        BY <1>1, <3>1, RowStays
    <2>3. CASE RecordTimeEntry(w)
      <3>1. workers' = [workers EXCEPT ![w] = Row(old.active, old.available, FALSE, old.writes + 1)]
        BY <1>1, <2>3, RowWritten DEF RecordTimeEntry, Writes
      <3>2. QED
        BY <1>1, <3>1, RowStays
    <2>4. CASE Rest(w)
      <3>1. workers' = [workers EXCEPT ![w] = Row(old.active, old.available, TRUE, old.writes)]
        <4>1. workers' = [workers EXCEPT ![w] = [old EXCEPT !.rested = TRUE]]
          BY <1>1, <2>4 DEF Rest
        <4>2. QED
          BY <1>1, <4>1, RowWritten
      <3>2. QED
        BY <1>1, <3>1, RowStays
    <2>5. QED
      BY <2>1, <2>2, <2>3, <2>4
  <1>3. workers' \in [Worker -> WorkerRow] /\ \A v \in Worker : WorkerStays(workers[v], workers'[v])
    <2>1. \A v \in Worker : workers[v] \in WorkerRow /\ workers'[v] = IF v = w THEN row ELSE workers[v]
      BY <1>2 DEF AssignInv
    <2>2. \A v \in Worker : WorkerStays(workers[v], workers'[v])
      BY <1>1, <1>2, <2>1 DEF WorkerStays, WorkerRow
    <2>3. QED
      BY <1>2, <2>2 DEF AssignInv
  <1>4. UNCHANGED <<assignments, overrides, pc>> /\ TypesStay
    BY DEF ReviewAdverseAction, CreateAvailabilityWindow, RecordTimeEntry, Rest, Writes, Served, TypesStay
  <1>5. QED
    BY <1>3, <1>4, AssignmentsStay DEF AssignInv

LEMMA AssignAlwaysStep ==
  ASSUME TicketsInv, AssignInv, [Next]_vars
  PROVE  AssignInv'
  <1>1. TypesStay
    BY TicketsStep
  <1>2. ASSUME DispatchNext, UNCHANGED ticketTables
        PROVE  AssignInv'
    <2>1. UNCHANGED tickets
      BY <1>2 DEF ticketTables
    <2>2. ASSUME NEW c \in Client, NEW t \in DOMAIN tickets, NEW w \in Worker,
                 handleAssignWorker(c, t, w) \/ handleOverrideAssignment(c, t, w)
          PROVE  AssignInv'
      <3>1. PICK op \in {"assigning", "overriding"} : pc' = [pc EXCEPT ![c] = Dispatching(op, t, w, 0, FALSE)]
        BY <2>2 DEF handleAssignWorker, handleOverrideAssignment, BeginDispatch, Begin
      <3>2. UNCHANGED <<assignments, overrides, workers>>
        BY <2>2 DEF handleAssignWorker, handleOverrideAssignment, BeginDispatch, dispatchTables
      <3>3. DispatchFits(Dispatching(op, t, w, 0, FALSE), tickets, overrides, workers, assignments)
        BY DEF DispatchFits, Dispatching, Answered
      <3>4. DOMAIN pc' = Client
            /\ \A d \in Client : pc'[d] = pc[d] \/ DispatchFits(pc'[d], tickets, overrides, workers, assignments)
        BY <3>1, <3>3 DEF AssignInv
      <3>5. QED
        BY <1>1, <3>2, <3>4, OtherAssignments
    <2>3. ASSUME NEW c \in Client, NEW a \in DOMAIN assignments,
                 handleAcceptAssignment(c, a) \/ handleDeclineAssignment(c, a)
          PROVE  AssignInv'
      <3>1. PICK op \in Answered :
              pc' = [pc EXCEPT ![c] = [op |-> op, assignment |-> a, row |-> assignments[a]]]
        BY <2>3 DEF handleAcceptAssignment, handleDeclineAssignment, Begin, Answered
      <3>2. UNCHANGED <<assignments, overrides, workers>>
        BY <2>3 DEF handleAcceptAssignment, handleDeclineAssignment, dispatchTables
      <3>3. DispatchFits(pc'[c], tickets, overrides, workers, assignments)
        BY <3>1 DEF AssignInv, DispatchFits, Dispatched, Answered
      <3>4. DOMAIN pc' = Client
            /\ \A d \in Client : pc'[d] = pc[d] \/ DispatchFits(pc'[d], tickets, overrides, workers, assignments)
        BY <3>1, <3>3 DEF AssignInv
      <3>5. QED
        BY <1>1, <3>2, <3>4, OtherAssignments
    <2>4. ASSUME NEW c \in Client, RecordOverride(c)
          PROVE  AssignInv'
      <3>1. PICK t, w, P : t = pc[c].ticket /\ w = pc[c].worker /\ P = overrides'
        OBVIOUS
      <3>2. /\ P = overrides \union {Override(t, w)} /\ assignments' = assignments /\ workers' = workers
            /\ pc[c].op = "override" /\ pc' = [pc EXCEPT ![c].op = "overridden"]
        BY <2>4, <3>1 DEF RecordOverride, InsertOverride, Override
      <3>3. t \in DOMAIN tickets /\ w \in Worker
        BY <3>1, <3>2 DEF AssignInv, DispatchFits, Dispatched
      <3>4. pc'[c].op = "overridden" /\ pc'[c].ticket = t /\ pc'[c].worker = w
        BY <3>1, <3>2 DEF AssignInv
      <3>5. DispatchFits(pc'[c], tickets, P, workers, assignments)
        BY <3>2, <3>3, <3>4 DEF DispatchFits, Answered
      <3>6. SameTypes(tickets, tickets) /\ overrides \subseteq P /\ \A v \in Worker : WorkerStays(workers[v], workers[v])
        BY <3>2 DEF SameTypes, WorkerStays, AssignInv, WorkerRow
      <3>7. ASSUME NEW d \in Client
            PROVE  DispatchFits(pc'[d], tickets, P, workers, assignments)
        <4>1. CASE d = c
          BY <3>5, <4>1
        <4>2. CASE d # c
          <5>1. pc'[d] = pc[d] /\ DispatchFits(pc[d], tickets, overrides, workers, assignments)
                /\ workers \in [Worker -> WorkerRow]
            BY <3>2, <4>2 DEF AssignInv
          <5>2. DispatchFits(pc[d], tickets, P, workers, assignments)
            BY <3>6, <5>1, DispatchFitsStays
          <5>3. QED
            BY <5>1, <5>2
        <4>3. QED
          BY <4>1, <4>2
      <3>8. \A a \in DOMAIN assignments : IsAllowed(assignments[a], tickets, P)
        BY <3>6, AllowedStays DEF AssignInv
      <3>9. DOMAIN pc' = Client /\ AssignmentColumns'
        BY <3>2 DEF AssignInv, AssignmentColumns
      <3>10. QED
        BY <2>1, <3>1, <3>2, <3>7, <3>8, <3>9 DEF AssignInv
    <2>5. ASSUME NEW c \in Client, AssignWorker(c) \/ OverrideAssignment(c)
          PROVE  AssignInv'
      BY <2>1, <2>5, InsertStep DEF AssignWorker, OverrideAssignment
    <2>6. ASSUME NEW c \in Client, AcceptAssignment(c) \/ DeclineAssignment(c)
          PROVE  AssignInv'
      BY <2>1, <2>6, AnswerStep DEF AcceptAssignment, DeclineAssignment, Answered
    <2>7. QED
      BY <1>2, <2>1, <2>2, <2>3, <2>4, <2>5, <2>6, FindStep, WorkforceStep DEF DispatchNext
  <1>3. CASE TicketNext /\ UNCHANGED dispatchTables
    <2>1. \A f : f.op \in TicketOps => DispatchFits(f, tickets, overrides, workers, assignments)
      BY DEF TicketOps, DispatchFits, Dispatched, Answered
    <2>2. QED
      BY <1>1, <1>3, <2>1, TicketFrames, OtherAssignments DEF AssignInv, dispatchTables
  <1>4. CASE ChecklistNext /\ UNCHANGED dispatchTables
    <2>1. \A f : f.op \in ChecklistOps => DispatchFits(f, tickets, overrides, workers, assignments)
      BY DEF ChecklistOps, DispatchFits, Dispatched, Answered
    <2>2. QED
      BY <1>1, <1>4, <2>1, ChecklistFrames, OtherAssignments DEF AssignInv, dispatchTables
  <1>5. ASSUME NEW c \in Client, Abandon(c)
        PROVE  AssignInv'
    <2>1. \A f : f.op = "idle" => DispatchFits(f, tickets, overrides, workers, assignments)
      BY DEF DispatchFits, Dispatched, Answered
    <2>2. QED
      BY <1>1, <1>5, <2>1, AbandonFrames, OtherAssignments DEF AssignInv, dispatchTables
  <1>6. CASE UNCHANGED vars
    BY <1>1, <1>6, OtherAssignments DEF AssignInv, vars, dispatchTables
  <1>7. QED
    BY <1>2, <1>3, <1>4, <1>5, <1>6 DEF Next

\* Without an override on record a ticket goes to a worker whose row and availability satisfy the hard constraints,
\* and who was active and rested when it was inserted unless that was written since the request looked, or his time
\* entries could not be read (operations/dispatch_service.go: AssignWorker, OverrideAssignment).
THEOREM OverridesCorrect == Spec => []OverrideOnRecord
  <1>1. Init => AssignInv
    <2> SUFFICES ASSUME Init
                 PROVE  AssignInv
      OBVIOUS
    <2>1. workers \in [Worker -> WorkerRow]
      BY WorkersHaveRows DEF Init, WorkerRow
    <2>2. QED
      BY <2>1, EmptyTable DEF Init, AssignInv, AssignmentColumns, DispatchFits, Dispatched, Answered, Idle
  <1>2. TicketsInv /\ AssignInv /\ [Next]_vars => AssignInv'
    BY AssignAlwaysStep
  <1>3. AssignInv => OverrideOnRecord
    BY DEF AssignInv, IsAllowed, Override, OverrideOnRecord
  <1>4. QED
    BY <1>1, <1>2, <1>3, TicketsAlways, PTL DEF Spec

-----------------------------------------------------------------------------
(* Synchronisation under a key *)

\* A frame for each client, and a place for a record under each key.
SyncInv == DOMAIN pc = Client /\ DOMAIN syncRecords = SyncKey

\* The step that applies a synchronisation finds no record under its key.
SyncsOnce ==
  /\ \A k \in SyncKey : syncRecords[k] # None => syncRecords'[k] = syncRecords[k]
  /\ \A c \in Client : pc[c].op = "sync" /\ items' # items /\ pc'[c] = Idle => syncRecords[pc[c].key] = None

\* A request that is not a synchronisation under a key leaves the records, and the frames of those that are.
LEMMA OtherSyncs ==
  ASSUME SyncInv, UNCHANGED syncRecords, DOMAIN pc' = Client,
         items' = items \/ \A c \in Client : pc[c].op = "sync" => pc'[c] = pc[c]
  PROVE  SyncInv' /\ SyncsOnce
  BY DEF SyncInv, SyncsOnce, Idle

LEMMA SyncStep ==
  ASSUME SyncInv, [Next]_vars
  PROVE  SyncInv' /\ SyncsOnce
  <1>1. ASSUME ChecklistNext
        PROVE  SyncInv' /\ SyncsOnce
    <2>1. DOMAIN pc' = Client
      BY <1>1, ChecklistFrames DEF SyncInv
    <2>2. ASSUME NEW c \in Client, NEW t \in DOMAIN tickets, NEW inc \in Payload,
                 \/ handleSyncChecklist(c, t, inc)
                 \/ \E k \in SyncKey : handleIdempotentSyncChecklist(c, t, k, inc)
          PROVE  SyncInv' /\ SyncsOnce
      BY <2>1, <2>2, OtherSyncs DEF handleSyncChecklist, handleIdempotentSyncChecklist, checklistTables
    <2>3. ASSUME NEW c \in Client, NEW t \in DOMAIN tickets, NEW h \in Hash,
                 \/ \E i \in listChecklistItems(t) : handleRegisterEvidence(c, t, h, i)
                 \/ handleQueueOfflineEvidence(c, t, h) \/ handleSyncOfflineEvidence(c, t, h)
          PROVE  SyncInv' /\ SyncsOnce
      BY <2>1, <2>3, OtherSyncs DEF handleRegisterEvidence, handleQueueOfflineEvidence, handleSyncOfflineEvidence,
                                    checklistTables
    <2>4. ASSUME NEW c \in Client,
                 SyncChecklist(c) \/ RegisterEvidence(c) \/ QueueOfflineEvidence(c) \/ SyncOfflineEvidence(c)
          PROVE  SyncInv' /\ SyncsOnce
      <3>1. /\ UNCHANGED syncRecords /\ pc' = [pc EXCEPT ![c] = Idle]
            /\ pc[c].op # "sync"
        BY <2>4 DEF SyncChecklist, RegisterEvidence, QueueOfflineEvidence, SyncOfflineEvidence, Done
      <3>2. \A d \in Client : pc[d].op = "sync" => pc'[d] = pc[d]
        BY <3>1 DEF SyncInv
      <3>3. QED
        BY <2>1, <3>1, <3>2, OtherSyncs
    <2>5. ASSUME NEW c \in Client, IdempotentSyncChecklist(c)
          PROVE  SyncInv' /\ SyncsOnce
      <3>1. PICK key, rec : key = pc[c].key /\ rec = [ticket |-> pc[c].ticket, payload |-> pc[c].inc]
        OBVIOUS
      <3>2. /\ syncRecords[key] = None /\ syncRecords' = [syncRecords EXCEPT ![key] = rec]
            /\ pc' = [pc EXCEPT ![c] = Idle] /\ pc[c].op = "sync"
        BY <2>5, <3>1 DEF IdempotentSyncChecklist, InsertChecklistSyncRecord, Done
      <3>3. \A k \in SyncKey : syncRecords[k] # None => syncRecords'[k] = syncRecords[k]
        BY <3>2 DEF SyncInv
      <3>4. \A d \in Client : pc[d].op = "sync" /\ pc'[d] = Idle => d = c
        BY <3>2 DEF SyncInv, Idle
      <3>5. QED
        BY <2>1, <3>1, <3>2, <3>3, <3>4 DEF SyncInv, SyncsOnce
    <2>6. QED
      BY <1>1, <2>2, <2>3, <2>4, <2>5 DEF ChecklistNext
  <1>2. CASE TicketNext /\ UNCHANGED checklistTables
    BY <1>2, TicketFrames, OtherSyncs DEF SyncInv, checklistTables
  <1>3. CASE DispatchNext /\ UNCHANGED checklistTables
    BY <1>3, DispatchFrames, OtherSyncs DEF SyncInv, checklistTables
  <1>4. ASSUME NEW c \in Client, Abandon(c)
        PROVE  SyncInv' /\ SyncsOnce
    BY <1>4, AbandonFrames, OtherSyncs DEF SyncInv, checklistTables
  <1>5. CASE UNCHANGED vars
    BY <1>5, OtherSyncs DEF SyncInv, vars, checklistTables
  <1>6. QED
    BY <1>1, <1>2, <1>3, <1>4, <1>5 DEF Next

\* A synchronisation is applied once under its key, however often it is sent.
THEOREM SyncsCorrect == Spec => ReplaySyncsOnce
  <1>1. Init => SyncInv
    BY DEF Init, SyncInv
  <1>2. SyncInv /\ [Next]_vars => SyncInv' /\ SyncsOnce
    BY SyncStep
  <1>3. SyncsOnce <=> (/\ \A k \in SyncKey : syncRecords[k] # None => syncRecords'[k] = syncRecords[k]
                       /\ \A c \in Client : pc[c].op = "sync" /\ items' # items /\ pc'[c] = Idle
                                              => syncRecords[pc[c].key] = None)
    BY DEF SyncsOnce
  <1>4. QED
    BY <1>1, <1>2, <1>3, PTL DEF Spec, ReplaySyncsOnce
=============================================================================
