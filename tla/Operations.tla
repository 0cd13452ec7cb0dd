----------------------------- MODULE Operations -----------------------------
(* The operations package as a whole: tickets, checklists and dispatch run    *)
(* concurrently over one database.                                            *)
EXTENDS Tickets, Checklists, Dispatch

CONSTANTS StartTickets,   \* contents of the table tickets at the start
          StartItems,     \* contents of the table ticket_checklist_items
          StartWorkers    \* what the tables of the workforce say at the start

ASSUME BoundsAssumption ==
  MaxRequests \in Nat /\ MaxTickets \in Nat /\ MaxItems \in Nat /\ MaxAssignments \in Nat

ASSUME WorkersAreActors == Worker \subseteq Actor

ASSUME WorkersHaveRows ==
  StartWorkers \subseteq [Worker -> [active : BOOLEAN, available : BOOLEAN, rested : BOOLEAN, writes : Nat]]

(* Rows of the table tickets; one that was reopened is closed or cancelled.   *)
Ticket ==
  [type : {TypeTurnover, TypeIncident}, status : AllStates, version : Nat, blocker : BOOLEAN,
   assignedTo : Actor \union {None}, verifiedBy : Actor \union {None}, followUp : Nat,
   reopened : BOOLEAN, severity : {None, "high", "low"}]

ASSUME StartIsConsistent ==
  \A start \in StartTickets :
    /\ start \in Seq(Ticket)
    /\ \A t \in DOMAIN start : start[t].reopened => start[t].status \in TerminalStates

Init ==
  /\ tickets \in StartTickets
  /\ items \in StartItems
  /\ stateEvents = <<>>
  /\ alerts = {}
  /\ recoveries = <<>>
  /\ evidence = <<>>
  /\ queued = <<>>
  /\ syncRecords = [k \in SyncKey |-> None]
  /\ assignments = <<>>
  /\ overrides = {}
  /\ workers \in StartWorkers
  /\ pc = [c \in Client |-> Idle]
  /\ requests = 0

(* A request ends without further effect: it is refused, its transaction is   *)
(* rolled back, or the server dies.                                           *)
Abandon(c) ==
  /\ pc[c] # Idle
  /\ Done(c)
  /\ UNCHANGED <<ticketTables, checklistTables, dispatchTables>>

Next ==
  \/ TicketNext    /\ UNCHANGED <<checklistTables, dispatchTables>>
  \/ ChecklistNext /\ UNCHANGED <<ticketTables, dispatchTables>>
  \/ DispatchNext  /\ UNCHANGED <<ticketTables, checklistTables>>
  \/ \E c \in Client : Abandon(c)

Spec == Init /\ [][Next]_vars

----------------------------------------------------------------------------
(* The events of a ticket are a chain that ends in its status, under versions *)
(* that only grow: whoever replays ticket_state_events learns where the       *)
(* ticket is (TKT-002), although reopening, classifying and recovery change   *)
(* the version without an event.                                              *)
LaterEvents(n) == {m \in DOMAIN stateEvents : m > n /\ stateEvents[m].ticket = stateEvents[n].ticket}
TellsStatus(n) ==
  LET event == stateEvents[n] IN
  /\ event.version <= tickets[event.ticket].version
  /\ LaterEvents(n) = {} => event.to = tickets[event.ticket].status
  /\ LaterEvents(n) # {} => \E next \in LaterEvents(n) : /\ \A m \in LaterEvents(n) : next <= m
                                                         /\ stateEvents[next].from = event.to
                                                         /\ stateEvents[next].version > event.version
EventsTellStatus == \A n \in DOMAIN stateEvents : TellsStatus(n)

(* A ticket that was reopened by a follow-up stays closed or cancelled: the   *)
(* status ReopenTicket reads before its transaction still holds when the      *)
(* follow-up is linked, so that the same work is never open twice.            *)
ReopenedStaysTerminal ==
  \A t \in DOMAIN tickets : tickets[t].reopened => tickets[t].status \in TerminalStates

(* Replaying a synchronisation, also at the same time as the first attempt,   *)
(* changes the checklist once: a key that has a record is never applied again *)
(* and its record is never replaced.                                          *)
ReplaySyncsOnce ==
  [][/\ \A k \in SyncKey : syncRecords[k] # None => syncRecords'[k] = syncRecords[k]
     /\ \A c \in Client : pc[c].op = "sync" /\ items' # items /\ pc'[c] = Idle
                            => syncRecords[pc[c].key] = None]_vars

(* An entry of the offline queue is marked uploaded only with an evidence     *)
(* record of its hash on its ticket: a client that sees "uploaded" may delete *)
(* its copy.                                                                  *)
UploadedIsRecorded ==
  \A q \in DOMAIN queued :
    queued[q].status = "uploaded" =>
      \E e \in listEvidence(queued[q].ticket) : evidence[e].hash = queued[q].hash

(* Whoever is assigned without an override on record for the ticket and the   *)
(* worker satisfies the hard constraints: the row and the availability of the *)
(* worker do, and the worker was active and rested when the assignment was    *)
(* inserted, unless that was written while the request went on, or the time   *)
(* entries could not be read, which counts as rested.  Also when the server   *)
(* dies between the two statements of an override.                            *)
OverrideOnRecord ==
  \A a \in DOMAIN assignments :
    LET row == assignments[a] IN
      [ticket |-> row.ticket, worker |-> row.worker] \notin overrides =>
        /\ evaluateWorker(row.worker, tickets[row.ticket].type)
        /\ row.was.available
        /\ row.was.writes = row.seen => row.was.active /\ (row.unread \/ row.was.rested)

----------------------------------------------------------------------------
(* Statements of the repository that the code does not keep                   *)

(* "No actor may verify their own high-risk repair" (TKT-007): the ticket is  *)
(* not verified by a worker who accepted it.                                  *)
NoSelfVerification ==
  \A a \in DOMAIN assignments :
    LET row == tickets[assignments[a].ticket] IN
      assignments[a].status = "accepted" /\ row.type \in HighRiskTicketTypes
        => row.verifiedBy # assignments[a].worker

(* "A suspended worker can no longer be assigned": nor one who has to rest.   *)
FitWhenAssigned ==
  \A a \in DOMAIN assignments :
    LET row == assignments[a] IN
      [ticket |-> row.ticket, worker |-> row.worker] \notin overrides => row.was.active /\ row.was.rested

(* "evidence requirement cannot be downgraded once bound to a checklist item" *)
RequirementLocked ==
  [][\A i \in DOMAIN items : items[i].required => items'[i].required]_vars

(* "replayed checklist and evidence sync creates one effect": one record per  *)
(* hash of a ticket.                                                          *)
OneRecordPerHash ==
  \A e, f \in DOMAIN evidence :
    evidence[e].ticket = evidence[f].ticket /\ evidence[e].hash = evidence[f].hash => e = f
=============================================================================
