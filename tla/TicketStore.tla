---------------------------- MODULE TicketStore ----------------------------
(* The tables of the operations package and the statements its stores run    *)
(* on them (internal/operations/store.go and dispatch_store.go).  A table is *)
(* the sequence of its rows in insertion order, so that an identifier is a   *)
(* position; rows are never deleted.  Tenant, property, texts and times are  *)
(* left out.  Every operator that changes a table is one SQL statement.      *)
EXTENDS Naturals, Sequences, FiniteSets

CONSTANTS Client,       \* requests the API serves at one time
          Actor,        \* people: operators and field workers
          Hash,         \* content hashes of evidence
          SyncKey,      \* sync_key values of the offline clients
          None,
          MaxRequests   \* bound: requests served in one behaviour

VARIABLES tickets,      \* tickets
          stateEvents,  \* ticket_state_events
          alerts,       \* incident_alerts
          recoveries,   \* service_recoveries
          items,        \* ticket_checklist_items
          evidence,     \* ticket_evidence
          queued,       \* queued_offline_evidence
          syncRecords,  \* checklist_sync_records, by sync_key (unique)
          assignments,  \* ticket_assignments, with what its request saw of the worker
          overrides,    \* dispatch_overrides
          workers,      \* what the tables of the workforce say of each worker
          pc,           \* what each request in progress has read so far
          requests      \* how many requests were begun

ticketTables    == <<tickets, stateEvents, alerts, recoveries>>
checklistTables == <<items, evidence, queued, syncRecords>>
dispatchTables  == <<assignments, overrides, workers>>
vars == <<ticketTables, checklistTables, dispatchTables, pc, requests>>

TypeTurnover == "turnover"
TypeIncident == "incident"
HighRiskTicketTypes == {TypeIncident}
TerminalStates == {"closed", "cancelled"}
AllStates == {"draft", "proposed", "approved", "scheduled", "assigned", "in_progress",
              "evidence_submitted", "verified", "closed", "blocked", "cancelled", "rejected"}

----------------------------------------------------------------------------
(* tickets and ticket_state_events                                           *)

NewTicket(type) ==
  [type |-> type, status |-> "draft", version |-> 1, blocker |-> FALSE, assignedTo |-> None,
   verifiedBy |-> None, followUp |-> 0, reopened |-> FALSE, severity |-> None]

insertTicket(row) == tickets' = Append(tickets, row)

(* The whole row is written back, under the version the caller read.          *)
UpdateTicketStatus(t, row) ==
  /\ tickets[t].version = row.version - 1
  /\ tickets' = [tickets EXCEPT ![t] = row]

SetTicketBlocker(t, row) ==
  /\ tickets[t].version = row.version
  /\ tickets' = [tickets EXCEPT ![t].status = "blocked", ![t].version = @ + 1, ![t].blocker = TRUE]

ClearTicketBlocker(t, row, target) ==
  /\ tickets[t].version = row.version
  /\ tickets' = [tickets EXCEPT ![t].status = target, ![t].version = @ + 1, ![t].blocker = FALSE]

InsertStateEvent(t, from, to, version) ==
  stateEvents' = Append(stateEvents, [ticket |-> t, from |-> from, to |-> to, version |-> version])

InsertServiceRecovery(rec) == recoveries' = Append(recoveries, rec)

(* No row is affected unless the recovery is still open: ErrRecoveryInactive. *)
CloseOpenRecovery(r) ==
  /\ recoveries[r].status = "open"
  /\ recoveries' = [recoveries EXCEPT ![r].status = "closed"]

InsertIncidentAlerts(t, severity, targets) ==
  alerts' = alerts \union {[ticket |-> t, version |-> tickets[t].version + 1,
                            severity |-> severity, target |-> g] : g \in targets}

----------------------------------------------------------------------------
(* Checklist items, evidence and the offline queue                           *)

listChecklistItems(t) == {i \in DOMAIN items : items[i].ticket = t}
listEvidence(t)       == {e \in DOMAIN evidence : evidence[e].ticket = t}

(* A fault: the search forgets the ticket.                                    *)
FindHashAnywhere(t, h) == {e \in DOMAIN evidence : evidence[e].hash = h}

FindEvidenceByHash(t, h) == {e \in listEvidence(t) : evidence[e].hash = h}
FindQueuedOfflineEvidence(t, h) ==
  {q \in DOMAIN queued : /\ queued[q].ticket = t
                         /\ queued[q].hash = h
                         /\ queued[q].status = "queued"}

(* The table after the insert of rows, which enter at version 1.              *)
InsertChecklistItem(table, row) == Append(table, [row EXCEPT !.version = 1])

(* The table after the update: nothing is written when the version has moved, *)
(* and the caller is not told.                                                *)
UpdateChecklistItem(table, i, row) ==
  IF table[i].version = row.version
  THEN [table EXCEPT ![i] = [row EXCEPT !.version = @ + 1]]
  ELSE table

(* The same without the version guard.                                        *)
UpdateChecklistItemNoConflict(table, i, row) ==
  [table EXCEPT ![i] = [row EXCEPT !.version = table[i].version + 1]]

InsertEvidence(t, h) == evidence' = Append(evidence, [ticket |-> t, hash |-> h])

InsertQueuedOfflineEvidence(t, h) ==
  queued' = Append(queued, [ticket |-> t, hash |-> h, status |-> "queued"])

MarkQueuedEvidenceUploaded(q) ==
  queued' = [queued EXCEPT ![q].status = IF @ = "queued" THEN "uploaded" ELSE @]

(* A fault: the index is missing.                                             *)
UpsertChecklistSyncRecord(k, rec) == syncRecords' = [syncRecords EXCEPT ![k] = rec]

(* The unique index on sync_key refuses a second row of a key.                *)
InsertChecklistSyncRecord(k, rec) ==
  /\ syncRecords[k] = None
  /\ syncRecords' = [syncRecords EXCEPT ![k] = rec]

----------------------------------------------------------------------------
(* Assignments                                                               *)

(* The row keeps, as history, how the worker was when it was inserted, how    *)
(* much had been written of the worker when the request looked, and whether   *)
(* the time entries could not be read.                                        *)
InsertAssignment(f) ==
  assignments' = Append(assignments,
    [ticket |-> f.ticket, worker |-> f.worker, status |-> "offered", version |-> 1,
     was |-> workers[f.worker], seen |-> f.seen, unread |-> f.unread])

InsertOverride(t, w) == overrides' = overrides \union {[ticket |-> t, worker |-> w]}

(* A fault: the row is written whatever its version.                          *)
UpdateAnyVersion(a, row, status) ==
  assignments' = [assignments EXCEPT ![a].status = status, ![a].version = @ + 1]

(* No row affected is an error here: the guard is the version that was read.  *)
UpdateAssignmentStatus(a, row, status) ==
  /\ assignments[a].version = row.version
  /\ assignments' = [assignments EXCEPT ![a].status = status, ![a].version = @ + 1]

----------------------------------------------------------------------------
(* Requests                                                                  *)

Idle == [op |-> "idle"]

(* A request that is one transaction under the lock of its ticket.            *)
Served == requests < MaxRequests /\ requests' = requests + 1 /\ UNCHANGED pc

(* A request that runs several statements keeps what it has read in pc.       *)
Begin(c, frame) ==
  /\ pc[c] = Idle
  /\ requests < MaxRequests
  /\ requests' = requests + 1
  /\ pc' = [pc EXCEPT ![c] = frame]

Done(c) == pc' = [pc EXCEPT ![c] = Idle] /\ UNCHANGED requests

(* SELECT ... FOR UPDATE of a ticket waits while another request holds it.    *)
Unlocked(t) == \A c \in Client : pc[c].op = "register" => pc[c].ticket # t
=============================================================================
