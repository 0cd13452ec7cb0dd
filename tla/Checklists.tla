----------------------------- MODULE Checklists -----------------------------
(* The checklist of a ticket, its evidence and the synchronisation of clients *)
(* that worked offline (internal/operations/service.go, sync.go).  None of    *)
(* the synchronisations locks the ticket, so each is a read followed by a     *)
(* transaction; RegisterEvidence holds the lock of the ticket but reads the   *)
(* checklist item without one.  A request carries one item: [index, status,   *)
(* required, evidence].                                                       *)
EXTENDS TicketStore

CONSTANTS Payload,   \* items that clients send
          MaxItems   \* bound: rows of the table ticket_checklist_items

ItemRow(t, inc) == [ticket |-> t, index |-> inc.index, status |-> inc.status,
                    required |-> inc.required, evidence |-> inc.evidence, version |-> 0]

(* The rows of the ticket, in the table as it was read, for the item sent.    *)
Matches(seen, t, inc) ==
  {i \in DOMAIN seen : seen[i].ticket = t /\ seen[i].index = inc.index}

----------------------------------------------------------------------------
(* Direct synchronisation                                                     *)

handleSyncChecklist(c, t, inc) ==
  /\ Begin(c, [op |-> "checklist", ticket |-> t, inc |-> inc, seen |-> items])
  /\ UNCHANGED checklistTables

(* A requirement that was read may not be dropped; an update whose row has    *)
(* moved on writes nothing and is reported as done.                           *)
SyncChecklist(c) ==
  LET f     == pc[c]
      found == Matches(f.seen, f.ticket, f.inc)
      row   == ItemRow(f.ticket, f.inc)
  IN /\ f.op = "checklist"
     /\ \/ /\ found = {}
           /\ Len(items) < MaxItems
           /\ items' = InsertChecklistItem(items, row)
        \/ \E i \in found :
             /\ f.seen[i].required => f.inc.required
             /\ items' = UpdateChecklistItem(items, i, [row EXCEPT !.version = f.seen[i].version])
     /\ Done(c)
     /\ UNCHANGED <<evidence, queued, syncRecords>>

----------------------------------------------------------------------------
(* Synchronisation under a key, replayed by clients that lost the answer      *)

(* A key that has a record is a replay, or a conflict of payloads: nothing is *)
(* written.  The items of a request carry no version.                         *)
handleIdempotentSyncChecklist(c, t, k, inc) ==
  /\ syncRecords[k] = None
  /\ Begin(c, [op |-> "sync", ticket |-> t, key |-> k, inc |-> inc, seen |-> items])
  /\ UNCHANGED checklistTables

(* Items that were not sent are written back as they were read; i is the row  *)
(* the item sent replaces, 0 when it is new.                                  *)
MergeSync(seen, t, inc, i) ==
  LET kept(j) == /\ j \in DOMAIN seen
                 /\ seen[j].ticket = t
                 /\ seen[j].index # inc.index
      written == [j \in DOMAIN items |->
                    IF j = i THEN UpdateChecklistItemNoConflict(items, j, ItemRow(t, inc))[j]
                    ELSE IF kept(j) THEN UpdateChecklistItemNoConflict(items, j, seen[j])[j]
                    ELSE items[j]]
  IN IF i = 0 THEN InsertChecklistItem(written, ItemRow(t, inc)) ELSE written

IdempotentSyncChecklist(c) ==
  LET f     == pc[c]
      found == Matches(f.seen, f.ticket, f.inc)
  IN /\ f.op = "sync"
     /\ \E i \in IF found = {} THEN {0} ELSE found :
          /\ i = 0 => Len(items) < MaxItems
          /\ items' = MergeSync(f.seen, f.ticket, f.inc, i)
     /\ InsertChecklistSyncRecord(f.key, [ticket |-> f.ticket, payload |-> f.inc])
     /\ Done(c)
     /\ UNCHANGED <<evidence, queued>>

----------------------------------------------------------------------------
(* Evidence                                                                   *)

(* Any one of the records of the hash, 0 when there is none.                  *)
Existing(t, h) == IF FindEvidenceByHash(t, h) = {} THEN {0} ELSE FindEvidenceByHash(t, h)

(* Takes the lock of the ticket and reads the item and the evidence.          *)
handleRegisterEvidence(c, t, h, i) ==
  /\ Unlocked(t)
  /\ tickets[t].status \notin TerminalStates
  /\ \E e \in Existing(t, h) :
       Begin(c, [op |-> "register", ticket |-> t, hash |-> h, item |-> i, row |-> items[i], found |-> e])
  /\ UNCHANGED checklistTables

linkEvidenceToChecklistItem(i, row, e) ==
  items' = IF e \in row.evidence THEN items
           ELSE UpdateChecklistItem(items, i, [row EXCEPT !.evidence = @ \union {e}])

RegisterEvidence(c) ==
  LET f == pc[c]
  IN /\ f.op = "register"
     /\ IF f.found = 0
        THEN /\ InsertEvidence(f.ticket, f.hash)
             /\ linkEvidenceToChecklistItem(f.item, f.row, Len(evidence) + 1)
        ELSE /\ linkEvidenceToChecklistItem(f.item, f.row, f.found)
             /\ UNCHANGED evidence
     /\ Done(c)
     /\ UNCHANGED <<queued, syncRecords>>

----------------------------------------------------------------------------
(* Evidence captured offline: its metadata is queued, then uploaded           *)

handleQueueOfflineEvidence(c, t, h) ==
  /\ FindQueuedOfflineEvidence(t, h) = {}
  /\ Begin(c, [op |-> "queue", ticket |-> t, hash |-> h])
  /\ UNCHANGED checklistTables

QueueOfflineEvidence(c) ==
  /\ pc[c].op = "queue"
  /\ InsertQueuedOfflineEvidence(pc[c].ticket, pc[c].hash)
  /\ Done(c)
  /\ UNCHANGED <<items, evidence, syncRecords>>

handleSyncOfflineEvidence(c, t, h) ==
  /\ \E q \in FindQueuedOfflineEvidence(t, h), e \in Existing(t, h) :
       Begin(c, [op |-> "upload", ticket |-> t, hash |-> h, entry |-> q, found |-> e])
  /\ UNCHANGED checklistTables

(* Neither the lock nor the status of the ticket is looked at.                *)
SyncOfflineEvidence(c) ==
  LET f == pc[c]
  IN /\ f.op = "upload"
     /\ IF f.found = 0 THEN InsertEvidence(f.ticket, f.hash) ELSE UNCHANGED evidence
     /\ MarkQueuedEvidenceUploaded(f.entry)
     /\ Done(c)
     /\ UNCHANGED <<items, syncRecords>>

----------------------------------------------------------------------------

ChecklistNext ==
  \E c \in Client :
    \/ \E t \in DOMAIN tickets :
         \/ \E inc \in Payload : \/ handleSyncChecklist(c, t, inc)
                                 \/ \E k \in SyncKey : handleIdempotentSyncChecklist(c, t, k, inc)
         \/ \E h \in Hash : \/ \E i \in listChecklistItems(t) : handleRegisterEvidence(c, t, h, i)
                            \/ handleQueueOfflineEvidence(c, t, h)
                            \/ handleSyncOfflineEvidence(c, t, h)
    \/ SyncChecklist(c)
    \/ IdempotentSyncChecklist(c)
    \/ RegisterEvidence(c)
    \/ QueueOfflineEvidence(c)
    \/ SyncOfflineEvidence(c)
=============================================================================
