----------------------------- MODULE Compliance -----------------------------
(* The compliance items of a property (internal/compliance), and the scan     *)
(* that expires them, puts a hold on the property for each critical one and   *)
(* warns of those about to expire.  The scan runs on the pool: each statement *)
(* is a transaction, and what it writes is the item as it read it at first.   *)
EXTENDS PropertyLifecycle

CONSTANTS Expiry,         \* expiry dates asked for
          WarningWindow,  \* days before expiry at which a warning is due
          MaxItems,
          MaxWarnings

VARIABLES items,          \* compliance_items
          warnings        \* compliance_renewal_warnings

compliance == <<items, warnings>>
vars == <<lifecycle, now, compliance, pc, requests>>

Init == LifecycleInit /\ NoRequests /\ items = <<>> /\ warnings = <<>>

----------------------------------------------------------------------------
(* The statements of the store                                               *)

InsertItem(row) == Len(items) < MaxItems /\ items' = Append(items, row)

(* A fault: items that have expired are not looked at again.                  *)
ListActiveItems == {[n |-> n, row |-> items[n]] : n \in {m \in DOMAIN items : items[m].status = "active"}}

ListScannableItems ==
  {[n |-> n, row |-> items[n]] : n \in {m \in DOMAIN items : items[m].status \in {"active", "expired"}}}

UpdateItem(n, row) == items' = [items EXCEPT ![n] = row]

HasActiveWarningForItemInWindow(n, days) ==
  \E w \in DOMAIN warnings : warnings[w] = [item |-> n, days |-> days, acknowledged |-> FALSE]

InsertRenewalWarning(n, days) ==
  /\ Len(warnings) < MaxWarnings
  /\ warnings' = Append(warnings, [item |-> n, days |-> days, acknowledged |-> FALSE])

----------------------------------------------------------------------------
(* Items                                                                     *)

NewComplianceItem(kind, critical, expiry) ==
  [kind |-> kind, critical |-> critical, expiry |-> expiry, status |-> "active", hold |-> None]

IsExpired(item, at) == at > item.expiry
IsWithinWarningWindow(item, at, days) == ~IsExpired(item, at) /\ item.expiry - at <= days

Expire(item) == IF item.status = "active" THEN [item EXCEPT !.status = "expired"] ELSE item

(* The new expiry date is not put on the item.                                *)
Renew(item) == [item EXCEPT !.status = "renewed"]

CreateItem(kind, critical, expiry) ==
  /\ property # None
  /\ InsertItem(NewComplianceItem(kind, critical, expiry))
  /\ UNCHANGED <<lifecycle, now, warnings>>
handleCreateItem(kind, critical, expiry) == Served /\ CreateItem(kind, critical, expiry)

handleRenewItem(c, n) ==
  /\ items[n].status \in {"active", "expired"}
  /\ Begin(c, [op |-> "renew", item |-> n, row |-> items[n]])
  /\ UNCHANGED <<lifecycle, now, compliance>>

RenewItem(c) ==
  LET f == pc[c] IN
  /\ Under(c, "renew")
  /\ UpdateItem(f.item, Renew(f.row))
  /\ IF f.row.hold = None THEN Done(c) ELSE Goes(c, [op |-> "release", hold |-> f.row.hold])
  /\ UNCHANGED <<lifecycle, now, warnings>>

(* After its transaction, and only a hold that is open.                       *)
resolveHoldDirect(c) ==
  LET h == pc[c].hold IN
  /\ Under(c, "release")
  /\ holds' = IF holds[h].status = "open" THEN [holds EXCEPT ![h] = Resolve(@)] ELSE holds
  /\ Done(c)
  /\ UNCHANGED <<property, transitions, now, compliance>>

AcknowledgeWarning(w) ==
  /\ warnings' = [warnings EXCEPT ![w].acknowledged = TRUE]
  /\ UNCHANGED <<lifecycle, now, items>>
handleAcknowledgeWarning(w) == Served /\ AcknowledgeWarning(w)

----------------------------------------------------------------------------
(* The scan, asked for by a person or run as a job                           *)

(* "due" tells, for the property below, the critical items that have expired. *)
handleScanExpiry(c) ==
  /\ Begin(c, [op |-> "scan", left |-> ListScannableItems, at |-> now, failed |-> FALSE,
               due |-> {n \in DOMAIN items : /\ items[n].critical
                                             /\ items[n].status \in {"active", "expired"}
                                             /\ IsExpired(items[n], now)}])
  /\ UNCHANGED <<lifecycle, now, compliance>>

(* The items are scanned by their expiry dates.                               *)
Earliest(i, left) == \A j \in left : i.row.expiry <= j.row.expiry

NextItem(c) == [op |-> "scan", left |-> pc[c].left, at |-> pc[c].at, failed |-> pc[c].failed, due |-> pc[c].due]
Keeping(c, op, row) == [pc[c] EXCEPT !.op = op, !.row = row]

ScanExpired(c) ==
  /\ Under(c, "scan")
  /\ \E i \in pc[c].left :
       LET row == IF IsExpired(i.row, pc[c].at) THEN Expire(i.row) ELSE i.row IN
       /\ Earliest(i, pc[c].left)
       /\ IF row = i.row THEN UNCHANGED items ELSE UpdateItem(i.n, row)
       /\ Goes(c, [op |-> "held", n |-> i.n, row |-> row, left |-> pc[c].left \ {i}, at |-> pc[c].at,
                   failed |-> pc[c].failed, due |-> pc[c].due])
  /\ UNCHANGED <<lifecycle, now, warnings>>

Holding(kind) == {h \in DOMAIN holds : holds[h].kind = kind /\ holds[h].critical /\ holds[h].status = "open"}

(* The first open critical hold of its kind becomes the hold of the item.     *)
AlreadyHeld(c) ==
  LET row  == pc[c].row
      held == Holding(row.kind)
      raise == IsExpired(row, pc[c].at) /\ row.critical
  IN
  /\ Under(c, "held")
  /\ \/ \E first \in held :
          /\ \A h \in held : first <= h
          /\ Goes(c, IF row.hold # first THEN Keeping(c, "link", [row EXCEPT !.hold = first])
                     ELSE Keeping(c, "warn", row))
     \/ /\ held = {}
        /\ Goes(c, Keeping(c, IF raise THEN "raise" ELSE "warn", row))
  /\ UNCHANGED <<lifecycle, now, compliance>>

LinkHold(c) ==
  /\ Under(c, "link")
  /\ UpdateItem(pc[c].n, pc[c].row)
  /\ Goes(c, [pc[c] EXCEPT !.op = "warn"])
  /\ UNCHANGED <<lifecycle, now, warnings>>

createCriticalHold(c) ==
  /\ Under(c, "raise")
  /\ insertComplianceHold(NewComplianceHold(pc[c].row.kind, TRUE))
  /\ Goes(c, Keeping(c, "link", [Expire(pc[c].row) EXCEPT !.hold = Len(holds')]))
  /\ UNCHANGED <<property, transitions, now, compliance>>

(* The property cannot be read or the hold not be put: the next item.         *)
SkipItem(c) ==
  /\ pc[c].op \in {"held", "raise"}
  /\ Goes(c, [NextItem(c) EXCEPT !.failed = TRUE])
  /\ UNCHANGED <<lifecycle, now, compliance>>

DueWindows(c) ==
  {days \in WarningWindow : pc[c].row.critical /\ IsWithinWarningWindow(pc[c].row, pc[c].at, days)}

FindWarning(c) ==
  /\ Under(c, "warn")
  /\ LET missing == {days \in DueWindows(c) : ~HasActiveWarningForItemInWindow(pc[c].n, days)}
     IN IF missing = {} THEN Goes(c, NextItem(c))
        ELSE \E days \in missing :
               Goes(c, [op |-> "issue", n |-> pc[c].n, row |-> pc[c].row, left |-> pc[c].left, at |-> pc[c].at,
                        failed |-> pc[c].failed, due |-> pc[c].due, days |-> days])
  /\ UNCHANGED <<lifecycle, now, compliance>>

IssueWarning(c) ==
  /\ Under(c, "issue")
  /\ InsertRenewalWarning(pc[c].n, pc[c].days)
  /\ Goes(c, [pc[c] EXCEPT !.op = "warn"])
  /\ UNCHANGED <<lifecycle, now, items>>

ScanEnds(c) == Under(c, "scan") /\ pc[c].left = {} /\ Done(c) /\ UNCHANGED <<lifecycle, now, compliance>>

----------------------------------------------------------------------------

Abandon(c) == Dropped(c) /\ UNCHANGED <<lifecycle, now, compliance>>

ComplianceNext ==
  \/ \E kind \in Kind, critical \in BOOLEAN, expiry \in Expiry : handleCreateItem(kind, critical, expiry)
  \/ \E w \in DOMAIN warnings : handleAcknowledgeWarning(w)
  \/ \E c \in Client :
       \/ \E n \in DOMAIN items : handleRenewItem(c, n)
       \/ RenewItem(c) \/ resolveHoldDirect(c)
       \/ handleScanExpiry(c) \/ ScanExpired(c) \/ AlreadyHeld(c) \/ LinkHold(c) \/ createCriticalHold(c)
       \/ SkipItem(c) \/ FindWarning(c) \/ IssueWarning(c) \/ ScanEnds(c)
       \/ Abandon(c)

Next == (LifecycleNext /\ UNCHANGED compliance) \/ ComplianceNext

Spec == Init /\ [][Next]_vars

----------------------------------------------------------------------------

(* An item names a critical hold of its own kind, and a scan that got through *)
(* leaves a hold on record for every critical item that had expired, also one *)
(* that an earlier scan expired and did not hold before it died: "already-    *)
(* expired ones whose compliance hold must stay recorded on a re-scan".       *)
HeldOnceScanned ==
  /\ \A n \in DOMAIN items :
       items[n].hold # None => holds[items[n].hold].kind = items[n].kind /\ holds[items[n].hold].critical
  /\ \A c \in Client :
       Under(c, "scan") /\ pc[c].left = {} /\ ~pc[c].failed =>
         \A n \in pc[c].due : \E h \in DOMAIN holds : holds[h].kind = items[n].kind /\ holds[h].critical
=============================================================================
