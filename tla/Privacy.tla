------------------------------- MODULE Privacy -------------------------------
(* The privacy registers (internal/privacy) about one person: what is only    *)
(* ever recorded, and the rows that are decided on later (a rights request, a *)
(* consent, a processor's contract, an export for evaluation).  A decision    *)
(* reads its row, and for an erasure the retention records too, and then      *)
(* writes the row back whole by its id, whatever others have decided since.   *)
EXTENDS Requests

CONSTANTS None,
          MaxRetained    \* bound: rows of privacy_retention_records

VARIABLES registers,     \* which of the registers nothing is decided in have a row
          retained,      \* privacy_retention_records of the person; all stay active
          rights,        \* a row of privacy_rights_requests
          consent,       \* a row of privacy_consents
          processor,     \* a row of privacy_processor_contracts
          export         \* a row of privacy_evaluation_exports

tables == <<registers, retained, rights, consent, processor, export>>
vars == <<tables, pc, requests>>

Init ==
  /\ registers = {}
  /\ retained = 0
  /\ rights = None
  /\ consent = None
  /\ processor = None
  /\ export = None
  /\ NoRequests

----------------------------------------------------------------------------
(* The statements of the store                                               *)

Insert(register) ==
  /\ registers' = registers \union {register}
  /\ UNCHANGED <<retained, rights, consent, processor, export>>

InsertPurpose             == Insert("privacy_purposes")
InsertNotice              == Insert("privacy_notices")
UpsertSecurityLogSetting  == Insert("privacy_security_log_settings")
InsertIdentityAlternative == Insert("privacy_identity_alternatives")
UpsertAadhaarPreference   == Insert("privacy_aadhaar_preferences")

InsertRetentionRecord == retained < MaxRetained /\ retained' = retained + 1

(* A fault: the records of the reviewer are looked up, who has none.          *)
ListRecordsOfReviewer == 0

ListActiveRetentionRecords == retained

UpdateRightsRequest(row) == rights' = row
UpdateConsent(row) == consent' = row
UpdateProcessorContract(row) == processor' = row
UpdateEvalExport(row) == export' = row

----------------------------------------------------------------------------
(* What is recorded                                                          *)

CreatePurpose             == InsertPurpose
RecordNotice              == InsertNotice
SetSecurityLogRetention   == UpsertSecurityLogSetting
RecordIdentityAlternative == InsertIdentityAlternative
SetAadhaarPreference      == UpsertAadhaarPreference

handleCreatePurpose             == Served /\ CreatePurpose
handleRecordNotice              == Served /\ RecordNotice
handleSetSecurityLogRetention   == Served /\ SetSecurityLogRetention
handleRecordIdentityAlternative == Served /\ RecordIdentityAlternative
handleSetAadhaarPreference      == Served /\ SetAadhaarPreference

CreateRetentionRecord == InsertRetentionRecord /\ UNCHANGED <<registers, rights, consent, processor, export>>
handleCreateRetentionRecord == Served /\ CreateRetentionRecord

SubmitRightsRequest(type) ==
  /\ rights = None
  /\ rights' = [type |-> type, status |-> "pending", reason |-> FALSE, completed |-> FALSE, held |-> 0]
  /\ UNCHANGED <<registers, retained, consent, processor, export>>
handleSubmitRightsRequest(type) == Served /\ SubmitRightsRequest(type)

RecordConsent ==
  /\ consent = None
  /\ consent' = [status |-> "active", withdrawn |-> FALSE]
  /\ UNCHANGED <<registers, retained, rights, processor, export>>
handleRecordConsent == Served /\ RecordConsent

RecordProcessorContract ==
  /\ processor = None
  /\ processor' = "pending_review"
  /\ UNCHANGED <<registers, retained, rights, consent, export>>
handleRecordProcessor == Served /\ RecordProcessorContract

(* What has not been de-identified is recorded as denied (SEC-012).           *)
RequestEvalExport(deidentified) ==
  /\ export = None
  /\ export' = [deidentified |-> deidentified, status |-> IF deidentified THEN "created" ELSE "denied"]
  /\ UNCHANGED <<registers, retained, rights, consent, processor>>
handleRequestEvalExport(deidentified) == Served /\ RequestEvalExport(deidentified)

----------------------------------------------------------------------------
(* What is decided                                                           *)

(* A rejection has the reason the reviewer sent, also when that is empty.     *)
(* "held" tells, for the property below, what was retained as it began.       *)
handleProcessRightsRequest(c, approved, reason) ==
  LET row == [rights EXCEPT !.held = retained] IN
  /\ rights # None
  /\ Begin(c, IF approved THEN [op |-> IF rights.type = "erasure" THEN "retained" ELSE "complete", row |-> row]
                          ELSE [op |-> "reject", row |-> [row EXCEPT !.reason = reason]])
  /\ UNCHANGED tables

RetentionBlocks(c) ==
  LET f == pc[c] IN
  /\ Under(c, "retained")
  /\ Goes(c, [f EXCEPT !.op = IF ListActiveRetentionRecords > 0 THEN "block" ELSE "complete"])
  /\ UNCHANGED tables

ProcessRightsRequest(c) ==
  LET row == pc[c].row IN
  /\ pc[c].op \in {"reject", "block", "complete"}
  /\ UpdateRightsRequest(CASE Under(c, "reject")   -> [row EXCEPT !.status = "rejected"]
                           [] Under(c, "block")    -> [row EXCEPT !.status = "blocked", !.reason = TRUE]
                           [] Under(c, "complete") -> [row EXCEPT !.status = "completed", !.completed = TRUE])
  /\ Done(c)
  /\ UNCHANGED <<registers, retained, consent, processor, export>>

handleWithdrawConsent(c) ==
  /\ consent # None
  /\ consent.status # "withdrawn"
  /\ Begin(c, [op |-> "withdraw", row |-> consent])
  /\ UNCHANGED tables

WithdrawConsent(c) ==
  /\ Under(c, "withdraw")
  /\ UpdateConsent([pc[c].row EXCEPT !.status = "withdrawn", !.withdrawn = TRUE])
  /\ Done(c)
  /\ UNCHANGED <<registers, retained, rights, processor, export>>

handleReviewProcessor(c, approved) ==
  /\ processor # None
  /\ Begin(c, [op |-> "processor", row |-> IF approved THEN "approved" ELSE "revoked"])
  /\ UNCHANGED tables

ReviewProcessorContract(c) ==
  /\ Under(c, "processor")
  /\ UpdateProcessorContract(pc[c].row)
  /\ Done(c)
  /\ UNCHANGED <<registers, retained, rights, consent, export>>

handleApproveEvalExport(c) ==
  /\ export # None
  /\ export.deidentified
  /\ Begin(c, [op |-> "approve", row |-> export])
  /\ UNCHANGED tables

handleDenyEvalExport(c) ==
  /\ export # None
  /\ Begin(c, [op |-> "deny", row |-> export])
  /\ UNCHANGED tables

ApproveEvalExport(c) ==
  /\ Under(c, "approve")
  /\ UpdateEvalExport([pc[c].row EXCEPT !.status = "approved"])
  /\ Done(c)
  /\ UNCHANGED <<registers, retained, rights, consent, processor>>

DenyEvalExport(c) ==
  /\ Under(c, "deny")
  /\ UpdateEvalExport([pc[c].row EXCEPT !.status = "denied"])
  /\ Done(c)
  /\ UNCHANGED <<registers, retained, rights, consent, processor>>

----------------------------------------------------------------------------

Abandon(c) == Dropped(c) /\ UNCHANGED tables

Next ==
  \/ handleCreatePurpose \/ handleRecordNotice \/ handleSetSecurityLogRetention
  \/ handleRecordIdentityAlternative \/ handleSetAadhaarPreference
  \/ handleCreateRetentionRecord
  \/ \E type \in {"erasure", "access"} : handleSubmitRightsRequest(type)
  \/ handleRecordConsent \/ handleRecordProcessor
  \/ \E deidentified \in BOOLEAN : handleRequestEvalExport(deidentified)
  \/ \E c \in Client :
       \/ \E approved, reason \in BOOLEAN : handleProcessRightsRequest(c, approved, reason)
       \/ \E approved \in BOOLEAN : handleReviewProcessor(c, approved)
       \/ RetentionBlocks(c) \/ ProcessRightsRequest(c)
       \/ handleWithdrawConsent(c) \/ WithdrawConsent(c) \/ ReviewProcessorContract(c)
       \/ handleApproveEvalExport(c) \/ ApproveEvalExport(c)
       \/ handleDenyEvalExport(c) \/ DenyEvalExport(c)
       \/ Abandon(c)

Spec == Init /\ [][Next]_vars

----------------------------------------------------------------------------

(* Decisions on one request may overtake each other, but an erasure that ends *)
(* up completed was decided by a review that began with nothing retained      *)
(* about the person; a blocked request says why, though a refused one may     *)
(* not, and a completed one when.  What was not de-identified is never        *)
(* approved for export.                                                       *)
RetainedIsNotErased ==
  /\ rights # None =>
       /\ rights.status = "completed" => rights.completed /\ (rights.type = "erasure" => rights.held = 0)
       /\ rights.status = "blocked" => rights.reason
  /\ export # None => (export.status = "approved" => export.deidentified)

(* "Blocks if applicable": the retention records are read before, so one that *)
(* is recorded while the review is under way does not block.  Does not hold.  *)
ErasureWaits ==
  [][rights' # rights /\ rights # None /\ rights.type = "erasure" /\ rights'.status = "completed" => retained = 0]_vars
=============================================================================
