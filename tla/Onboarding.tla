----------------------------- MODULE Onboarding -----------------------------
(* One onboarding case (internal/onboarding): the sections, contacts,         *)
(* evidence and inspections recorded for it, and its status, which is         *)
(* computed anew from what a request has read of the case.  The case is read  *)
(* in three statements and written under the version of its row; evidence and *)
(* inspections are rows of their own.                                         *)
EXTENDS Requests, Sequences

CONSTANTS None,
          Section,       \* the sections kept as columns of the row
          Begun,         \* rows an interrupted case may have
          MaxRows        \* bound: rows of onboarding_evidence, and of onboarding_inspections

VARIABLES case,          \* the row of onboarding_cases, None before the case is started
          evidence,      \* onboarding_evidence: the kind of each
          inspections    \* how many rows onboarding_inspections has

tables == <<case, evidence, inspections>>
vars == <<tables, pc, requests>>

EvidenceKind == {"legal", "safety", "document"}
KindsOf(rows) == {rows[n] : n \in DOMAIN rows}

NewCase == [status |-> "in_progress", sections |-> {}, contacts |-> FALSE, version |-> 1]

Init ==
  /\ case \in Begun \union {None}
  /\ evidence \in IF case = None THEN {<<>>} ELSE {<<>>, <<"legal", "document">>, <<"legal", "safety">>}
  /\ inspections = 0
  /\ NoRequests

----------------------------------------------------------------------------
(* What a case says of itself, as a request has read it                      *)

ActivationHolds(read) == {"legal", "safety"} \ read.kinds

AllStepsComplete(read) ==
  /\ read.row.sections = Section
  /\ read.row.contacts
  /\ read.kinds = EvidenceKind
  /\ read.inspected

CanActivateCase(read) == ActivationHolds(read) = {} /\ AllStepsComplete(read)

RecomputeStatus(read) ==
  IF ActivationHolds(read) = {} /\ AllStepsComplete(read) THEN "ready" ELSE "in_progress"

(* A list of photographs or amenities may be recorded empty, which is no step.*)
ApplySection(row, section, filled) ==
  [row EXCEPT !.sections = IF filled THEN @ \union {section} ELSE @ \ {section}]

----------------------------------------------------------------------------
(* The statements of the store                                               *)

CreateCase == case' = NewCase

(* A fault: the row is written whatever its version.                          *)
UpdateAnyVersion(read, row) == case' = [row EXCEPT !.version = read.version + 1]

(* The columns that change, the status and the version, where the row still   *)
(* has the version that was read.                                             *)
updateCase(read, row) ==
  /\ case.version = read.version
  /\ case' = [row EXCEPT !.version = read.version + 1]

InsertEvidence(kind) == Len(evidence) < MaxRows /\ evidence' = Append(evidence, kind)
InsertInspection == inspections < MaxRows /\ inspections' = inspections + 1

----------------------------------------------------------------------------
(* The operations of the service                                             *)

StartCase == case = None /\ CreateCase /\ UNCHANGED <<evidence, inspections>>
handleStartCase == Served /\ StartCase

(* An owner starts the case of a property of theirs.                          *)
handleStartOwnerOnboarding == Served /\ StartCase

(* getByID: the row, which an activated case is refused by ...                *)
getByID(c, request) ==
  /\ case # None
  /\ case.status # "activated"
  /\ Begin(c, [op |-> "evidence", row |-> case, request |-> request])
  /\ UNCHANGED tables

handleSaveSection(c, section, filled) == getByID(c, <<"section", section, filled>>)
handleSaveContacts(c)                 == getByID(c, <<"contacts">>)
handleRecordEvidence(c, kind)         == getByID(c, <<"record", kind>>)
handleRecordInspection(c)             == getByID(c, <<"inspect">>)
handleActivate(c)                     == getByID(c, <<"activate">>)

(* Asked for by property: of the first case listed for it, the one here.      *)
handleRecordPropertyInspection(c) == getByID(c, <<"inspect">>)

(* ... its evidence ...                                                       *)
listEvidence(c) ==
  /\ Under(c, "evidence")
  /\ Goes(c, [op |-> "inspections", row |-> pc[c].row, request |-> pc[c].request, kinds |-> KindsOf(evidence)])
  /\ UNCHANGED tables

(* ... and its inspections.                                                   *)
listInspections(c) ==
  LET f == pc[c] IN
  /\ Under(c, "inspections")
  /\ Goes(c, [op |-> f.request[1], request |-> f.request,
              case |-> [row |-> f.row, kinds |-> f.kinds, inspected |-> inspections > 0]])
  /\ UNCHANGED tables

Store(read, row) == updateCase(read.row, [row EXCEPT !.status = RecomputeStatus([read EXCEPT !.row = row])])

SaveSection(c) ==
  LET f == pc[c] IN
  /\ Under(c, "section")
  /\ Store(f.case, ApplySection(f.case.row, f.request[2], f.request[3]))
  /\ Done(c)
  /\ UNCHANGED <<evidence, inspections>>

SaveContacts(c) ==
  /\ Under(c, "contacts")
  /\ Store(pc[c].case, [pc[c].case.row EXCEPT !.contacts = TRUE])
  /\ Done(c)
  /\ UNCHANGED <<evidence, inspections>>

RecordEvidence(c) ==
  LET read == pc[c].case  kind == pc[c].request[2] IN
  /\ Under(c, "record")
  /\ InsertEvidence(kind)
  /\ Store([read EXCEPT !.kinds = @ \union {kind}], read.row)
  /\ Done(c)
  /\ UNCHANGED inspections

RecordInspection(c) ==
  LET read == pc[c].case IN
  /\ Under(c, "inspect")
  /\ InsertInspection
  /\ Store([read EXCEPT !.inspected = TRUE], read.row)
  /\ Done(c)
  /\ UNCHANGED evidence

Activate(c) ==
  LET read == pc[c].case IN
  /\ Under(c, "activate")
  /\ CanActivateCase(read)
  /\ updateCase(read.row, [read.row EXCEPT !.status = "activated"])
  /\ Done(c)
  /\ UNCHANGED <<evidence, inspections>>

Abandon(c) == Dropped(c) /\ UNCHANGED tables

Next ==
  \/ handleStartCase \/ handleStartOwnerOnboarding
  \/ \E c \in Client :
       \/ \E s \in Section, filled \in BOOLEAN : handleSaveSection(c, s, filled)
       \/ \E kind \in EvidenceKind : handleRecordEvidence(c, kind)
       \/ handleSaveContacts(c) \/ handleRecordInspection(c) \/ handleRecordPropertyInspection(c)
       \/ handleActivate(c)
       \/ listEvidence(c) \/ listInspections(c)
       \/ SaveSection(c) \/ SaveContacts(c) \/ RecordEvidence(c) \/ RecordInspection(c) \/ Activate(c)
       \/ Abandon(c)

Spec == Init /\ [][Next]_vars

----------------------------------------------------------------------------

(* The status is what the rows of the case say, however requests interleave   *)
(* with the three reads: a case that is not activated is ready exactly when   *)
(* nothing is missing, and none is activated with anything missing.           *)
StatusTellsChecklist ==
  case # None =>
    LET read == [row |-> case, kinds |-> KindsOf(evidence), inspected |-> inspections > 0]
    IN IF case.status = "activated" THEN CanActivateCase(read) ELSE case.status = RecomputeStatus(read)
=============================================================================
