---------------------------- MODULE PeopleProofs ----------------------------
(***************************************************************************)
(* The invariants of the components that deal with people hold in every    *)
(* reachable state, whatever the requests, the people, the rows and the    *)
(* bounds.  Each rests on an inductive invariant that says what a request  *)
(* under way relies on of what it has read.                                *)
(***************************************************************************)
EXTENDS People, TableLemmas

\* A behaviour stays with its component: the others take no step.
LEMMA Stays ==
  ASSUME [Next]_vars
  PROVE  /\ part' = part
         /\ part = "access" => Keys!Next \/ UNCHANGED <<access, pc, requests>>
         /\ part = "contact" => Contact!Next \/ UNCHANGED <<contact, pc, requests>>
         /\ part = "privacy" => Rights!Next \/ UNCHANGED <<privacy, pc, requests>>
         /\ part = "consumer" => Owners!Next \/ UNCHANGED <<consumer, pc, requests>>
         /\ part = "workforce" => Workers!Next \/ UNCHANGED <<workforce, pc, requests>>
         /\ part = "filing" => Filing!Next \/ UNCHANGED <<filing, pc, requests>>
         /\ part = "assistant" => Assistant!Next \/ UNCHANGED <<assistant, pc, requests>>
  BY DEF Next, KeysStep, ContactStep, RightsStep, OwnersStep, WorkersStep, FilingStep, AssistantStep, vars

-----------------------------------------------------------------------------
(* Requests under way, and the tables they read *)

\* The frames of the requests under way.
Frames == {pc[c] : c \in Client}

\* A row that is inserted changes none that there are.
Grows(table) == DOMAIN table \subseteq DOMAIN table' /\ \A n \in DOMAIN table : table'[n] = table[n]

\* What has been carried out beside what ended it, and what may be yet: no more than the server has under way.
Within(done, going) ==
  /\ IsFiniteSet(done) /\ IsFiniteSet(going)
  /\ Cardinality(done) + Cardinality(going) <= Cardinality(Client)

LEMMA Fewer ==
  ASSUME NEW done, NEW going, Within(done, going), NEW d \in SUBSET done, NEW g \in SUBSET going
  PROVE  Within(d, g)
  <1>1. /\ IsFiniteSet(d) /\ Cardinality(d) <= Cardinality(done)
        /\ IsFiniteSet(g) /\ Cardinality(g) <= Cardinality(going)
    BY FS_Subset DEF Within
  <1>2. PICK a, b, x, y, z : /\ a = Cardinality(d) /\ b = Cardinality(g) /\ x = Cardinality(done)
                             /\ y = Cardinality(going) /\ z = Cardinality(Client)
    OBVIOUS
  <1>3. a \in Nat /\ b \in Nat /\ x \in Nat /\ y \in Nat /\ z \in Nat
    BY <1>1, <1>2, FS_CardinalityType, ServerIsFinite DEF Within
  <1>4. a <= x /\ b <= y /\ x + y <= z
    BY <1>1, <1>2 DEF Within
  <1>5. a + b <= z
    BY <1>3, <1>4
  <1>6. QED
    BY <1>1, <1>2, <1>5 DEF Within

\* One that was going on is done.
LEMMA OneDone ==
  ASSUME NEW done, NEW going, Within(done, going), NEW c \in going, NEW new,
         NEW d \in SUBSET (done \union {new}), NEW g \in SUBSET (going \ {c})
  PROVE  Within(d, g)
  <1>1. IsFiniteSet(done) /\ IsFiniteSet(going)
    BY DEF Within
  <1>2. PICK x, y, z : x = Cardinality(done) /\ y = Cardinality(going) /\ z = Cardinality(Client)
    OBVIOUS
  <1>3. x \in Nat /\ y \in Nat /\ z \in Nat /\ x + y <= z
    BY <1>1, <1>2, FS_CardinalityType, ServerIsFinite DEF Within
  <1>4. IsFiniteSet(going \ {c}) /\ Cardinality(going \ {c}) = y - 1
    BY <1>1, <1>2, FS_RemoveElement
  <1>5. IsFiniteSet(done \union {new}) /\ Cardinality(done \union {new}) \in {x, x + 1}
    BY <1>1, <1>2, FS_AddElement
  <1>6. PICK a, b : a = Cardinality(done \union {new}) /\ b = Cardinality(going \ {c})
    OBVIOUS
  <1>7. a + b <= z
    BY <1>3, <1>4, <1>5, <1>6
  <1>8. Within(done \union {new}, going \ {c})
    BY <1>2, <1>4, <1>5, <1>6, <1>7 DEF Within
  <1>9. QED
    BY <1>8, Fewer

LEMMA NoneDone ==
  ASSUME NEW going \in SUBSET Client
  PROVE  Within({}, going)
  <1>1. IsFiniteSet({}) /\ Cardinality({}) = 0
    BY FS_EmptySet
  <1>2. IsFiniteSet(going) /\ Cardinality(going) <= Cardinality(Client) /\ Cardinality(going) \in Nat
    BY ServerIsFinite, FS_Subset, FS_CardinalityType
  <1>3. QED
    BY <1>1, <1>2 DEF Within
-----------------------------------------------------------------------------
(* Privacy: what is decided on rights requests and exports *)

Right == [type : {"erasure", "access"}, status : {"pending", "rejected", "blocked", "completed"},
          reason : BOOLEAN, completed : BOOLEAN, held : Nat]
Copy == [deidentified : BOOLEAN, status : {"created", "denied", "approved"}]

Clean(copy) == copy.deidentified = TRUE

\* A decision has read the row as it was, and what was retained has not become less since;
\* one that completes an erasure began with nothing retained.
Deciding(c) ==
  LET f == pc[c] IN
  /\ f.op \in {"retained", "reject", "block", "complete"} =>
       /\ f \in [op : {"retained", "reject", "block", "complete"}, row : Right]
       /\ f.row.held <= retained
       /\ f.op = "complete" /\ f.row.type = "erasure" => f.row.held = 0
  /\ f.op \in {"approve", "deny"} => f.row \in Copy
  /\ f.op = "approve" => Clean(f.row)

Decided(row) ==
  /\ row.status = "completed" => row.completed /\ (row.type = "erasure" => row.held = 0)
  /\ row.status = "blocked" => row.reason

RightsInv ==
  /\ DOMAIN pc = Client
  /\ retained \in Nat
  /\ rights # None => rights \in Right /\ Decided(rights)
  /\ export # None => export \in Copy /\ (export.status = "approved" => Clean(export))
  /\ \A c \in Client : Deciding(c)

\* A request ends, or nobody's frame changes, and no less is retained.
LEMMA DecidingStays ==
  ASSUME RightsInv, \A d \in Client : pc'[d] \in {pc[d], Rights!Idle}, retained' \in Nat, retained <= retained'
  PROVE  \A d \in Client : Deciding(d)'
  <1> SUFFICES ASSUME NEW d \in Client
               PROVE  Deciding(d)'
    OBVIOUS
  <1>1. CASE pc'[d] = Rights!Idle
    BY <1>1 DEF Deciding, Rights!Idle
  <1>2. CASE pc'[d] = pc[d]
    <2>1. Deciding(d) /\ retained \in Nat
      BY DEF RightsInv
    <2>2. ASSUME NEW row \in Right, row.held <= retained
          PROVE  row.held <= retained'
      BY <2>1, <2>2 DEF Right
    <2>3. pc[d] \in [op : {"retained", "reject", "block", "complete"}, row : Right] => pc[d].row \in Right
      OBVIOUS
    <2>4. QED
      BY <1>2, <2>1, <2>2, <2>3 DEF Deciding, Clean
  <1>3. QED
    BY <1>1, <1>2

\* A statement on a table, with which a request begins or ends.
LEMMA RightsWrite ==
  ASSUME RightsInv, DOMAIN pc' = Client, \A d \in Client : pc'[d] \in {pc[d], Rights!Idle},
         retained' \in Nat, retained <= retained',
         rights' = rights \/ (rights' \in Right /\ Decided(rights')),
         export' = export \/ (export' \in Copy /\ (export'.status = "approved" => Clean(export')))
  PROVE  RightsInv'
  <1>1. \A d \in Client : Deciding(d)'
    BY DecidingStays
  <1>2. QED
    BY <1>1 DEF RightsInv, Decided, Clean

\* One request goes on, the tables stay.
LEMMA RightsGoes ==
  ASSUME RightsInv, NEW c \in Client, NEW frame, pc' = [pc EXCEPT ![c] = frame],
         UNCHANGED <<retained, rights, export>>, Deciding(c)'
  PROVE  RightsInv'
  <1>1. \A d \in Client : Deciding(d)'
    <2> SUFFICES ASSUME NEW d \in Client \ {c}
                 PROVE  Deciding(d)'
      OBVIOUS
    <2>1. pc'[d] = pc[d] /\ Deciding(d)
      BY DEF RightsInv
    <2>2. QED
      BY <2>1 DEF Deciding, Clean
  <1>2. QED
    BY <1>1 DEF RightsInv, Decided, Clean

\* Whatever has been decided since it was read, a row is written back as its decision left it.
LEMMA RightsSteps ==
  ASSUME RightsInv, Rights!Next
  PROVE  RightsInv'
  <1> USE DEF Rights!Served, Rights!Begin, Rights!Goes, Rights!Done, Rights!Under, Rights!tables
  <1>1. CASE \/ Rights!handleCreatePurpose \/ Rights!handleRecordNotice \/ Rights!handleSetSecurityLogRetention
             \/ Rights!handleRecordIdentityAlternative \/ Rights!handleSetAadhaarPreference
    <2>1. UNCHANGED <<retained, rights, export, pc>>
      BY <1>1 DEF Rights!handleCreatePurpose, Rights!handleRecordNotice, Rights!handleSetSecurityLogRetention,
        Rights!handleRecordIdentityAlternative, Rights!handleSetAadhaarPreference,
        Rights!CreatePurpose, Rights!RecordNotice, Rights!SetSecurityLogRetention,
        Rights!RecordIdentityAlternative, Rights!SetAadhaarPreference,
        Rights!InsertPurpose, Rights!InsertNotice, Rights!UpsertSecurityLogSetting,
        Rights!InsertIdentityAlternative, Rights!UpsertAadhaarPreference, Rights!Insert
    <2>2. QED
      BY <2>1, RightsWrite DEF RightsInv
  <1>2. CASE Rights!handleRecordConsent \/ Rights!handleRecordProcessor
    <2>1. UNCHANGED <<retained, rights, export, pc>>
      BY <1>2 DEF Rights!handleRecordConsent, Rights!RecordConsent, Rights!handleRecordProcessor,
        Rights!RecordProcessorContract
    <2>2. QED
      BY <2>1, RightsWrite DEF RightsInv
  <1>3. CASE Rights!handleCreateRetentionRecord
    <2>1. retained' = retained + 1 /\ UNCHANGED <<rights, export, pc>>
      BY <1>3 DEF Rights!handleCreateRetentionRecord, Rights!CreateRetentionRecord, Rights!InsertRetentionRecord
    <2>2. QED
      BY <2>1, RightsWrite DEF RightsInv
  <1>4. ASSUME NEW type \in {"erasure", "access"}, Rights!handleSubmitRightsRequest(type)
        PROVE  RightsInv'
    <2>1. /\ rights' = [type |-> type, status |-> "pending", reason |-> FALSE, completed |-> FALSE, held |-> 0]
          /\ UNCHANGED <<retained, export, pc>>
      BY <1>4 DEF Rights!handleSubmitRightsRequest, Rights!SubmitRightsRequest
    <2>2. rights' \in Right /\ Decided(rights')
      BY <2>1 DEF Right, Decided
    <2>3. QED
      BY <2>1, <2>2, RightsWrite DEF RightsInv
  <1>5. ASSUME NEW deidentified \in BOOLEAN, Rights!handleRequestEvalExport(deidentified)
        PROVE  RightsInv'
    <2>1. /\ export' = [deidentified |-> deidentified, status |-> IF deidentified THEN "created" ELSE "denied"]
          /\ UNCHANGED <<retained, rights, pc>>
      BY <1>5 DEF Rights!handleRequestEvalExport, Rights!RequestEvalExport
    <2>2. export' \in Copy /\ (export'.status = "approved" => Clean(export'))
      BY <2>1 DEF Copy, Clean
    <2>3. QED
      BY <2>1, <2>2, RightsWrite DEF RightsInv
  <1>6. ASSUME NEW c \in Client, NEW approved \in BOOLEAN, NEW reason \in BOOLEAN,
               Rights!handleProcessRightsRequest(c, approved, reason)
        PROVE  RightsInv'
    <2> DEFINE read == [rights EXCEPT !.held = retained]
               row == IF approved THEN read ELSE [read EXCEPT !.reason = reason]
               op == IF ~approved THEN "reject" ELSE IF rights.type = "erasure" THEN "retained" ELSE "complete"
               frame == [op |-> op, row |-> row]
    <2>1. rights # None /\ pc' = [pc EXCEPT ![c] = frame] /\ UNCHANGED <<retained, rights, export>>
      BY <1>6 DEF Rights!handleProcessRightsRequest
    <2>6. op \in {"reject", "retained", "complete"} /\ (op = "complete" => rights.type # "erasure")
      OBVIOUS
    <2>2. row \in Right /\ row.held = retained /\ row.type = rights.type
      <3>1. read \in Right /\ read.held = retained /\ read.type = rights.type
        BY <2>1 DEF RightsInv, Right
      <3>2. QED
        BY <3>1 DEF Right
    <2>3. pc'[c] = frame /\ retained \in Nat
      BY <2>1 DEF RightsInv
    <2>4. Deciding(c)'
      <3> HIDE DEF read, row, op
      <3>1. QED
        BY <2>1, <2>2, <2>3, <2>6 DEF Deciding, Clean
    <2>5. QED
      BY <2>1, <2>4, RightsGoes
  <1>7. ASSUME NEW c \in Client, Rights!RetentionBlocks(c)
        PROVE  RightsInv'
    <2> DEFINE op == IF retained > 0 THEN "block" ELSE "complete"
    <2>1. /\ pc[c].op = "retained" /\ pc' = [pc EXCEPT ![c] = [pc[c] EXCEPT !.op = op]]
          /\ UNCHANGED <<retained, rights, export>>
      BY <1>7 DEF Rights!RetentionBlocks, Rights!ListActiveRetentionRecords
    <2>2. /\ pc[c] \in [op : {"retained", "reject", "block", "complete"}, row : Right]
          /\ pc[c].row.held <= retained
      BY <2>1 DEF RightsInv, Deciding, Clean
    <2>3. pc'[c] = [op |-> op, row |-> pc[c].row] /\ pc[c].row \in Right
      BY <2>1, <2>2 DEF RightsInv
    <2>4. op = "complete" => pc[c].row.held = 0
      BY <2>2, <2>3 DEF RightsInv, Right
    <2>5. op \in {"block", "complete"}
      OBVIOUS
    <2>6. Deciding(c)'
      <3> HIDE DEF op
      <3>1. UNCHANGED retained
        BY <2>1
      <3>2. QED
        BY <2>2, <2>3, <2>4, <2>5, <3>1 DEF Deciding, Clean
    <2>7. QED
      BY <2>1, <2>6, RightsGoes
  <1>8. ASSUME NEW c \in Client, Rights!ProcessRightsRequest(c)
        PROVE  RightsInv'
    <2> DEFINE row == pc[c].row
    <2>1. /\ pc[c].op \in {"reject", "block", "complete"} /\ pc' = [pc EXCEPT ![c] = Rights!Idle]
          /\ pc[c].op = "reject" => rights' = [row EXCEPT !.status = "rejected"]
          /\ pc[c].op = "block" => rights' = [row EXCEPT !.status = "blocked", !.reason = TRUE]
          /\ pc[c].op = "complete" => rights' = [row EXCEPT !.status = "completed", !.completed = TRUE]
          /\ UNCHANGED <<retained, export>>
      BY <1>8 DEF Rights!ProcessRightsRequest, Rights!UpdateRightsRequest
    <2>2. row \in Right /\ (pc[c].op = "complete" /\ row.type = "erasure" => row.held = 0)
      BY <2>1 DEF RightsInv, Deciding, Clean
    <2>3. rights' \in Right /\ Decided(rights')
      BY <2>1, <2>2 DEF Right, Decided
    <2>4. QED
      BY <2>1, <2>3, RightsWrite DEF RightsInv
  <1>9. ASSUME NEW c \in Client,
               \/ Rights!handleWithdrawConsent(c)
               \/ \E approved \in BOOLEAN : Rights!handleReviewProcessor(c, approved)
        PROVE  RightsInv'
    <2>1. PICK frame : /\ pc' = [pc EXCEPT ![c] = frame] /\ UNCHANGED <<retained, rights, export>>
                       /\ frame.op \in {"withdraw", "processor"}
      <3>1. CASE Rights!handleWithdrawConsent(c)
        <4> DEFINE frame == [op |-> "withdraw", row |-> consent]
        <4>1. frame.op = "withdraw"
          OBVIOUS
        <4>2. pc' = [pc EXCEPT ![c] = frame] /\ UNCHANGED <<retained, rights, export>>
          BY <3>1 DEF Rights!handleWithdrawConsent
        <4>3. QED
          BY <4>1, <4>2
      <3>2. ASSUME NEW approved \in BOOLEAN, Rights!handleReviewProcessor(c, approved)
            PROVE  \E frame : /\ pc' = [pc EXCEPT ![c] = frame] /\ UNCHANGED <<retained, rights, export>>
                              /\ frame.op \in {"withdraw", "processor"}
        <4> DEFINE frame == [op |-> "processor", row |-> IF approved THEN "approved" ELSE "revoked"]
        <4>1. frame.op = "processor"
          OBVIOUS
        <4>2. pc' = [pc EXCEPT ![c] = frame] /\ UNCHANGED <<retained, rights, export>>
          BY <3>2 DEF Rights!handleReviewProcessor
        <4>3. QED
          BY <4>1, <4>2
      <3>3. QED
        BY <1>9, <3>1, <3>2
    <2>2. pc'[c] = frame
      BY <2>1 DEF RightsInv
    <2>3. Deciding(c)'
      BY <2>1, <2>2 DEF Deciding, Clean
    <2>4. QED
      BY <2>1, <2>3, RightsGoes
  <1>10. ASSUME NEW c \in Client,
                Rights!WithdrawConsent(c) \/ Rights!ReviewProcessorContract(c) \/ Rights!Abandon(c)
         PROVE  RightsInv'
    <2>1. pc' = [pc EXCEPT ![c] = Rights!Idle] /\ UNCHANGED <<retained, rights, export>>
      BY <1>10 DEF Rights!WithdrawConsent, Rights!ReviewProcessorContract, Rights!Abandon, Rights!Dropped
    <2>2. QED
      BY <2>1, RightsWrite DEF RightsInv
  <1>11. ASSUME NEW c \in Client, Rights!handleApproveEvalExport(c) \/ Rights!handleDenyEvalExport(c)
         PROVE  RightsInv'
    <2>1. PICK op \in {"approve", "deny"} :
            /\ pc' = [pc EXCEPT ![c] = [op |-> op, row |-> export]] /\ UNCHANGED <<retained, rights, export>>
            /\ export # None /\ (op = "approve" => export.deidentified)
      BY <1>11 DEF Rights!handleApproveEvalExport, Rights!handleDenyEvalExport
    <2>2. /\ pc'[c] = [op |-> op, row |-> export] /\ export \in Copy
          /\ op = "approve" => Clean(export)
      BY <2>1 DEF RightsInv, Copy, Clean
    <2>3. Deciding(c)'
      BY <2>1, <2>2 DEF Deciding, Clean
    <2>4. QED
      BY <2>1, <2>3, RightsGoes
  <1>12. ASSUME NEW c \in Client, Rights!ApproveEvalExport(c) \/ Rights!DenyEvalExport(c)
         PROVE  RightsInv'
    <2>1. PICK op \in {"approve", "deny"} :
            /\ pc[c].op = op /\ pc' = [pc EXCEPT ![c] = Rights!Idle]
            /\ op = "approve" => export' = [pc[c].row EXCEPT !.status = "approved"]
            /\ op = "deny" => export' = [pc[c].row EXCEPT !.status = "denied"]
            /\ UNCHANGED <<retained, rights>>
      BY <1>12 DEF Rights!ApproveEvalExport, Rights!DenyEvalExport, Rights!UpdateEvalExport
    <2>2. pc[c].row \in Copy /\ (op = "approve" => Clean(pc[c].row))
      BY <2>1 DEF RightsInv, Deciding, Clean
    <2>3. export' \in Copy /\ (export'.status = "approved" => Clean(export'))
      BY <2>1, <2>2 DEF Copy, Clean
    <2>4. QED
      BY <2>1, <2>3, RightsWrite DEF RightsInv
  <1>13. QED
    BY <1>1, <1>2, <1>3, <1>4, <1>5, <1>6, <1>7, <1>8, <1>9, <1>10, <1>11, <1>12 DEF Rights!Next

\* An erasure that ends up completed was decided by a review that began with nothing retained, a blocked one says
\* why, and nothing is approved for export that was not de-identified (privacy/service.go).
THEOREM RetainedIsNotErasedCorrect == Spec => []RetainedIsNotErased
  <1> DEFINE Inv == part = "privacy" => RightsInv
  <1>1. Init => Inv
    BY DEF Init, Rights!Init, Rights!NoRequests, RightsInv, Deciding, Clean, Rights!Idle
  <1>2. Inv /\ [Next]_vars => Inv'
    <2> SUFFICES ASSUME Inv, [Next]_vars, part' = "privacy"
                 PROVE  RightsInv'
      OBVIOUS
    <2>1. part = "privacy" /\ RightsInv
      BY Stays
    <2>2. CASE UNCHANGED <<privacy, pc, requests>>
      <3>1. UNCHANGED <<retained, rights, export, pc>>
        BY <2>2 DEF privacy
      <3>2. QED
        BY <2>1, <3>1, RightsWrite DEF RightsInv
    <2>3. QED
      BY <2>1, <2>2, RightsSteps, Stays
  <1>3. Inv => RetainedIsNotErased
    BY DEF RetainedIsNotErased, Rights!RetainedIsNotErased, RightsInv, Decided, Clean
  <1>4. QED
    BY <1>1, <1>2, <1>3, PTL DEF Spec

-----------------------------------------------------------------------------
(* Consumers: disclosures, acceptances, and the exports of a history *)

Frame == [op : {"packages", "invoices", "orders", "services", "export"}, tenant : Tenant,
          property : Property \union {None}, rows : SUBSET Nat, begun : Nat]

\* The tables an export has yet to read, before each of its queries.
Ahead ==
  [packages |-> Owners!Source, invoices |-> {"invoices", "charges", "tickets"},
   orders |-> {"charges", "tickets"}, services |-> {"tickets"}, export |-> {}]

\* What an export has collected: rows of its tenant and property, and of the tables it has read all
\* that were there when it was asked for.
Collected(e, ahead) ==
  /\ e.begun <= Len(history)
  /\ \A r \in e.rows : r \in DOMAIN history /\ Owners!Exported(e, r)
  /\ \A r \in 1 .. e.begun : Owners!Exported(e, r) /\ history[r].table \notin ahead => r \in e.rows

\* What was accepted had been disclosed.
Disclosed(a) ==
  /\ a.disclosure \in DOMAIN shown
  /\ shown[a.disclosure].tenant = a.tenant
  /\ shown[a.disclosure].resource = a.resource
  /\ shown[a.disclosure].recurrence # "one_time" => shown[a.disclosure].amount # None

Asking(c) ==
  LET f == pc[c] IN
  /\ f.op = "accept" => Disclosed(f.row)
  /\ f.op \in DOMAIN Ahead => f \in Frame /\ Collected(f, Ahead[f.op])

Export == [tenant : Tenant, property : Property \union {None}, rows : SUBSET Nat, begun : Nat]

OwnersInv ==
  /\ DOMAIN pc = Client
  /\ IsTable(shown) /\ IsTable(acceptances)
  /\ history \in Seq(Owners!Row)
  /\ exports \in Seq(Export)
  /\ \A x \in DOMAIN exports : Collected(exports[x], {})
  /\ \A a \in DOMAIN acceptances : Disclosed(acceptances[a])
  /\ \A c \in Client : Asking(c)

LEMMA CollectedStays ==
  ASSUME history \in Seq(Owners!Row), history' \in Seq(Owners!Row), Grows(history),
         NEW e, e.begun \in Nat, NEW ahead, Collected(e, ahead)
  PROVE  Collected(e, ahead)'
  <1>1. /\ Len(history) \in Nat /\ DOMAIN history = 1 .. Len(history)
        /\ Len(history') \in Nat /\ DOMAIN history' = 1 .. Len(history')
    BY Rows
  <1>2. Len(history) <= Len(history')
    BY <1>1 DEF Grows
  <1>3. \A r \in 1 .. e.begun : r \in DOMAIN history
    BY <1>1 DEF Collected
  <1>4. QED
    BY <1>1, <1>2, <1>3 DEF Collected, Grows, Owners!Exported

LEMMA DisclosedStays ==
  ASSUME Grows(shown), NEW a, Disclosed(a)
  PROVE  Disclosed(a)'
  BY DEF Disclosed, Grows

\* Requests stay as they are or end, and nothing is taken away from what they have read.
LEMMA AskingStays ==
  ASSUME OwnersInv, NEW d \in Client, pc'[d] \in {pc[d], Owners!Idle},
         history' \in Seq(Owners!Row), Grows(history), Grows(shown)
  PROVE  Asking(d)'
  <1>1. CASE pc'[d] = Owners!Idle
    BY <1>1 DEF Asking, Owners!Idle, Ahead
  <1>2. CASE pc'[d] = pc[d]
    <2>1. PICK f : f = pc[d]
      OBVIOUS
    <2>2. /\ f.op = "accept" => Disclosed(f.row)
          /\ f.op \in DOMAIN Ahead => f \in Frame /\ Collected(f, Ahead[f.op])
      BY <2>1 DEF OwnersInv, Asking
    <2>3. f.op = "accept" => Disclosed(f.row)'
      BY <2>2, DisclosedStays
    <2>4. f.op \in DOMAIN Ahead => Collected(f, Ahead[f.op])'
      <3> SUFFICES ASSUME f.op \in DOMAIN Ahead
                   PROVE  Collected(f, Ahead[f.op])'
        OBVIOUS
      <3>1. f.begun \in Nat
        BY <2>2 DEF Frame
      <3>2. QED
        BY <2>2, <3>1, CollectedStays DEF OwnersInv
    <2>5. pc'[d] = f
      BY <1>2, <2>1
    <2>6. QED
      BY <2>2, <2>3, <2>4, <2>5 DEF Asking, Disclosed, Collected, Owners!Exported
  <1>3. QED
    BY <1>1, <1>2

\* One request goes on, the tables stay.
LEMMA OwnersGoes ==
  ASSUME OwnersInv, NEW c \in Client, NEW frame, pc' = [pc EXCEPT ![c] = frame],
         UNCHANGED <<shown, acceptances, history, exports>>,
         frame.op = "accept" => Disclosed(frame.row),
         frame.op \in DOMAIN Ahead => frame \in Frame /\ Collected(frame, Ahead[frame.op])
  PROVE  OwnersInv'
  <1>1. ASSUME NEW d \in Client \ {c}
        PROVE  Asking(d)'
    <2>1. pc'[d] = pc[d]
      BY DEF OwnersInv
    <2>2. Grows(history) /\ Grows(shown) /\ history' \in Seq(Owners!Row)
      BY DEF OwnersInv, Grows
    <2>3. QED
      BY <2>1, <2>2, AskingStays
  <1>2. pc'[c] = frame
    BY DEF OwnersInv
  <1>3. Asking(c)'
    BY <1>2 DEF Asking, Disclosed, Collected, Owners!Exported
  <1>4. QED
    BY <1>1, <1>3 DEF OwnersInv, Disclosed, Collected, Owners!Exported, IsTable

\* A statement inserts rows, and its request ends.
LEMMA OwnersWrite ==
  ASSUME OwnersInv, DOMAIN pc' = Client, \A d \in Client : pc'[d] \in {pc[d], Owners!Idle},
         IsTable(shown'), Grows(shown),
         history' \in Seq(Owners!Row), Grows(history),
         IsTable(acceptances'), \A a \in DOMAIN acceptances' \ DOMAIN acceptances : Disclosed(acceptances'[a]),
         \A a \in DOMAIN acceptances : acceptances'[a] = acceptances[a],
         exports' \in Seq(Export), \A x \in DOMAIN exports' \ DOMAIN exports : Collected(exports'[x], {}),
         \A x \in DOMAIN exports : exports'[x] = exports[x]
  PROVE  OwnersInv'
  <1>1. \A d \in Client : Asking(d)'
    BY AskingStays
  <1>2. ASSUME NEW a \in DOMAIN acceptances'
        PROVE  Disclosed(acceptances[a])'
    <2>1. PICK row : row = acceptances'[a]
      OBVIOUS
    <2>2. Disclosed(row)
      BY <2>1 DEF OwnersInv
    <2>3. Disclosed(row)'
      BY <2>2, DisclosedStays
    <2>4. QED
      BY <2>1, <2>3 DEF Disclosed
  <1>3. ASSUME NEW x \in DOMAIN exports'
        PROVE  Collected(exports[x], {})'
    <2>1. PICK e : e = exports'[x]
      OBVIOUS
    <2>2. Collected(e, {})
      BY <2>1 DEF OwnersInv
    <2>3. e.begun \in Nat
      <3>1. e \in Export
        BY <2>1, Rows
      <3>2. QED
        BY <3>1 DEF Export
    <2>4. Collected(e, {})'
      BY <2>2, <2>3, CollectedStays DEF OwnersInv
    <2>5. QED
      BY <2>1, <2>4 DEF Collected, Owners!Exported
  <1>4. QED
    BY <1>1, <1>2, <1>3 DEF OwnersInv, IsTable

\* A query of an export adds the rows it finds to those it has.
LEMMA Collects ==
  ASSUME OwnersInv, NEW c \in Client, NEW from \in DOMAIN Ahead, NEW to \in DOMAIN Ahead \ {"packages"},
         NEW rows \in SUBSET DOMAIN history, Owners!Collect(c, from, to, rows),
         \A r \in rows : Owners!Exported(pc[c], r),
         \A r \in 1 .. pc[c].begun : Owners!Exported(pc[c], r) /\ history[r].table \in Ahead[from] \ Ahead[to]
                                      => r \in rows
  PROVE  OwnersInv'
  <1> DEFINE f == pc[c]
             frame == [f EXCEPT !.op = to, !.rows = @ \union rows]
  <1>1. /\ f.op = from /\ pc' = [pc EXCEPT ![c] = frame]
        /\ UNCHANGED <<shown, acceptances, history, exports>>
    BY DEF Owners!Collect, Owners!Goes, Owners!Under, Owners!tables
  <1>2. f \in Frame /\ Collected(f, Ahead[from])
    BY <1>1 DEF OwnersInv, Asking
  <1>4. to \in {"invoices", "orders", "services", "export"} /\ DOMAIN history \subseteq Nat
    BY Rows DEF Ahead, OwnersInv
  <1>3. rows \subseteq Nat
    BY <1>4
  <1>5. /\ frame \in Frame /\ frame.op = to /\ frame.rows = f.rows \union rows
        /\ frame.tenant = f.tenant /\ frame.property = f.property /\ frame.begun = f.begun
    BY <1>2, <1>3, <1>4 DEF Frame
  <1> HIDE DEF frame
  <1>6. \A r \in DOMAIN history : Owners!Exported(frame, r) <=> Owners!Exported(f, r)
    BY <1>5 DEF Owners!Exported
  <1>7. \A r \in 1 .. f.begun : r \in DOMAIN history
    BY <1>2, Rows DEF Collected, OwnersInv, Frame
  <1>8. Collected(frame, Ahead[to])
    BY <1>2, <1>5, <1>6, <1>7 DEF Collected
  <1>9. to # "accept"
    BY <1>4
  <1>10. QED
    BY <1>1, <1>5, <1>8, <1>9, OwnersGoes

\* What an export has read it keeps, and what is inserted beside it comes after what there was.
LEMMA OwnersSteps ==
  ASSUME OwnersInv, Owners!Next
  PROVE  OwnersInv'
  <1> USE DEF Owners!Served, Owners!Begin, Owners!Goes, Owners!Done, Owners!Under, Owners!tables
  <1>0. /\ IsTable(shown) /\ IsTable(acceptances)
        /\ history \in Seq(Owners!Row) /\ exports \in Seq(Export)
        /\ Grows(shown) <=> DOMAIN shown \subseteq DOMAIN shown' /\ \A n \in DOMAIN shown : shown'[n] = shown[n]
        /\ Grows(history) <=> DOMAIN history \subseteq DOMAIN history' /\ \A n \in DOMAIN history : history'[n] = history[n]
    BY DEF OwnersInv, Grows
  <1>1. ASSUME NEW tenant \in Tenant, NEW resource \in Resource, NEW recurrence \in {"one_time", "monthly"},
               NEW amount \in Owners!Amount, Owners!handleRecordDisclosure(tenant, resource, recurrence, amount)
        PROVE  OwnersInv'
    <2>1. PICK row : /\ shown' = Append(shown, row)
                     /\ UNCHANGED <<acceptances, history, exports, pc>>
      BY <1>1 DEF Owners!handleRecordDisclosure, Owners!RecordDisclosure, Owners!InsertDisclosure
    <2>2. IsTable(shown') /\ Grows(shown) /\ Grows(history)
      BY <1>0, <2>1, TableInserted
    <2>3. QED
      BY <1>0, <2>1, <2>2, OwnersWrite DEF OwnersInv
  <1>2. ASSUME NEW row \in Owners!Row, Owners!Recorded(row)
        PROVE  OwnersInv'
    <2>1. history' = Append(history, row) /\ UNCHANGED <<shown, acceptances, exports, pc>>
      BY <1>2 DEF Owners!Recorded
    <2>2. history' \in Seq(Owners!Row) /\ Grows(history) /\ Grows(shown)
      BY <1>0, <2>1, Inserted
    <2>3. QED
      BY <1>0, <2>1, <2>2, OwnersWrite DEF OwnersInv
  <1>3. ASSUME NEW c \in Client, NEW tenant \in Tenant, NEW d \in DOMAIN shown, NEW resource \in Resource,
               Owners!handleAccept(c, tenant, d, resource)
        PROVE  OwnersInv'
    <2> DEFINE row == [tenant |-> tenant, disclosure |-> d, resource |-> resource]
               frame == [op |-> "accept", row |-> row]
    <2>1. pc' = [pc EXCEPT ![c] = frame] /\ UNCHANGED <<shown, acceptances, history, exports>>
      BY <1>3 DEF Owners!handleAccept
    <2>2. Disclosed(row)
      BY <1>3 DEF Owners!handleAccept, Owners!GetDisclosure, Owners!DisclosureIsAcceptable, Disclosed
    <2>3. frame.op = "accept" /\ frame.row = row /\ "accept" \notin DOMAIN Ahead
      BY DEF Ahead
    <2> HIDE DEF frame, row
    <2>4. QED
      BY <2>1, <2>2, <2>3, OwnersGoes
  <1>4. ASSUME NEW c \in Client, Owners!Accept(c)
        PROVE  OwnersInv'
    <2>1. PICK row : row = pc[c].row
      OBVIOUS
    <2>2. /\ pc[c].op = "accept" /\ acceptances' = Append(acceptances, row)
          /\ pc' = [pc EXCEPT ![c] = Owners!Idle] /\ UNCHANGED <<shown, history, exports>>
      BY <1>4, <2>1 DEF Owners!Accept, Owners!InsertAcceptance
    <2>3. Disclosed(row)
      BY <2>1, <2>2 DEF OwnersInv, Asking
    <2>4. /\ IsTable(acceptances') /\ DOMAIN acceptances' = DOMAIN acceptances \union {Len(acceptances) + 1}
          /\ \A a \in DOMAIN acceptances : acceptances'[a] = acceptances[a]
          /\ acceptances'[Len(acceptances) + 1] = row
      BY <1>0, <2>2, TableInserted
    <2>5. Grows(history) /\ Grows(shown)
      BY <1>0, <2>2
    <2>6. QED
      BY <1>0, <2>2, <2>3, <2>4, <2>5, OwnersWrite DEF OwnersInv
  <1>5. ASSUME NEW c \in Client, NEW tenant \in Tenant, NEW property \in Property \union {None},
               Owners!handleCreateHistoryExport(c, tenant, property)
        PROVE  OwnersInv'
    <2> DEFINE frame == [op |-> "packages", tenant |-> tenant, property |-> property, rows |-> {},
                         begun |-> Len(history)]
    <2>1. pc' = [pc EXCEPT ![c] = frame] /\ UNCHANGED <<shown, acceptances, history, exports>>
      BY <1>5 DEF Owners!handleCreateHistoryExport
    <2>2. Len(history) \in Nat /\ DOMAIN history = 1 .. Len(history) /\ \A r \in DOMAIN history : history[r] \in Owners!Row
      BY <1>0, Rows
    <2>3. frame \in Frame
      BY <2>2 DEF Frame
    <2>4. Collected(frame, Ahead["packages"])
      BY <2>2 DEF Collected, Ahead, Owners!Row
    <2>5. frame.op = "packages"
      OBVIOUS
    <2> HIDE DEF frame
    <2>6. QED
      BY <2>1, <2>3, <2>4, <2>5, OwnersGoes
  <1>6. ASSUME NEW c \in Client, Owners!CollectPackages(c)
        PROVE  OwnersInv'
    <2> DEFINE rows == Owners!Rows(pc[c].tenant, pc[c].property, "property_package_versions")
    <2>1. Owners!Collect(c, "packages", "invoices", rows)
      BY <1>6 DEF Owners!CollectPackages
    <2>2. rows \subseteq DOMAIN history /\ \A r \in rows : Owners!Exported(pc[c], r)
      BY DEF Owners!Rows, Owners!Exported
    <2>3. pc[c] \in Frame /\ pc[c].begun <= Len(history)
      BY <2>1 DEF OwnersInv, Asking, Ahead, Collected, Owners!Collect
    <2>4. \A r \in 1 .. pc[c].begun : r \in DOMAIN history
      BY <1>0, <2>3, Rows DEF Frame
    <2>5. \A r \in 1 .. pc[c].begun : Owners!Exported(pc[c], r) /\ history[r].table = "property_package_versions" => r \in rows
      BY <2>4 DEF Owners!Rows, Owners!Exported
    <2>6. Ahead["packages"] \ Ahead["invoices"] = {"property_package_versions"}
      BY DEF Ahead, Owners!Source
    <2>7. "packages" \in DOMAIN Ahead /\ "invoices" \in DOMAIN Ahead \ {"packages"}
      BY DEF Ahead
    <2> HIDE DEF rows
    <2>8. QED
      BY <2>1, <2>2, <2>5, <2>6, <2>7, Collects
  <1>7. ASSUME NEW c \in Client, Owners!CollectInvoices(c)
        PROVE  OwnersInv'
    <2> DEFINE rows == Owners!Rows(pc[c].tenant, pc[c].property, "invoices")
    <2>1. Owners!Collect(c, "invoices", "orders", rows)
      BY <1>7 DEF Owners!CollectInvoices
    <2>2. rows \subseteq DOMAIN history /\ \A r \in rows : Owners!Exported(pc[c], r)
      BY DEF Owners!Rows, Owners!Exported
    <2>3. pc[c] \in Frame /\ pc[c].begun <= Len(history)
      BY <2>1 DEF OwnersInv, Asking, Ahead, Collected, Owners!Collect
    <2>4. \A r \in 1 .. pc[c].begun : r \in DOMAIN history
      BY <1>0, <2>3, Rows DEF Frame
    <2>5. \A r \in 1 .. pc[c].begun : Owners!Exported(pc[c], r) /\ history[r].table = "invoices" => r \in rows
      BY <2>4 DEF Owners!Rows, Owners!Exported
    <2>6. Ahead["invoices"] \ Ahead["orders"] = {"invoices"}
      BY DEF Ahead, Owners!Source
    <2>7. "invoices" \in DOMAIN Ahead /\ "orders" \in DOMAIN Ahead \ {"packages"}
      BY DEF Ahead
    <2> HIDE DEF rows
    <2>8. QED
      BY <2>1, <2>2, <2>5, <2>6, <2>7, Collects
  <1>8. ASSUME NEW c \in Client, Owners!CollectOrders(c)
        PROVE  OwnersInv'
    <2> DEFINE rows == {r \in Owners!Rows(pc[c].tenant, pc[c].property, "charges") : history[r].ordered}
    <2>1. Owners!Collect(c, "orders", "services", rows)
      BY <1>8 DEF Owners!CollectOrders
    <2>2. rows \subseteq DOMAIN history /\ \A r \in rows : Owners!Exported(pc[c], r)
      BY DEF Owners!Rows, Owners!Exported
    <2>3. pc[c] \in Frame /\ pc[c].begun <= Len(history)
      BY <2>1 DEF OwnersInv, Asking, Ahead, Collected, Owners!Collect
    <2>4. \A r \in 1 .. pc[c].begun : r \in DOMAIN history
      BY <1>0, <2>3, Rows DEF Frame
    <2>5. \A r \in 1 .. pc[c].begun : Owners!Exported(pc[c], r) /\ history[r].table = "charges" => r \in rows
      BY <2>4 DEF Owners!Rows, Owners!Exported
    <2>6. Ahead["orders"] \ Ahead["services"] = {"charges"}
      BY DEF Ahead, Owners!Source
    <2>7. "orders" \in DOMAIN Ahead /\ "services" \in DOMAIN Ahead \ {"packages"}
      BY DEF Ahead
    <2> HIDE DEF rows
    <2>8. QED
      BY <2>1, <2>2, <2>5, <2>6, <2>7, Collects
  <1>9. ASSUME NEW c \in Client, Owners!CollectServices(c)
        PROVE  OwnersInv'
    <2> DEFINE rows == Owners!Rows(pc[c].tenant, pc[c].property, "tickets")
    <2>1. Owners!Collect(c, "services", "export", rows)
      BY <1>9 DEF Owners!CollectServices
    <2>2. rows \subseteq DOMAIN history /\ \A r \in rows : Owners!Exported(pc[c], r)
      BY DEF Owners!Rows, Owners!Exported
    <2>3. pc[c] \in Frame /\ pc[c].begun <= Len(history)
      BY <2>1 DEF OwnersInv, Asking, Ahead, Collected, Owners!Collect
    <2>4. \A r \in 1 .. pc[c].begun : r \in DOMAIN history
      BY <1>0, <2>3, Rows DEF Frame
    <2>5. \A r \in 1 .. pc[c].begun : Owners!Exported(pc[c], r) /\ history[r].table = "tickets" => r \in rows
      BY <2>4 DEF Owners!Rows, Owners!Exported
    <2>6. Ahead["services"] \ Ahead["export"] = {"tickets"}
      BY DEF Ahead, Owners!Source
    <2>7. "services" \in DOMAIN Ahead /\ "export" \in DOMAIN Ahead \ {"packages"}
      BY DEF Ahead
    <2> HIDE DEF rows
    <2>8. QED
      BY <2>1, <2>2, <2>5, <2>6, <2>7, Collects
  <1>10. ASSUME NEW c \in Client, Owners!CreateHistoryExport(c)
         PROVE  OwnersInv'
    <2>1. PICK f : f = pc[c]
      OBVIOUS
    <2> DEFINE e == [tenant |-> f.tenant, property |-> f.property, rows |-> f.rows, begun |-> f.begun]
    <2>2. /\ f.op = "export" /\ exports' = Append(exports, e)
          /\ pc' = [pc EXCEPT ![c] = Owners!Idle] /\ UNCHANGED <<shown, acceptances, history>>
      BY <1>10, <2>1 DEF Owners!CreateHistoryExport, Owners!InsertHistoryExport
    <2>3. f \in Frame /\ Collected(f, {})
      <3>1. "export" \in DOMAIN Ahead /\ Ahead["export"] = {}
        BY DEF Ahead
      <3>2. f \in Frame /\ Collected(f, Ahead["export"])
        BY <2>1, <2>2, <3>1 DEF OwnersInv, Asking
      <3>3. QED
        BY <3>1, <3>2
    <2>4. e \in Export
      BY <2>3 DEF Frame, Export
    <2>5. Collected(e, {})
      BY <2>3 DEF Collected, Owners!Exported
    <2> HIDE DEF e
    <2>6. /\ exports' \in Seq(Export) /\ DOMAIN exports' = DOMAIN exports \union {Len(exports) + 1}
          /\ \A x \in DOMAIN exports : exports'[x] = exports[x]
          /\ exports'[Len(exports) + 1] = e
      BY <1>0, <2>2, <2>4, Inserted
    <2>7. Grows(history) /\ Grows(shown)
      BY <1>0, <2>2
    <2>8. QED
      BY <1>0, <2>2, <2>5, <2>6, <2>7, OwnersWrite DEF OwnersInv
  <1>11. ASSUME NEW c \in Client, Owners!Abandon(c)
         PROVE  OwnersInv'
    <2>1. pc' = [pc EXCEPT ![c] = Owners!Idle] /\ UNCHANGED <<shown, acceptances, history, exports>>
      BY <1>11 DEF Owners!Abandon, Owners!Dropped
    <2>2. Owners!Idle.op = "idle" /\ "idle" \notin DOMAIN Ahead
      BY DEF Owners!Idle, Ahead
    <2>3. QED
      BY <2>1, <2>2, OwnersGoes
  <1>12. QED
    BY <1>1, <1>2, <1>3, <1>4, <1>5, <1>6, <1>7, <1>8, <1>9, <1>10, <1>11 DEF Owners!Next

\* What a tenant takes away is all its own, and what it accepted had been disclosed to it
\* (consumer/service.go, CON-001 and CON-006).
THEOREM OwnersSeeTheirsCorrect == Spec => []OwnersSeeTheirs
  <1> DEFINE Inv == part = "consumer" => OwnersInv
  <1>1. Init => Inv
    <2> SUFFICES ASSUME Init
                 PROVE  OwnersInv
      OBVIOUS
    <2>1. /\ shown = <<>> /\ acceptances = <<>> /\ history = <<>> /\ exports = <<>>
          /\ pc = [c \in Client |-> Owners!Idle]
      BY DEF Init, Owners!Init, Owners!NoRequests
    <2>2. IsTable(shown) /\ IsTable(acceptances) /\ DOMAIN acceptances = {}
      BY <2>1, EmptyTable
    <2>3. history \in Seq(Owners!Row) /\ exports \in Seq(Export) /\ DOMAIN exports = {}
      BY <2>1, Empty
    <2>4. \A c \in Client : Asking(c)
      BY <2>1 DEF Asking, Owners!Idle, Ahead
    <2>5. QED
      BY <2>1, <2>2, <2>3, <2>4 DEF OwnersInv
  <1>2. Inv /\ [Next]_vars => Inv'
    <2> SUFFICES ASSUME Inv, [Next]_vars, part' = "consumer"
                 PROVE  OwnersInv'
      OBVIOUS
    <2>1. part = "consumer" /\ OwnersInv
      BY Stays
    <2>2. CASE UNCHANGED <<consumer, pc, requests>>
      <3>1. UNCHANGED <<shown, acceptances, history, exports, pc>>
        BY <2>2 DEF consumer
      <3>2. Grows(history) /\ Grows(shown)
        BY <3>1 DEF Grows
      <3>3. QED
        BY <2>1, <3>1, <3>2, OwnersWrite DEF OwnersInv
    <2>3. QED
      BY <2>1, <2>2, OwnersSteps, Stays
  <1>3. Inv => OwnersSeeTheirs
    <2> SUFFICES ASSUME OwnersInv
                 PROVE  Owners!OwnersSeeTheirs
      BY DEF OwnersSeeTheirs
    <2>1. \A x \in DOMAIN exports : Collected(exports[x], {})
      BY DEF OwnersInv
    <2>2. \A a \in DOMAIN acceptances : Disclosed(acceptances[a])
      BY DEF OwnersInv
    <2>3. QED
      BY <2>1, <2>2 DEF Owners!OwnersSeeTheirs, Collected, Disclosed
  <1>4. QED
    BY <1>1, <1>2, <1>3, PTL DEF Spec

-----------------------------------------------------------------------------
(* The assistant: drafts, their reviews and deliveries *)

Draft == [policy : {"approved_template", "human_review"}, by : Person,
          state : {"under_review", "approved", "rejected", "delivered"}]
Delivery == [draft : Nat, key : Key \union {None}]

\* A free-form draft was approved by another than its author.
Reviewed(d) ==
  drafts[d].policy = "human_review" =>
    \E r \in draftReviews : r.draft = d /\ r.decision = "approved" /\ r.by # drafts[d].by

\* What a request relies on: who reviews is not the author, what is delivered was reviewed, and
\* whatever came since it began under its key or for its draft came beside it.
Assisting(f) ==
  /\ f.op \in {"review", "reviewed", "deliver", "look", "insert", "delivered"} => f.draft \in DOMAIN drafts
  /\ f.op \in {"review", "reviewed"} => f.decision \in {"approved", "rejected"}
  /\ f.op = "review" => f.by # drafts[f.draft].by
  /\ f.op = "reviewed" /\ f.decision = "approved" => Reviewed(f.draft)
  /\ f.op \in {"deliver", "look", "insert"} =>
       /\ f.key \in Key \union {None}
       /\ Assistant!DeliveriesUnder(f.key) # {} => f.draft \in deliveredBeside
  /\ f.op = "look" /\ f.state = "approved" => Reviewed(f.draft)
  /\ f.op = "insert" => /\ Reviewed(f.draft)
                        /\ Assistant!Deliveries(f.draft) # {} => f.draft \in deliveredBeside
  /\ f.op = "delivered" => Assistant!Deliveries(f.draft) # {} \/ f.draft \in deliveredBeside

AssistantRows ==
  /\ drafts \in Seq(Draft)
  /\ draftDeliveries \in Seq(Delivery)
  /\ \A n \in DOMAIN draftDeliveries : draftDeliveries[n].draft \in DOMAIN drafts
  /\ \A d \in DOMAIN drafts :
       /\ drafts[d].state = "approved" \/ Assistant!Deliveries(d) # {} => Reviewed(d)
       /\ d \notin deliveredBeside =>
            /\ drafts[d].state = "delivered" => Assistant!Deliveries(d) # {}
            /\ \A n, m \in Assistant!Deliveries(d) : n = m
  /\ \A n, m \in DOMAIN draftDeliveries :
       n # m /\ draftDeliveries[n].key # None => draftDeliveries[n].key # draftDeliveries[m].key

AssistantInv == DOMAIN pc = Client /\ AssistantRows /\ \A f \in Frames : Assisting(f)

LEMMA ReviewedStays ==
  ASSUME NEW d, Reviewed(d), drafts'[d].policy = drafts[d].policy, drafts'[d].by = drafts[d].by,
         draftReviews \subseteq draftReviews'
  PROVE  Reviewed(d)'
  BY DEF Reviewed

\* The deliveries of the others are as they were, or the request is told to be beside them.
LEMMA AssistingStays ==
  ASSUME NEW f, Assisting(f),
         DOMAIN drafts \subseteq DOMAIN drafts',
         \A d \in DOMAIN drafts : drafts'[d].policy = drafts[d].policy /\ drafts'[d].by = drafts[d].by,
         draftReviews \subseteq draftReviews', deliveredBeside \subseteq deliveredBeside',
         DOMAIN draftDeliveries \subseteq DOMAIN draftDeliveries',
         \A n \in DOMAIN draftDeliveries : draftDeliveries'[n] = draftDeliveries[n],
         f.op \in {"deliver", "look", "insert"} =>
           \/ f.draft \in deliveredBeside'
           \/ \A n \in DOMAIN draftDeliveries' \ DOMAIN draftDeliveries :
                draftDeliveries'[n].draft # f.draft /\ (f.key # None => draftDeliveries'[n].key # f.key)
  PROVE  Assisting(f)'
  <1>1. f.op \in {"review", "reviewed", "deliver", "look", "insert", "delivered"} =>
          /\ f.draft \in DOMAIN drafts /\ f.draft \in DOMAIN drafts'
          /\ Reviewed(f.draft) => Reviewed(f.draft)'
          /\ drafts'[f.draft].by = drafts[f.draft].by
    BY ReviewedStays DEF Assisting
  <1>2. f.op \in {"deliver", "look", "insert"} => (Assistant!DeliveriesUnder(f.key)' # {} => f.draft \in deliveredBeside')
    BY DEF Assisting, Assistant!DeliveriesUnder
  <1>3. f.op = "insert" => (Assistant!Deliveries(f.draft)' # {} => f.draft \in deliveredBeside')
    BY DEF Assisting, Assistant!Deliveries
  <1>4. f.op = "delivered" => Assistant!Deliveries(f.draft)' # {} \/ f.draft \in deliveredBeside'
    BY DEF Assisting, Assistant!Deliveries
  <1>5. QED
    BY <1>1, <1>2, <1>3, <1>4 DEF Assisting

LEMMA IdleAssists == Assisting(Assistant!Idle)
  BY DEF Assisting, Assistant!Idle

\* A request goes on, or none does, and the tables grow or stay.
LEMMA AssistantGrows ==
  ASSUME AssistantInv, NEW c \in Client, NEW frame, pc' = [pc EXCEPT ![c] = frame], Assisting(frame)',
         AssistantRows', \A f \in {pc[d] : d \in Client \ {c}} : Assisting(f)'
  PROVE  AssistantInv'
  <1>1. DOMAIN pc = Client
    BY DEF AssistantInv
  <1>2. \A f \in Frames' : f = frame \/ f \in {pc[d] : d \in Client \ {c}}
    BY <1>1 DEF Frames
  <1>3. ASSUME NEW f \in Frames'
        PROVE  Assisting(f)'
    <2>1. CASE f = frame
      BY <2>1
    <2>2. CASE f \in {pc[d] : d \in Client \ {c}}
      BY <2>2
    <2>3. QED
      BY <1>2, <2>1, <2>2
  <1>4. DOMAIN pc' = Client
    BY <1>1
  <1>5. QED
    BY <1>3, <1>4 DEF AssistantInv

LEMMA AssistantGoes ==
  ASSUME AssistantInv, NEW c \in Client, NEW frame, pc' = [pc EXCEPT ![c] = frame], Assisting(frame),
         UNCHANGED <<drafts, draftReviews, draftDeliveries, deliveredBeside>>
  PROVE  AssistantInv'
  <1>1. ASSUME NEW f, Assisting(f)
        PROVE  Assisting(f)'
    BY <1>1, AssistingStays
  <1>2. Assisting(frame)'
    BY <1>1
  <1>3. \A d : (Reviewed(d) <=> Reviewed(d)') /\ Assistant!Deliveries(d)' = Assistant!Deliveries(d)
    BY DEF Reviewed, Assistant!Deliveries
  <1>4. AssistantRows'
    BY <1>3 DEF AssistantInv, AssistantRows
  <1>5. \A f \in {pc[d] : d \in Client \ {c}} : Assisting(f)'
    BY <1>1 DEF AssistantInv, Frames
  <1>6. QED
    BY <1>2, <1>4, <1>5, AssistantGrows

\* The state of a draft is written over, and the request ends.
LEMMA DraftIsWritten ==
  ASSUME AssistantInv, NEW c \in Client, pc' = [pc EXCEPT ![c] = Assistant!Idle],
         NEW d \in DOMAIN drafts, NEW state \in {"approved", "rejected", "delivered"},
         drafts' = [drafts EXCEPT ![d].state = state],
         UNCHANGED <<draftReviews, draftDeliveries, deliveredBeside>>,
         state = "approved" => Reviewed(d),
         state = "delivered" => Assistant!Deliveries(d) # {} \/ d \in deliveredBeside
  PROVE  AssistantInv'
  <1>1. drafts \in Seq(Draft) /\ drafts[d] \in Draft
    BY Rows DEF AssistantInv, AssistantRows
  <1>2. drafts' = [drafts EXCEPT ![d] = [drafts[d] EXCEPT !.state = state]] /\ [drafts[d] EXCEPT !.state = state] \in Draft
    BY <1>1 DEF Draft
  <1>3. /\ drafts' \in Seq(Draft) /\ DOMAIN drafts' = DOMAIN drafts
        /\ \A e \in DOMAIN drafts : drafts'[e] = IF e = d THEN [drafts[d] EXCEPT !.state = state] ELSE drafts[e]
    BY <1>1, <1>2, Updated
  <1>4. \A e \in DOMAIN drafts :
          /\ drafts'[e].policy = drafts[e].policy /\ drafts'[e].by = drafts[e].by
          /\ drafts'[e].state = IF e = d THEN state ELSE drafts[e].state
    BY <1>1, <1>3 DEF Draft
  <1>5. \A e \in DOMAIN drafts : Reviewed(e) => Reviewed(e)'
    BY <1>4, ReviewedStays
  <1>6. \A e : Assistant!Deliveries(e)' = Assistant!Deliveries(e)
    BY DEF Assistant!Deliveries
  <1>7. AssistantRows'
    <2>1. \A e \in DOMAIN drafts : drafts'[e].state = "approved" \/ Assistant!Deliveries(e) # {} => Reviewed(e)
      BY <1>4 DEF AssistantInv, AssistantRows
    <2>2. \A e \in DOMAIN drafts : e \notin deliveredBeside =>
            /\ drafts'[e].state = "delivered" => Assistant!Deliveries(e) # {}
            /\ \A n, m \in Assistant!Deliveries(e) : n = m
      BY <1>4 DEF AssistantInv, AssistantRows
    <2>3. QED
      BY <1>3, <1>5, <1>6, <2>1, <2>2 DEF AssistantInv, AssistantRows
  <1>8. ASSUME NEW f, Assisting(f)
        PROVE  Assisting(f)'
    BY <1>3, <1>4, <1>8, AssistingStays
  <1>9. \A f \in {pc[e] : e \in Client \ {c}} : Assisting(f)'
    BY <1>8 DEF AssistantInv, Frames
  <1>10. Assisting(Assistant!Idle)'
    BY <1>8, IdleAssists
  <1>11. QED
    BY <1>7, <1>9, <1>10, AssistantGrows DEF Assistant!Idle

\* A free-form draft is inserted for review, any other as approved.
LEMMA DraftIsInserted ==
  ASSUME AssistantInv, NEW policy \in {"approved_template", "human_review"}, NEW by \in Person,
         Assistant!handleCreateDraft(policy, by)
  PROVE  AssistantInv'
  <1> DEFINE row == [policy |-> policy, by |-> by,
                     state |-> IF policy = "human_review" THEN "under_review" ELSE "approved"]
  <1>1. drafts' = Append(drafts, row) /\ UNCHANGED <<draftReviews, draftDeliveries, deliveredBeside, pc>>
    BY DEF Assistant!handleCreateDraft, Assistant!Draft, Assistant!InsertDraft, Assistant!Served
  <1>2. row \in Draft /\ row.state # "delivered" /\ (row.policy = "human_review" => row.state # "approved")
    BY DEF Draft
  <1> HIDE DEF row
  <1>3. drafts \in Seq(Draft) /\ draftDeliveries \in Seq(Delivery)
    BY DEF AssistantInv, AssistantRows
  <1>12. PICK new : new = Len(drafts) + 1
    OBVIOUS
  <1>4. /\ drafts' \in Seq(Draft) /\ new \notin DOMAIN drafts /\ DOMAIN drafts' = DOMAIN drafts \union {new}
        /\ \A d \in DOMAIN drafts : drafts'[d] = drafts[d]
        /\ drafts'[new] = row
    BY <1>1, <1>2, <1>3, <1>12, Inserted
  <1>5. \A d \in DOMAIN drafts : Reviewed(d) => Reviewed(d)'
    BY <1>1, <1>4, ReviewedStays
  <1>6. \A d : Assistant!Deliveries(d)' = Assistant!Deliveries(d)
    BY <1>1 DEF Assistant!Deliveries
  <1>7. Assistant!Deliveries(new) = {}
    BY <1>4 DEF Assistant!Deliveries, AssistantInv, AssistantRows
  <1>8. (drafts'[new].state = "approved" => Reviewed(new)') /\ drafts'[new].state # "delivered"
    BY <1>2, <1>4 DEF Reviewed
  <1>9. AssistantRows'
    <2>1. ASSUME NEW d \in DOMAIN drafts
          PROVE  /\ drafts'[d].state = "approved" \/ Assistant!Deliveries(d)' # {} => Reviewed(d)'
                 /\ d \notin deliveredBeside' =>
                      /\ drafts'[d].state = "delivered" => Assistant!Deliveries(d)' # {}
                      /\ \A n, m \in Assistant!Deliveries(d)' : n = m
      BY <1>1, <1>4, <1>5, <1>6 DEF AssistantInv, AssistantRows
    <2>2. /\ drafts'[new].state = "approved" \/ Assistant!Deliveries(new)' # {} => Reviewed(new)'
          /\ drafts'[new].state = "delivered" => Assistant!Deliveries(new)' # {}
          /\ \A n, m \in Assistant!Deliveries(new)' : n = m
      BY <1>6, <1>7, <1>8
    <2>3. \A d \in DOMAIN drafts' : d \in DOMAIN drafts \/ d = new
      BY <1>4
    <2>4. \A d \in DOMAIN drafts' :
            /\ drafts'[d].state = "approved" \/ Assistant!Deliveries(d)' # {} => Reviewed(d)'
            /\ d \notin deliveredBeside' =>
                 /\ drafts'[d].state = "delivered" => Assistant!Deliveries(d)' # {}
                 /\ \A n, m \in Assistant!Deliveries(d)' : n = m
      BY <2>1, <2>2, <2>3
    <2>5. \A n \in DOMAIN draftDeliveries : draftDeliveries[n].draft \in DOMAIN drafts'
      BY <1>4 DEF AssistantInv, AssistantRows
    <2>6. QED
      BY <1>1, <1>4, <2>4, <2>5 DEF AssistantInv, AssistantRows
  <1>10. ASSUME NEW f \in Frames'
         PROVE  Assisting(f)'
    <2>1. Assisting(f)
      BY <1>1 DEF AssistantInv, Frames
    <2>2. QED
      BY <1>1, <1>4, <2>1, AssistingStays
  <1>11. QED
    BY <1>1, <1>9, <1>10 DEF AssistantInv

\* A review is there before the draft is approved by it.
LEMMA ReviewIsInserted ==
  ASSUME AssistantInv, NEW c \in Client, Assistant!InsertReview(c)
  PROVE  AssistantInv'
  <1>1. PICK f : f = pc[c]
    OBVIOUS
  <1> DEFINE frame == [op |-> "reviewed", draft |-> f.draft, decision |-> f.decision]
             review == [draft |-> f.draft, by |-> f.by, decision |-> f.decision]
  <1>2. /\ f.op = "review" /\ draftReviews' = draftReviews \union {review} /\ pc' = [pc EXCEPT ![c] = frame]
        /\ UNCHANGED <<drafts, draftDeliveries, deliveredBeside>>
    BY <1>1 DEF Assistant!InsertReview, Assistant!Under, Assistant!Goes
  <1>3. Assisting(f)
    BY <1>1 DEF AssistantInv, Frames
  <1>4. /\ f.draft \in DOMAIN drafts /\ f.decision \in {"approved", "rejected"} /\ f.by # drafts[f.draft].by
        /\ review.draft = f.draft /\ review.by = f.by /\ review.decision = f.decision
        /\ frame.op = "reviewed" /\ frame.draft = f.draft /\ frame.decision = f.decision
    BY <1>2, <1>3 DEF Assisting
  <1> HIDE DEF frame, review
  <1>5. f.decision = "approved" => Reviewed(f.draft)'
    BY <1>2, <1>4 DEF Reviewed
  <1>6. Assisting(frame)'
    BY <1>2, <1>4, <1>5 DEF Assisting
  <1>7. \A d \in DOMAIN drafts : Reviewed(d) => Reviewed(d)'
    BY <1>2, ReviewedStays
  <1>8. \A d : Assistant!Deliveries(d)' = Assistant!Deliveries(d)
    BY <1>2 DEF Assistant!Deliveries
  <1>9. AssistantRows'
    BY <1>2, <1>7, <1>8 DEF AssistantInv, AssistantRows
  <1>10. \A g \in {pc[d] : d \in Client \ {c}} : Assisting(g)'
    <2> SUFFICES ASSUME NEW g \in {pc[d] : d \in Client \ {c}}
                 PROVE  Assisting(g)'
      OBVIOUS
    <2>1. Assisting(g)
      BY DEF AssistantInv, Frames
    <2>2. QED
      BY <1>2, <2>1, AssistingStays
  <1>11. QED
    BY <1>2, <1>6, <1>9, <1>10, AssistantGrows

\* A delivery is inserted, unless its key is in use: whoever looked before is told to be beside it.
LEMMA DeliveryIsInserted ==
  ASSUME AssistantInv, NEW c \in Client, Assistant!InsertDelivery(c)
  PROVE  AssistantInv'
  <1>1. PICK f : f = pc[c]
    OBVIOUS
  <1> DEFINE frame == [op |-> "delivered", draft |-> f.draft]
             row == [draft |-> f.draft, key |-> f.key]
             beside == {pc[d].draft : d \in Assistant!Beside(c)}
  <1>2. /\ f.op = "insert" /\ pc' = [pc EXCEPT ![c] = frame]
        /\ deliveredBeside' = deliveredBeside \union beside
        /\ UNCHANGED <<drafts, draftReviews>>
        /\ \/ UNCHANGED draftDeliveries /\ Assistant!DeliveriesUnder(f.key) # {}
           \/ draftDeliveries' = Append(draftDeliveries, row) /\ Assistant!DeliveriesUnder(f.key) = {}
    BY <1>1 DEF Assistant!InsertDelivery, Assistant!Under, Assistant!Goes
  <1>3. Assisting(f)
    BY <1>1 DEF AssistantInv, Frames
  <1>4. /\ f.draft \in DOMAIN drafts /\ f.key \in Key \union {None} /\ Reviewed(f.draft)
        /\ Assistant!DeliveriesUnder(f.key) # {} => f.draft \in deliveredBeside
        /\ Assistant!Deliveries(f.draft) # {} => f.draft \in deliveredBeside
    BY <1>2, <1>3 DEF Assisting
  <1>5. \A g \in {pc[d] : d \in Client \ {c}} :
          g.op \in {"deliver", "look", "insert"} /\ (g.draft = f.draft \/ (f.key # None /\ g.key = f.key)) =>
            g.draft \in deliveredBeside'
    BY <1>1, <1>2 DEF Assistant!Beside
  <1>6. frame.op = "delivered" /\ frame.draft = f.draft
    OBVIOUS
  <1>7. drafts \in Seq(Draft) /\ draftDeliveries \in Seq(Delivery) /\ DOMAIN drafts \subseteq Nat
    BY Rows DEF AssistantInv, AssistantRows
  <1>8. \A d : Reviewed(d) => Reviewed(d)'
    BY <1>2 DEF Reviewed
  <1>9. row \in Delivery /\ row.draft = f.draft /\ row.key = f.key
    BY <1>4, <1>7 DEF Delivery
  <1>10. deliveredBeside \subseteq deliveredBeside'
    BY <1>2
  <1> HIDE DEF frame, row, beside
  <1>11. CASE UNCHANGED draftDeliveries /\ Assistant!DeliveriesUnder(f.key) # {}
    <2>1. \A d : Assistant!Deliveries(d)' = Assistant!Deliveries(d)
      BY <1>11 DEF Assistant!Deliveries
    <2>2. Assisting(frame)'
      BY <1>2, <1>4, <1>6, <1>10, <1>11 DEF Assisting
    <2>3. AssistantRows'
      BY <1>2, <1>8, <1>10, <1>11, <2>1 DEF AssistantInv, AssistantRows
    <2>4. \A g \in {pc[d] : d \in Client \ {c}} : Assisting(g)'
      <3> SUFFICES ASSUME NEW g \in {pc[d] : d \in Client \ {c}}
                   PROVE  Assisting(g)'
        OBVIOUS
      <3>1. Assisting(g)
        BY DEF AssistantInv, Frames
      <3>2. QED
        BY <1>2, <1>10, <1>11, <3>1, AssistingStays
    <2>5. QED
      BY <1>2, <2>2, <2>3, <2>4, AssistantGrows
  <1>12. CASE draftDeliveries' = Append(draftDeliveries, row) /\ Assistant!DeliveriesUnder(f.key) = {}
    <2>0. PICK new : new = Len(draftDeliveries) + 1
      OBVIOUS
    <2>1. /\ draftDeliveries' \in Seq(Delivery) /\ new \notin DOMAIN draftDeliveries
          /\ DOMAIN draftDeliveries' = DOMAIN draftDeliveries \union {new}
          /\ \A n \in DOMAIN draftDeliveries : draftDeliveries'[n] = draftDeliveries[n]
          /\ draftDeliveries'[new] = row
      BY <1>7, <1>9, <1>12, <2>0, Inserted
    <2>2. \A d : Assistant!Deliveries(d)' = Assistant!Deliveries(d) \union (IF d = f.draft THEN {new} ELSE {})
      BY <1>9, <2>1 DEF Assistant!Deliveries
    <2>3. Assisting(frame)'
      BY <1>2, <1>4, <1>6, <2>2 DEF Assisting
    <2>4. \A n, m \in DOMAIN draftDeliveries' :
            n # m /\ draftDeliveries'[n].key # None => draftDeliveries'[n].key # draftDeliveries'[m].key
      <3>1. \A n \in DOMAIN draftDeliveries : f.key # None => draftDeliveries[n].key # f.key
        BY <1>12 DEF Assistant!DeliveriesUnder
      <3>2. \A n, m \in DOMAIN draftDeliveries :
              n # m /\ draftDeliveries[n].key # None => draftDeliveries[n].key # draftDeliveries[m].key
        BY DEF AssistantInv, AssistantRows
      <3>3. QED
        BY <1>9, <2>1, <3>1, <3>2
    <2>5. \A n \in DOMAIN draftDeliveries' : draftDeliveries'[n].draft \in DOMAIN drafts
      BY <1>4, <1>9, <2>1 DEF AssistantInv, AssistantRows
    <2>6. ASSUME NEW d \in DOMAIN drafts
          PROVE  /\ drafts[d].state = "approved" \/ Assistant!Deliveries(d)' # {} => Reviewed(d)
                 /\ d \notin deliveredBeside' =>
                      /\ drafts[d].state = "delivered" => Assistant!Deliveries(d)' # {}
                      /\ \A n, m \in Assistant!Deliveries(d)' : n = m
      <3>1. CASE d = f.draft
        BY <1>4, <1>10, <2>2, <3>1 DEF AssistantInv, AssistantRows
      <3>2. CASE d # f.draft
        BY <1>10, <2>2, <3>2 DEF AssistantInv, AssistantRows
      <3>3. QED
        BY <3>1, <3>2
    <2>7. AssistantRows'
      BY <1>2, <1>7, <1>8, <2>1, <2>4, <2>5, <2>6 DEF AssistantRows
    <2>8. \A g \in {pc[d] : d \in Client \ {c}} : Assisting(g)'
      <3> SUFFICES ASSUME NEW g \in {pc[d] : d \in Client \ {c}}
                   PROVE  Assisting(g)'
        OBVIOUS
      <3>1. Assisting(g)
        BY DEF AssistantInv, Frames
      <3>2. g.op \in {"deliver", "look", "insert"} =>
              \/ g.draft \in deliveredBeside'
              \/ \A n \in DOMAIN draftDeliveries' \ DOMAIN draftDeliveries :
                   draftDeliveries'[n].draft # g.draft /\ (g.key # None => draftDeliveries'[n].key # g.key)
        BY <1>5, <1>9, <2>1
      <3>3. QED
        BY <1>2, <1>10, <2>1, <3>1, <3>2, AssistingStays
    <2>9. QED
      BY <1>2, <2>3, <2>7, <2>8, AssistantGrows
  <1>13. QED
    BY <1>2, <1>11, <1>12

LEMMA AssistantSteps ==
  ASSUME AssistantInv, Assistant!Next
  PROVE  AssistantInv'
  <1> USE DEF Assistant!Begin, Assistant!Goes, Assistant!Done, Assistant!Under, Assistant!tables
  <1>1. ASSUME NEW c \in Client, NEW d \in DOMAIN drafts, NEW by \in Person, NEW decision \in {"approved", "rejected"},
               Assistant!handleReviewDraft(c, d, by, decision)
        PROVE  AssistantInv'
    <2> DEFINE frame == [op |-> "review", draft |-> d, by |-> by, decision |-> decision]
    <2>1. /\ pc' = [pc EXCEPT ![c] = frame] /\ drafts[d].by # by
          /\ UNCHANGED <<drafts, draftReviews, draftDeliveries, deliveredBeside>>
      BY <1>1 DEF Assistant!handleReviewDraft
    <2>2. Assisting(frame)
      BY <2>1 DEF Assisting
    <2> HIDE DEF frame
    <2>3. QED
      BY <2>1, <2>2, AssistantGoes
  <1>2. ASSUME NEW c \in Client, Assistant!Review(c)
        PROVE  AssistantInv'
    <2>1. PICK f : f = pc[c]
      OBVIOUS
    <2>2. /\ f.op = "reviewed" /\ drafts' = [drafts EXCEPT ![f.draft].state = f.decision]
          /\ pc' = [pc EXCEPT ![c] = Assistant!Idle]
          /\ UNCHANGED <<draftReviews, draftDeliveries, deliveredBeside>>
      BY <1>2, <2>1 DEF Assistant!Review, Assistant!UpdateDraftState
    <2>3. /\ f.draft \in DOMAIN drafts /\ f.decision \in {"approved", "rejected"}
          /\ f.decision = "approved" => Reviewed(f.draft)
      BY <2>1, <2>2 DEF AssistantInv, Frames, Assisting
    <2>4. QED
      BY <2>2, <2>3, DraftIsWritten
  <1>3. ASSUME NEW c \in Client, NEW d \in DOMAIN drafts, NEW key \in Key \union {None},
               Assistant!handleDeliverDraft(c, d, key)
        PROVE  AssistantInv'
    <2> DEFINE frame == [op |-> "deliver", draft |-> d, key |-> key]
    <2>1. /\ pc' = [pc EXCEPT ![c] = frame] /\ Assistant!DeliveriesUnder(key) = {}
          /\ UNCHANGED <<drafts, draftReviews, draftDeliveries, deliveredBeside>>
      BY <1>3 DEF Assistant!handleDeliverDraft
    <2>2. Assisting(frame)
      BY <2>1 DEF Assisting
    <2> HIDE DEF frame
    <2>3. QED
      BY <2>1, <2>2, AssistantGoes
  <1>4. ASSUME NEW c \in Client, Assistant!GetDraft(c)
        PROVE  AssistantInv'
    <2>1. PICK f : f = pc[c]
      OBVIOUS
    <2> DEFINE frame == [op |-> "look", draft |-> f.draft, key |-> f.key, state |-> drafts[f.draft].state]
    <2>2. /\ f.op = "deliver" /\ pc' = [pc EXCEPT ![c] = frame]
          /\ UNCHANGED <<drafts, draftReviews, draftDeliveries, deliveredBeside>>
      BY <1>4, <2>1 DEF Assistant!GetDraft
    <2>3. /\ f.draft \in DOMAIN drafts /\ f.key \in Key \union {None}
          /\ Assistant!DeliveriesUnder(f.key) # {} => f.draft \in deliveredBeside
      BY <2>1, <2>2 DEF AssistantInv, Frames, Assisting
    <2>4. drafts[f.draft].state = "approved" => Reviewed(f.draft)
      BY <2>3 DEF AssistantInv, AssistantRows
    <2>5. Assisting(frame)
      BY <2>3, <2>4 DEF Assisting
    <2> HIDE DEF frame
    <2>6. QED
      BY <2>2, <2>5, AssistantGoes
  <1>5. ASSUME NEW c \in Client, Assistant!GetDeliveryByDraft(c)
        PROVE  AssistantInv'
    <2>1. PICK f : f = pc[c]
      OBVIOUS
    <2> DEFINE frame == [op |-> "insert", draft |-> f.draft, key |-> f.key]
    <2>2. /\ f.op = "look"
          /\ \/ /\ pc' = [pc EXCEPT ![c] = frame] /\ f.state = "approved"
                /\ Assistant!Deliveries(f.draft) = {}
             \/ pc' = [pc EXCEPT ![c] = Assistant!Idle]
          /\ UNCHANGED <<drafts, draftReviews, draftDeliveries, deliveredBeside>>
      BY <1>5, <2>1 DEF Assistant!GetDeliveryByDraft, Assistant!Deliverable
    <2>3. /\ f.draft \in DOMAIN drafts /\ f.key \in Key \union {None}
          /\ Assistant!DeliveriesUnder(f.key) # {} => f.draft \in deliveredBeside
          /\ f.state = "approved" => Reviewed(f.draft)
      BY <2>1, <2>2 DEF AssistantInv, Frames, Assisting
    <2>4. CASE pc' = [pc EXCEPT ![c] = frame] /\ f.state = "approved" /\ Assistant!Deliveries(f.draft) = {}
      <3>1. Assisting(frame)
        BY <2>3, <2>4 DEF Assisting
      <3> HIDE DEF frame
      <3>2. QED
        BY <2>2, <2>4, <3>1, AssistantGoes
    <2>5. CASE pc' = [pc EXCEPT ![c] = Assistant!Idle]
      BY <2>2, <2>5, IdleAssists, AssistantGoes DEF Assistant!Idle
    <2>6. QED
      BY <2>2, <2>4, <2>5
  <1>6. ASSUME NEW c \in Client, Assistant!Deliver(c)
        PROVE  AssistantInv'
    <2>1. PICK f : f = pc[c]
      OBVIOUS
    <2>2. /\ f.op = "delivered" /\ drafts' = [drafts EXCEPT ![f.draft].state = "delivered"]
          /\ pc' = [pc EXCEPT ![c] = Assistant!Idle]
          /\ UNCHANGED <<draftReviews, draftDeliveries, deliveredBeside>>
      BY <1>6, <2>1 DEF Assistant!Deliver, Assistant!UpdateDraftState
    <2>3. f.draft \in DOMAIN drafts /\ (Assistant!Deliveries(f.draft) # {} \/ f.draft \in deliveredBeside)
      BY <2>1, <2>2 DEF AssistantInv, Frames, Assisting
    <2>4. QED
      BY <2>2, <2>3, DraftIsWritten
  <1>7. ASSUME NEW c \in Client, Assistant!Abandon(c)
        PROVE  AssistantInv'
    <2>1. pc' = [pc EXCEPT ![c] = Assistant!Idle] /\ UNCHANGED <<drafts, draftReviews, draftDeliveries, deliveredBeside>>
      BY <1>7 DEF Assistant!Abandon, Assistant!Dropped
    <2>2. QED
      BY <2>1, IdleAssists, AssistantGoes DEF Assistant!Idle
  <1>8. QED
    BY <1>1, <1>2, <1>3, <1>4, <1>5, <1>6, <1>7, DraftIsInserted, ReviewIsInserted, DeliveryIsInserted
    DEF Assistant!Next

\* A free-form draft that has a delivery was approved by another than its author, and one said to be delivered
\* has its one delivery unless another was under way beside it (hermes/service.go: ReviewDraft, DeliverDraft).
THEOREM DeliveredAsReviewedCorrect == Spec => []DeliveredAsReviewed
  <1> DEFINE Inv == part = "assistant" => AssistantInv
  <1>1. Init => Inv
    <2> SUFFICES ASSUME Init
                 PROVE  AssistantInv
      OBVIOUS
    <2>1. drafts = <<>> /\ draftDeliveries = <<>> /\ pc = [c \in Client |-> Assistant!Idle]
      BY DEF Init, Assistant!Init, Assistant!NoRequests
    <2>2. drafts \in Seq(Draft) /\ draftDeliveries \in Seq(Delivery) /\ DOMAIN drafts = {} /\ DOMAIN draftDeliveries = {}
      BY <2>1, Empty
    <2>3. \A f \in Frames : Assisting(f)
      BY <2>1, IdleAssists DEF Frames
    <2>4. QED
      BY <2>1, <2>2, <2>3 DEF AssistantInv, AssistantRows
  <1>2. Inv /\ [Next]_vars => Inv'
    <2> SUFFICES ASSUME Inv, [Next]_vars, part' = "assistant"
                 PROVE  AssistantInv'
      OBVIOUS
    <2>1. part = "assistant" /\ AssistantInv
      BY Stays
    <2>2. CASE UNCHANGED <<assistant, pc, requests>>
      <3>1. UNCHANGED <<drafts, draftReviews, draftDeliveries, deliveredBeside, pc>>
        BY <2>2 DEF assistant
      <3>2. QED
        BY <2>1, <3>1 DEF AssistantInv, AssistantRows, Frames, Assisting, Reviewed, Assistant!Deliveries,
          Assistant!DeliveriesUnder
    <2>3. QED
      BY <2>1, <2>2, AssistantSteps, Stays
  <1>3. Inv => DeliveredAsReviewed
    BY DEF DeliveredAsReviewed, Assistant!DeliveredAsReviewed, AssistantInv, AssistantRows, Reviewed, Assistant!Deliveries
  <1>4. QED
    BY <1>1, <1>2, <1>3, PTL DEF Spec
-----------------------------------------------------------------------------
(* Documents: what the confirmation of a packet gathers *)

\* The newest of the versions there were, unless two uploads took the same number.
Fresh(d, v, seen) ==
  /\ 1 .. seen \subseteq DOMAIN documentVersions
  /\ Filing!IsNewest(d, v, seen) \/ Filing!NumberedTwice(d)

\* The version looked for is the newest of those there were, unless two uploads took the same number.
Findable(d, number, seen) ==
  /\ 1 .. seen \subseteq DOMAIN documentVersions
  /\ \/ Filing!NumberedTwice(d)
     \/ \E v \in 1 .. seen :
          documentVersions[v].doc = d /\ documentVersions[v].number = number /\ Filing!IsNewest(d, v, seen)

Sound(ref) ==
  /\ Fresh(ref.doc, ref.version, ref.seen)
  /\ Filing!IsDoubtful(ref.fields) => \E review \in documentReviews : review.doc = ref.doc /\ review.status = "approved"

Gathers(f) == f.op \in {"gather", "find", "doubt", "approved"}
Confirming == {c \in Client : Gathers(pc[c])}

\* The documents of the packet, in turn: those gathered and those left.
Gathering(f) ==
  /\ Gathers(f) =>
       /\ packet # None
       /\ IsTable(f.refs) /\ f.left \in Seq(Doc)
       /\ Len(f.refs) + Len(f.left) = Len(packet.docs)
       /\ \A n \in DOMAIN f.refs : f.refs[n].doc = packet.docs[n] /\ Sound(f.refs[n])
       /\ \A n \in DOMAIN f.left : f.left[n] = packet.docs[Len(f.refs) + n]
  /\ f.op \in {"find", "doubt", "approved"} => f.left # <<>>
  /\ f.op = "find" => Findable(f.left[1], f.number, f.seen)
  /\ f.op = "doubt" => Fresh(f.left[1], f.version, f.seen)
  /\ f.op = "approved" => f.ref.doc = f.left[1] /\ Fresh(f.ref.doc, f.ref.version, f.ref.seen)
  /\ f.op = "version" => f.doc \in Doc /\ f.number \in Nat \ {0} /\ f.number <= current[f.doc]

Receipt(refs) ==
  /\ IsTable(refs) /\ Len(refs) = Len(packet.docs)
  /\ \A n \in DOMAIN refs : refs[n].doc = packet.docs[n] /\ Sound(refs[n])

\* The versions of a document have all the numbers it has counted, in their order.
Numbered(d) ==
  /\ \A n \in Nat \ {0} : n < current[d] =>
       \E v \in DOMAIN documentVersions : documentVersions[v].doc = d /\ documentVersions[v].number = n
  /\ \A v, w \in DOMAIN documentVersions :
       documentVersions[v].doc = d /\ documentVersions[w].doc = d /\ v < w =>
         documentVersions[v].number < documentVersions[w].number

VersionRows ==
  /\ current \in [Doc -> Nat]
  /\ IsTable(documentVersions)
  /\ \A v \in DOMAIN documentVersions :
       /\ documentVersions[v].doc \in Doc /\ documentVersions[v].number \in Nat \ {0}
       /\ documentVersions[v].number < current[documentVersions[v].doc]
  /\ \A d \in Doc : Numbered(d) \/ Filing!NumberedTwice(d)

FilingRows ==
  /\ packet = None \/ packet \in Packet
  /\ IsTable(receipts)
  /\ receipts # <<>> <=> packet # None /\ packet.status = "submitted"
  /\ \A r \in DOMAIN receipts : Receipt(receipts[r])

FilingInv ==
  /\ DOMAIN pc = Client
  /\ VersionRows /\ FilingRows
  /\ \A f \in Frames : Gathering(f)
  /\ Within(DOMAIN receipts, Confirming)

\* The documents of a packet stay, versions, their numbers and reviews become more.
FilingStays ==
  /\ packet # None => packet' # None /\ packet'.docs = packet.docs
  /\ Grows(documentVersions)
  /\ documentReviews \subseteq documentReviews'
  /\ \A d \in Doc : current[d] \in Nat /\ current'[d] \in Nat /\ current[d] <= current'[d]

LEMMA TwiceStays ==
  ASSUME Grows(documentVersions), NEW d, Filing!NumberedTwice(d)
  PROVE  Filing!NumberedTwice(d)'
  BY DEF Grows, Filing!NumberedTwice

LEMMA NewestStays ==
  ASSUME Grows(documentVersions), NEW d, NEW v, NEW seen, 1 .. seen \subseteq DOMAIN documentVersions,
         Filing!IsNewest(d, v, seen)
  PROVE  Filing!IsNewest(d, v, seen)'
  <1>1. \A w \in 1 .. seen : documentVersions'[w] = documentVersions[w]
    BY DEF Grows
  <1>2. QED
    BY <1>1 DEF Filing!IsNewest, Filing!NoVersion

LEMMA FreshStays ==
  ASSUME Grows(documentVersions), NEW d, NEW v, NEW seen, Fresh(d, v, seen)
  PROVE  Fresh(d, v, seen)'
  <1>1. 1 .. seen \subseteq DOMAIN documentVersions /\ 1 .. seen \subseteq DOMAIN documentVersions'
    BY DEF Fresh, Grows
  <1>2. Filing!IsNewest(d, v, seen)' \/ Filing!NumberedTwice(d)'
    BY <1>1, TwiceStays, NewestStays DEF Fresh
  <1>3. QED
    BY <1>1, <1>2 DEF Fresh

LEMMA FindableStays ==
  ASSUME Grows(documentVersions), NEW d, NEW number, NEW seen, Findable(d, number, seen)
  PROVE  Findable(d, number, seen)'
  <1>1. 1 .. seen \subseteq DOMAIN documentVersions /\ 1 .. seen \subseteq DOMAIN documentVersions'
    BY DEF Findable, Grows
  <1>2. CASE Filing!NumberedTwice(d)
    BY <1>1, <1>2, TwiceStays DEF Findable
  <1>3. CASE ~Filing!NumberedTwice(d)
    <2>1. PICK v \in 1 .. seen :
            documentVersions[v].doc = d /\ documentVersions[v].number = number /\ Filing!IsNewest(d, v, seen)
      BY <1>3 DEF Findable
    <2>2. documentVersions'[v] = documentVersions[v] /\ Filing!IsNewest(d, v, seen)'
      BY <1>1, <2>1, NewestStays DEF Grows
    <2>3. QED
      BY <1>1, <2>1, <2>2 DEF Findable
  <1>4. QED
    BY <1>2, <1>3

LEMMA SoundStays ==
  ASSUME FilingStays, NEW ref, Sound(ref)
  PROVE  Sound(ref)'
  <1>1. PICK d, v, seen : d = ref.doc /\ v = ref.version /\ seen = ref.seen
    OBVIOUS
  <1>2. Fresh(d, v, seen)'
    BY <1>1, FreshStays DEF Sound, FilingStays
  <1>3. QED
    BY <1>1, <1>2 DEF Sound, FilingStays, Filing!IsDoubtful

LEMMA GatheringStays ==
  ASSUME FilingStays, NEW f, Gathering(f)
  PROVE  Gathering(f)'
  <1>1. Gathers(f) => \A n \in DOMAIN f.refs : Sound(f.refs[n])'
    <2> SUFFICES ASSUME Gathers(f), NEW n \in DOMAIN f.refs
                 PROVE  Sound(f.refs[n])'
      OBVIOUS
    <2>1. Sound(f.refs[n])
      BY DEF Gathering
    <2>2. PICK ref : ref = f.refs[n]
      OBVIOUS
    <2>3. Sound(ref)'
      BY <2>1, <2>2, SoundStays
    <2>4. QED
      BY <2>2, <2>3
  <1>2. f.op = "find" => Findable(f.left[1], f.number, f.seen)'
    <2>1. PICK d, number, seen : d = f.left[1] /\ number = f.number /\ seen = f.seen
      OBVIOUS
    <2>2. f.op = "find" => Findable(d, number, seen)'
      BY <2>1, FindableStays DEF Gathering, FilingStays
    <2>3. QED
      BY <2>1, <2>2
  <1>3. f.op = "doubt" => Fresh(f.left[1], f.version, f.seen)'
    <2>1. PICK d, v, seen : d = f.left[1] /\ v = f.version /\ seen = f.seen
      OBVIOUS
    <2>2. f.op = "doubt" => Fresh(d, v, seen)'
      BY <2>1, FreshStays DEF Gathering, FilingStays
    <2>3. QED
      BY <2>1, <2>2
  <1>4. f.op = "approved" => Fresh(f.ref.doc, f.ref.version, f.ref.seen)'
    <2>1. PICK d, v, seen : d = f.ref.doc /\ v = f.ref.version /\ seen = f.ref.seen
      OBVIOUS
    <2>2. f.op = "approved" => Fresh(d, v, seen)'
      BY <2>1, FreshStays DEF Gathering, FilingStays
    <2>3. QED
      BY <2>1, <2>2
  <1>5. f.op = "version" => f.doc \in Doc /\ f.number \in Nat \ {0} /\ f.number <= current'[f.doc]
    BY DEF Gathering, FilingStays
  <1>6. QED
    BY <1>1, <1>2, <1>3, <1>4, <1>5 DEF Gathering, Gathers, FilingStays

LEMMA ReceiptStays ==
  ASSUME FilingStays, packet # None, NEW refs, Receipt(refs)
  PROVE  Receipt(refs)'
  <1>1. ASSUME NEW n \in DOMAIN refs
        PROVE  Sound(refs[n])'
    <2>1. PICK ref : ref = refs[n]
      OBVIOUS
    <2>2. Sound(ref)
      BY <2>1 DEF Receipt
    <2>3. Sound(ref)'
      BY <2>2, SoundStays
    <2>4. QED
      BY <2>1, <2>3
  <1>2. QED
    BY <1>1 DEF Receipt, FilingStays

\* One more of the documents left is gathered.
LEMMA GatheringGoes ==
  ASSUME FilingInv, NEW f \in Frames, Gathers(f), f.left # <<>>,
         NEW ref, ref.doc = f.left[1], Sound(ref)
  PROVE  Gathering(Filing!Gathered(f, ref))
  <1>1. /\ Gathering(f) /\ packet \in Packet
    BY DEF FilingInv, FilingRows, Gathering
  <1>2. PICK docs : docs = packet.docs /\ docs \in Seq(Doc)
    BY <1>1 DEF Packet
  <1>3. PICK left : left = f.left /\ left \in Seq(Doc) /\ left # <<>>
    BY <1>1 DEF Gathering
  <1>4. PICK refs : refs = f.refs /\ IsTable(refs)
    BY <1>1 DEF Gathering
  <1>5. /\ Len(refs) + Len(left) = Len(docs)
        /\ \A n \in DOMAIN refs : refs[n].doc = docs[n] /\ Sound(refs[n])
        /\ \A n \in DOMAIN left : left[n] = docs[Len(refs) + n]
    BY <1>1, <1>2, <1>3, <1>4 DEF Gathering
  <1>6. PICK rest : rest = Tail(left)
    OBVIOUS
  <1>7. PICK more : more = Append(refs, ref)
    OBVIOUS
  <1>8. /\ rest \in Seq(Doc) /\ Len(left) \in Nat \ {0} /\ Len(rest) = Len(left) - 1
        /\ DOMAIN left = 1 .. Len(left) /\ DOMAIN rest = 1 .. Len(rest)
        /\ \A n \in 1 .. Len(rest) : rest[n] = left[n + 1]
    BY <1>3, <1>6, HeadTailProperties, LenProperties, EmptySeq
  <1>9. /\ IsTable(more) /\ Len(refs) \in Nat /\ Len(more) = Len(refs) + 1
        /\ DOMAIN refs = 1 .. Len(refs) /\ DOMAIN more = DOMAIN refs \union {Len(refs) + 1}
        /\ \A n \in DOMAIN refs : more[n] = refs[n]
        /\ more[Len(refs) + 1] = ref
    BY <1>4, <1>7, TableInserted, TableRows
  <1>10. 1 \in DOMAIN left
    BY <1>8
  <1>11. ref.doc = docs[Len(refs) + 1]
    BY <1>3, <1>5, <1>10
  <1>12. \A n \in DOMAIN more : more[n].doc = docs[n] /\ Sound(more[n])
    BY <1>5, <1>9, <1>11
  <1>13. ASSUME NEW n \in DOMAIN rest
         PROVE  rest[n] = docs[Len(more) + n]
    <2>1. n \in Nat /\ n + 1 \in DOMAIN left /\ rest[n] = left[n + 1]
      BY <1>8
    <2>2. left[n + 1] = docs[Len(refs) + (n + 1)]
      BY <1>5, <2>1
    <2>3. Len(refs) + (n + 1) = Len(more) + n
      <3>1. \A a \in Nat, b \in Nat : b = a + 1 => a + (n + 1) = b + n
        BY <2>1
      <3>2. QED
        BY <1>9, <3>1
    <2>4. QED
      BY <2>1, <2>2, <2>3
  <1>14. Len(more) + Len(rest) = Len(docs)
    <2>1. PICK a, b, x, y : a = Len(refs) /\ b = Len(left) /\ x = Len(more) /\ y = Len(rest)
      OBVIOUS
    <2>2. a \in Nat /\ b \in Nat /\ x = a + 1 /\ y = b - 1
      BY <1>8, <1>9, <2>1
    <2>3. x + y = a + b
      BY <2>2
    <2>4. QED
      BY <1>5, <2>1, <2>3
  <1>15. PICK g : g = Filing!Gathered(f, ref)
    OBVIOUS
  <1>16. g.op = "gather" /\ g.left = rest /\ g.refs = more
    BY <1>3, <1>4, <1>6, <1>7, <1>15 DEF Filing!Gathered
  <1>17. Gathering(g)
    BY <1>1, <1>2, <1>8, <1>9, <1>12, <1>13, <1>14, <1>16 DEF Gathering, Gathers
  <1>18. QED
    BY <1>15, <1>17

\* A request goes on or ends, and the tables grow or stay.
LEMMA FilingGoes ==
  ASSUME FilingInv, NEW c \in Client, NEW frame, pc' = [pc EXCEPT ![c] = frame], Gathering(frame),
         FilingStays, VersionRows', FilingRows', Within(DOMAIN receipts, Confirming)'
  PROVE  FilingInv'
  <1>1. DOMAIN pc = Client
    BY DEF FilingInv
  <1>2. \A f \in Frames' : f = frame \/ f \in Frames
    BY <1>1 DEF Frames
  <1>3. ASSUME NEW f \in Frames'
        PROVE  Gathering(f)'
    <2>1. Gathering(f)
      BY <1>2 DEF FilingInv
    <2>2. QED
      BY <2>1, GatheringStays
  <1>4. DOMAIN pc' = Client
    BY <1>1
  <1>5. QED
    BY <1>3, <1>4 DEF FilingInv

\* No confirmation is begun, or none had been done.
LEMMA ConfirmingStays ==
  ASSUME FilingInv, NEW c \in Client, NEW frame, pc' = [pc EXCEPT ![c] = frame], UNCHANGED receipts,
         (Gathers(frame) => Gathers(pc[c])) \/ receipts = <<>>
  PROVE  Within(DOMAIN receipts, Confirming)'
  <1>1. DOMAIN pc = Client /\ Within(DOMAIN receipts, Confirming)
    BY DEF FilingInv
  <1>2. CASE receipts = <<>>
    <2>1. DOMAIN receipts' = {} /\ Confirming' \in SUBSET Client
      BY <1>2, EmptyTable DEF Confirming
    <2>2. Within({}, Confirming')
      BY <2>1, NoneDone
    <2>3. QED
      BY <2>1, <2>2 DEF Within
  <1>3. CASE Gathers(frame) => Gathers(pc[c])
    <2>1. \A d \in Client : pc'[d] = IF d = c THEN frame ELSE pc[d]
      BY <1>1
    <2>2. Confirming' \in SUBSET Confirming
      BY <1>3, <2>1 DEF Confirming, Gathers
    <2>3. Within(DOMAIN receipts, Confirming')
      BY <1>1, <2>2, Fewer
    <2>4. QED
      BY <2>3 DEF Within
  <1>4. QED
    BY <1>2, <1>3

LEMMA FilingServed ==
  ASSUME FilingInv, UNCHANGED <<pc, receipts>>, FilingStays, VersionRows', FilingRows'
  PROVE  FilingInv'
  <1>1. ASSUME NEW f \in Frames'
        PROVE  Gathering(f)'
    <2>1. Gathering(f)
      BY DEF FilingInv, Frames
    <2>2. QED
      BY <2>1, GatheringStays
  <1>2. Within(DOMAIN receipts, Confirming)'
    BY DEF FilingInv, Within, Confirming, Gathers
  <1>3. QED
    BY <1>1, <1>2 DEF FilingInv

\* The versions and reviews become more, the packet and its receipts stay.
LEMMA FilingRowsStay ==
  ASSUME FilingInv, FilingStays, UNCHANGED <<packet, receipts>>
  PROVE  FilingRows'
  <1>1. ASSUME NEW r \in DOMAIN receipts
        PROVE  Receipt(receipts[r])'
    <2>1. PICK refs : refs = receipts[r]
      OBVIOUS
    <2>2. Receipt(refs) /\ packet # None
      BY <2>1, EmptyTable DEF FilingInv, FilingRows
    <2>3. Receipt(refs)'
      BY <2>2, ReceiptStays
    <2>4. refs = receipts'[r]
      BY <2>1
    <2>5. QED
      BY <2>3, <2>4
  <1>2. QED
    BY <1>1 DEF FilingInv, FilingRows

LEMMA NumberedStays ==
  ASSUME VersionRows, UNCHANGED documentVersions, NEW d \in Doc, current'[d] = current[d] \/ {current[d], current'[d]} = {0, 1},
         Numbered(d) \/ Filing!NumberedTwice(d)
  PROVE  Numbered(d)' \/ Filing!NumberedTwice(d)'
  <1>1. CASE Filing!NumberedTwice(d)
    BY <1>1, TwiceStays DEF Grows
  <1>2. CASE Numbered(d)
    <2>1. \A n \in Nat \ {0} : n < current'[d] => n < current[d]
      BY DEF VersionRows
    <2>2. QED
      BY <1>2, <2>1 DEF Numbered
  <1>3. QED
    BY <1>1, <1>2

\* A document is created, or none.
LEMMA VersionRowsStay ==
  ASSUME FilingInv, UNCHANGED <<documentVersions, documentReviews, packet>>,
         \/ UNCHANGED current
         \/ \E d \in Doc : current[d] = 0 /\ current' = [current EXCEPT ![d] = 1]
  PROVE  VersionRows' /\ FilingStays
  <1>1. VersionRows
    BY DEF FilingInv
  <1>2. \A d \in Doc : /\ current[d] \in Nat /\ current'[d] \in Nat
                       /\ current'[d] = current[d] \/ (current[d] = 0 /\ current'[d] = 1)
    BY <1>1 DEF VersionRows
  <1>3. current' \in [Doc -> Nat]
    BY <1>1 DEF VersionRows
  <1>4. ASSUME NEW d \in Doc
        PROVE  Numbered(d)' \/ Filing!NumberedTwice(d)'
    BY <1>1, <1>2, NumberedStays DEF VersionRows
  <1>5. ASSUME NEW v \in DOMAIN documentVersions'
        PROVE  /\ documentVersions'[v].doc \in Doc /\ documentVersions'[v].number \in Nat \ {0}
               /\ documentVersions'[v].number < current'[documentVersions'[v].doc]
    BY <1>1, <1>2 DEF VersionRows
  <1>6. VersionRows'
    BY <1>1, <1>3, <1>4, <1>5 DEF VersionRows
  <1>7. FilingStays
    BY <1>2 DEF FilingStays, Grows
  <1>8. QED
    BY <1>6, <1>7

LEMMA FilingWaits ==
  ASSUME FilingInv, NEW c \in Client, NEW frame, pc' = [pc EXCEPT ![c] = frame], Gathering(frame),
         UNCHANGED <<current, documentVersions, documentReviews, packet, receipts>>,
         (Gathers(frame) => Gathers(pc[c])) \/ receipts = <<>>
  PROVE  FilingInv'
  <1>1. VersionRows' /\ FilingStays
    BY VersionRowsStay
  <1>2. FilingRows'
    BY <1>1, FilingRowsStay
  <1>3. Within(DOMAIN receipts, Confirming)'
    BY ConfirmingStays
  <1>4. QED
    BY <1>1, <1>2, <1>3, FilingGoes

LEMMA IdleGathers == Gathering(Filing!Idle) /\ ~Gathers(Filing!Idle)
  BY DEF Gathering, Gathers, Filing!Idle

\* A version is uploaded under the number that was read: the next one, or one that another upload has taken.
LEMMA VersionIsUploaded ==
  ASSUME FilingInv, NEW c \in Client, Filing!CreateVersion(c)
  PROVE  FilingInv'
  <1>1. PICK f \in Frames : f = pc[c]
    BY DEF Frames
  <1> DEFINE row == [doc |-> f.doc, number |-> f.number, hash |-> f.hash]
  <1>2. /\ f.op = "version" /\ documentVersions' = Append(documentVersions, row)
        /\ current' = [current EXCEPT ![f.doc] = @ + 1] /\ pc' = [pc EXCEPT ![c] = Filing!Idle]
        /\ UNCHANGED <<documentReviews, packet, receipts>>
    BY <1>1 DEF Filing!CreateVersion, Filing!InsertVersion, Filing!BumpDocumentVersion, Filing!Done, Filing!Goes, Filing!Under
  <1>3. row.doc = f.doc /\ row.number = f.number
    OBVIOUS
  <1> HIDE DEF row
  <1>4. PICK d, number : d = f.doc /\ number = f.number
    OBVIOUS
  <1>5. VersionRows /\ d \in Doc /\ number \in Nat \ {0} /\ number <= current[d]
    BY <1>2, <1>4 DEF FilingInv, Gathering
  <1>6. PICK k : k = current[d] /\ k \in Nat
    BY <1>5 DEF VersionRows
  <1>7. current' \in [Doc -> Nat] /\ current'[d] = k + 1 /\ \A e \in Doc \ {d} : current'[e] = current[e]
    BY <1>2, <1>4, <1>5, <1>6 DEF VersionRows
  <1>8. \A e \in Doc : current[e] \in Nat /\ current'[e] \in Nat /\ current[e] <= current'[e]
    BY <1>5, <1>6, <1>7 DEF VersionRows
  <1>9. PICK new : new = Len(documentVersions) + 1
    OBVIOUS
  <1>10. /\ IsTable(documentVersions') /\ DOMAIN documentVersions' = DOMAIN documentVersions \union {new}
         /\ \A v \in DOMAIN documentVersions : documentVersions'[v] = documentVersions[v]
         /\ documentVersions'[new] = row
    BY <1>2, <1>5, <1>9, TableInserted DEF VersionRows
  <1>11. new \in Nat /\ \A v \in DOMAIN documentVersions : v \in Nat /\ v < new
    <2>1. PICK n : n = Len(documentVersions) /\ n \in Nat /\ DOMAIN documentVersions = 1 .. n
      BY <1>5, TableRows DEF VersionRows
    <2>2. QED
      BY <1>9, <2>1
  <1>12. FilingStays
    BY <1>2, <1>8, <1>10 DEF FilingStays, Grows
  <1>13. ASSUME NEW v \in DOMAIN documentVersions'
         PROVE  /\ documentVersions'[v].doc \in Doc /\ documentVersions'[v].number \in Nat \ {0}
                /\ documentVersions'[v].number < current'[documentVersions'[v].doc]
    <2>1. CASE v = new
      BY <1>3, <1>4, <1>5, <1>6, <1>7, <1>10, <2>1
    <2>2. CASE v \in DOMAIN documentVersions
      <3>1. PICK e, n : e = documentVersions[v].doc /\ n = documentVersions[v].number
        OBVIOUS
      <3>2. e \in Doc /\ n \in Nat \ {0} /\ n < current[e]
        BY <1>5, <2>2, <3>1 DEF VersionRows
      <3>3. n < current'[e]
        BY <1>8, <3>2
      <3>4. QED
        BY <1>10, <2>2, <3>1, <3>2, <3>3
    <2>3. QED
      BY <1>10, <2>1, <2>2
  <1>14. ASSUME NEW e \in Doc
         PROVE  Numbered(e)' \/ Filing!NumberedTwice(e)'
    <2>1. CASE Filing!NumberedTwice(e)
      BY <1>12, <2>1, TwiceStays DEF FilingStays
    <2>2. CASE Numbered(e) /\ e # d
      BY <1>3, <1>4, <1>7, <1>10, <2>2 DEF Numbered
    <2>3. CASE Numbered(e) /\ e = d /\ number < k
      <3>1. PICK v \in DOMAIN documentVersions : documentVersions[v].doc = d /\ documentVersions[v].number = number
        BY <1>5, <1>6, <2>3 DEF Numbered
      <3>2. v # new /\ documentVersions'[v] = documentVersions[v] /\ v \in DOMAIN documentVersions'
        BY <1>10, <1>11, <3>1
      <3>3. documentVersions'[new].doc = d /\ documentVersions'[new].number = number /\ new \in DOMAIN documentVersions'
        BY <1>3, <1>4, <1>10
      <3>4. QED
        BY <2>3, <3>1, <3>2, <3>3 DEF Filing!NumberedTwice
    <2>4. CASE Numbered(e) /\ e = d /\ number = k
      <3>1. ASSUME NEW n \in Nat \ {0}, n < current'[d]
            PROVE  \E v \in DOMAIN documentVersions' : documentVersions'[v].doc = d /\ documentVersions'[v].number = n
        <4>1. CASE n = k
          BY <1>3, <1>4, <1>10, <2>4, <4>1
        <4>2. CASE n < k
          BY <1>6, <1>10, <2>4, <4>2 DEF Numbered
        <4>3. n = k \/ n < k
          BY <1>6, <1>7, <3>1
        <4>4. QED
          BY <4>1, <4>2, <4>3
      <3>2. ASSUME NEW v \in DOMAIN documentVersions', NEW w \in DOMAIN documentVersions',
                   documentVersions'[v].doc = d, documentVersions'[w].doc = d, v < w
            PROVE  documentVersions'[v].number < documentVersions'[w].number
        <4>1. v \in DOMAIN documentVersions
          BY <1>10, <1>11, <3>2
        <4>2. CASE w = new
          <5>1. documentVersions[v].number < current[d]
            BY <1>5, <1>10, <3>2, <4>1 DEF VersionRows
          <5>2. QED
            BY <1>3, <1>4, <1>6, <1>10, <2>4, <4>1, <4>2, <5>1
        <4>3. CASE w \in DOMAIN documentVersions
          BY <1>10, <2>4, <3>2, <4>1, <4>3 DEF Numbered
        <4>4. QED
          BY <1>10, <4>2, <4>3
      <3>3. QED
        BY <2>4, <3>1, <3>2 DEF Numbered
    <2>5. number < k \/ number = k
      BY <1>5, <1>6
    <2>6. QED
      BY <1>5, <2>1, <2>2, <2>3, <2>4, <2>5 DEF VersionRows
  <1>15. VersionRows'
    BY <1>7, <1>10, <1>13, <1>14 DEF VersionRows
  <1>16. FilingRows'
    BY <1>2, <1>12, FilingRowsStay
  <1>17. QED
    BY <1>2, <1>12, <1>15, <1>16, IdleGathers, ConfirmingStays, FilingGoes DEF Filing!Idle

\* The number a document has counted up to is the one of its newest version.
LEMMA NewestIsFindable ==
  ASSUME VersionRows, NEW d \in Doc, current[d] > 1
  PROVE  Findable(d, current[d] - 1, Len(documentVersions))
  <1>1. PICK k, seen : k = current[d] /\ seen = Len(documentVersions)
    OBVIOUS
  <1>2. k \in Nat /\ k > 1 /\ seen \in Nat /\ DOMAIN documentVersions = 1 .. seen
    BY <1>1, TableRows DEF VersionRows
  <1>3. CASE Filing!NumberedTwice(d)
    BY <1>1, <1>2, <1>3 DEF Findable
  <1>4. CASE Numbered(d)
    <2>1. k - 1 \in Nat \ {0} /\ k - 1 < k
      BY <1>2
    <2>2. PICK v \in DOMAIN documentVersions : documentVersions[v].doc = d /\ documentVersions[v].number = k - 1
      BY <1>1, <1>4, <2>1 DEF Numbered
    <2>3. ASSUME NEW w \in 1 .. seen, documentVersions[w].doc = d
          PROVE  w <= v
      <3>1. PICK n : n = documentVersions[w].number /\ n \in Nat /\ n < k
        BY <1>1, <1>2, <2>3 DEF VersionRows
      <3>2. v < w => k - 1 < n
        BY <1>2, <1>4, <2>2, <2>3, <3>1 DEF Numbered
      <3>3. QED
        BY <1>2, <3>1, <3>2
    <2>4. Filing!IsNewest(d, v, seen)
      BY <1>2, <2>2, <2>3 DEF Filing!IsNewest
    <2>5. QED
      BY <1>1, <1>2, <2>2, <2>4 DEF Findable
  <1>5. QED
    BY <1>3, <1>4 DEF VersionRows

\* A document that has counted nothing up has no version.
LEMMA NothingIsNewest ==
  ASSUME VersionRows, NEW d \in Doc, ~(current[d] > 1)
  PROVE  Fresh(d, Filing!NoVersion, Len(documentVersions))
  <1>1. PICK k, seen : k = current[d] /\ seen = Len(documentVersions)
    OBVIOUS
  <1>2. k \in Nat /\ k <= 1 /\ DOMAIN documentVersions = 1 .. seen
    BY <1>1, TableRows DEF VersionRows
  <1>3. ASSUME NEW w \in 1 .. seen
        PROVE  documentVersions[w].doc # d
    BY <1>1, <1>2 DEF VersionRows
  <1>4. QED
    BY <1>1, <1>2, <1>3 DEF Fresh, Filing!IsNewest

\* What is found under the number is the newest, and nothing is only if the number was taken twice.
LEMMA FoundIsNewest ==
  ASSUME NEW d, NEW number, NEW seen, Findable(d, number, seen)
  PROVE  /\ Filing!GetVersionByNumber(d, number) = {} => Fresh(d, Filing!NoVersion, seen)
         /\ \A v \in Filing!GetVersionByNumber(d, number) : Fresh(d, v, seen)
  <1>1. CASE Filing!NumberedTwice(d)
    BY <1>1 DEF Findable, Fresh
  <1>2. CASE ~Filing!NumberedTwice(d)
    <2>1. PICK v \in 1 .. seen :
            documentVersions[v].doc = d /\ documentVersions[v].number = number /\ Filing!IsNewest(d, v, seen)
      BY <1>2 DEF Findable
    <2>2. v \in DOMAIN documentVersions
      BY <2>1 DEF Findable
    <2>3. v \in Filing!GetVersionByNumber(d, number)
      BY <2>1, <2>2 DEF Filing!GetVersionByNumber
    <2>4. \A w \in Filing!GetVersionByNumber(d, number) : w = v
      BY <1>2, <2>1, <2>2 DEF Filing!GetVersionByNumber, Filing!NumberedTwice
    <2>5. QED
      BY <2>1, <2>3, <2>4 DEF Findable, Fresh
  <1>3. QED
    BY <1>1, <1>2

\* A packet is created once.
LEMMA PacketIsCreated ==
  ASSUME FilingInv, NEW docs \in Seq(Doc), Filing!handleCreateSubmissionPacket(docs)
  PROVE  FilingInv'
  <1>1. /\ packet = None /\ packet' = [docs |-> docs, status |-> "draft"]
        /\ UNCHANGED <<current, documentVersions, documentReviews, receipts, pc>>
    BY DEF Filing!handleCreateSubmissionPacket, Filing!CreateSubmissionPacket, Filing!Served
  <1>2. packet' \in Packet /\ packet' # None /\ packet'.status = "draft"
    BY <1>1, NoneIsNull DEF Packet
  <1>3. VersionRows' /\ FilingStays
    <2>1. UNCHANGED <<current, documentVersions>> /\ VersionRows
      BY <1>1 DEF FilingInv
    <2>2. VersionRows'
      BY <2>1 DEF VersionRows, Numbered, Filing!NumberedTwice
    <2>3. QED
      BY <1>1, <2>1, <2>2 DEF FilingStays, Grows, VersionRows
  <1>4. receipts = <<>> /\ DOMAIN receipts = {}
    BY <1>1, EmptyTable DEF FilingInv, FilingRows
  <1>5. FilingRows'
    BY <1>1, <1>2, <1>4 DEF FilingInv, FilingRows
  <1>6. QED
    BY <1>1, <1>3, <1>5, FilingServed

\* The receipt is of all the documents of the packet.
LEMMA PacketIsConfirmed ==
  ASSUME FilingInv, NEW c \in Client, Filing!ConfirmSubmission(c)
  PROVE  FilingInv'
  <1>1. PICK f : f = pc[c] /\ f \in Frames
    BY DEF Frames
  <1>2. PICK refs : refs = f.refs
    OBVIOUS
  <1>3. /\ f.op = "gather" /\ f.left = <<>>
        /\ packet' = [packet EXCEPT !.status = "submitted"]
        /\ receipts' = Append(receipts, refs)
        /\ pc' = [pc EXCEPT ![c] = Filing!Idle]
        /\ UNCHANGED <<current, documentVersions, documentReviews>>
    BY <1>1, <1>2 DEF Filing!ConfirmSubmission, Filing!UpdatePacketStatus, Filing!InsertReceipt, Filing!Done,
      Filing!Goes, Filing!Under
  <1>4. Gathering(f) /\ packet # None /\ packet \in Packet /\ IsTable(refs)
    BY <1>1, <1>2, <1>3 DEF FilingInv, FilingRows, Gathering, Gathers
  <1>5. packet' \in Packet /\ packet'.docs = packet.docs /\ packet'.status = "submitted"
    BY <1>3, <1>4 DEF Packet
  <1>6. packet' # None
    BY <1>5, NoneIsNull
  <1>7. VersionRows' /\ FilingStays
    <2>1. UNCHANGED <<current, documentVersions>> /\ VersionRows
      BY <1>3 DEF FilingInv
    <2>2. VersionRows'
      BY <2>1 DEF VersionRows, Numbered, Filing!NumberedTwice
    <2>3. QED
      BY <1>3, <1>5, <1>6, <2>1, <2>2 DEF FilingStays, Grows, VersionRows
  <1>8. Len(refs) = Len(packet.docs)
    <2>1. Len(f.left) = 0 /\ Len(refs) \in Nat
      BY <1>3, <1>4, EmptyTable, TableRows
    <2>2. Len(refs) + Len(f.left) = Len(packet.docs)
      BY <1>2, <1>3, <1>4 DEF Gathering, Gathers
    <2>3. QED
      BY <2>1, <2>2
  <1>9. Receipt(refs)
    BY <1>2, <1>3, <1>4, <1>8 DEF Gathering, Gathers, Receipt
  <1>10. PICK new : new = Len(receipts) + 1
    OBVIOUS
  <1>11. /\ IsTable(receipts') /\ DOMAIN receipts' = DOMAIN receipts \union {new}
         /\ \A r \in DOMAIN receipts : receipts'[r] = receipts[r]
         /\ receipts'[new] = refs
    BY <1>3, <1>10, TableInserted DEF FilingInv, FilingRows
  <1>12. receipts' # <<>>
    BY <1>11, EmptyTable
  <1>13. ASSUME NEW r \in DOMAIN receipts'
         PROVE  Receipt(receipts[r])'
    <2>1. PICK rows : rows = receipts'[r]
      OBVIOUS
    <2>2. Receipt(rows)
      BY <1>9, <1>11, <2>1 DEF FilingInv, FilingRows
    <2>3. Receipt(rows)'
      BY <1>4, <1>7, <2>2, ReceiptStays
    <2>4. QED
      BY <2>1, <2>3
  <1>14. FilingRows'
    <2>1. (\A r \in DOMAIN receipts : Receipt(receipts[r]))'
      BY <1>13
    <2>2. IsTable(receipts')
      BY <1>11
    <2>3. QED
      BY <1>5, <1>6, <1>12, <2>1, <2>2 DEF FilingRows
  <1>15. Within(DOMAIN receipts, Confirming)'
    <2>1. DOMAIN pc = Client /\ Within(DOMAIN receipts, Confirming)
      BY DEF FilingInv
    <2>2. c \in Confirming
      BY <1>1, <1>3 DEF Confirming, Gathers
    <2>3. \A d \in Client : pc'[d] = IF d = c THEN Filing!Idle ELSE pc[d]
      BY <1>3, <2>1
    <2>4. Confirming' \in SUBSET (Confirming \ {c})
      BY <2>3, IdleGathers DEF Confirming, Gathers
    <2>5. DOMAIN receipts' \in SUBSET (DOMAIN receipts \union {new})
      BY <1>11
    <2>6. Within(DOMAIN receipts', Confirming')
      BY <2>1, <2>2, <2>4, <2>5, OneDone
    <2>7. QED
      BY <2>6 DEF Within
  <1>16. QED
    BY <1>3, <1>7, <1>14, <1>15, IdleGathers, FilingGoes DEF Filing!Idle

LEMMA FilingSteps ==
  ASSUME FilingInv, Filing!Next
  PROVE  FilingInv'
  <1> USE DEF Filing!Served, Filing!Begin, Filing!Goes, Filing!Done, Filing!Under, Filing!tables
  <1>1. ASSUME \/ \E d \in Doc : Filing!handleCreateDocument(d)
               \/ \E v \in DOMAIN documentVersions, field \in Field : Filing!handleCreateExtraction(v, field)
        PROVE  FilingInv'
    <2>1. /\ UNCHANGED <<documentVersions, documentReviews, packet, receipts, pc>>
          /\ \/ UNCHANGED current
             \/ \E d \in Doc : current[d] = 0 /\ current' = [current EXCEPT ![d] = 1]
      BY <1>1 DEF Filing!handleCreateDocument, Filing!CreateDocument, Filing!InsertDocument, Filing!handleCreateExtraction,
        Filing!CreateExtraction
    <2>2. VersionRows' /\ FilingStays
      BY <2>1, VersionRowsStay
    <2>3. FilingRows'
      BY <2>1, <2>2, FilingRowsStay
    <2>4. QED
      BY <2>1, <2>2, <2>3, FilingServed
  <1>2. ASSUME NEW docs \in {<<d>> : d \in Doc} \union {<<d, e>> : d, e \in Doc}
        PROVE  docs \in Seq(Doc)
    <2>1. CASE \E d \in Doc : docs = <<d>>
      BY <2>1
    <2>2. CASE \E d, e \in Doc : docs = <<d, e>>
      BY <2>2
    <2>3. QED
      BY <1>2, <2>1, <2>2
  <1>3. ASSUME NEW c \in Client, NEW d \in Doc, NEW hash \in Hash, Filing!handleCreateDocumentVersion(c, d, hash)
        PROVE  FilingInv'
    <2> DEFINE frame == [op |-> "version", doc |-> d, number |-> current[d], hash |-> hash]
    <2>1. /\ current[d] > 0 /\ pc' = [pc EXCEPT ![c] = frame]
          /\ UNCHANGED <<current, documentVersions, documentReviews, packet, receipts>>
      BY <1>3 DEF Filing!handleCreateDocumentVersion
    <2>2. frame.op = "version" /\ frame.doc = d /\ frame.number = current[d]
      OBVIOUS
    <2>3. current[d] \in Nat
      BY DEF FilingInv, VersionRows
    <2> HIDE DEF frame
    <2>4. Gathering(frame) /\ ~Gathers(frame)
      BY <2>1, <2>2, <2>3 DEF Gathering, Gathers
    <2>5. QED
      BY <2>1, <2>4, FilingWaits
  <1>4. ASSUME NEW c \in Client, NEW d \in Doc, NEW status \in {"approved", "pending"},
               Filing!handleReviewDocument(c, d, status)
        PROVE  FilingInv'
    <2>1. PICK frame : /\ frame.op \in {"review", "reviewed"} /\ pc' = [pc EXCEPT ![c] = frame]
                       /\ UNCHANGED <<current, documentVersions, documentReviews, packet, receipts>>
      <3> DEFINE read == [op |-> "reviewed", doc |-> d, number |-> current[d] - 1, status |-> status]
                 none == [op |-> "review", doc |-> d, version |-> Filing!NoVersion, status |-> status]
      <3>1. read.op = "reviewed" /\ none.op = "review"
        OBVIOUS
      <3>2. pc' = [pc EXCEPT ![c] = read] \/ pc' = [pc EXCEPT ![c] = none]
        BY <1>4 DEF Filing!handleReviewDocument
      <3>3. UNCHANGED <<current, documentVersions, documentReviews, packet, receipts>>
        BY <1>4 DEF Filing!handleReviewDocument
      <3> HIDE DEF read, none
      <3>4. QED
        BY <3>1, <3>2, <3>3
    <2>2. Gathering(frame) /\ ~Gathers(frame)
      BY <2>1 DEF Gathering, Gathers
    <2>3. QED
      BY <2>1, <2>2, FilingWaits
  <1>5. ASSUME NEW c \in Client, Filing!FindReviewed(c)
         PROVE  FilingInv'
    <2>1. PICK v : /\ pc' = [pc EXCEPT ![c] = [op |-> "review", doc |-> pc[c].doc, version |-> v, status |-> pc[c].status]]
                   /\ UNCHANGED <<current, documentVersions, documentReviews, packet, receipts>>
      BY <1>5 DEF Filing!FindReviewed
    <2>2. PICK frame : frame = [op |-> "review", doc |-> pc[c].doc, version |-> v, status |-> pc[c].status]
      OBVIOUS
    <2>3. frame.op = "review" /\ pc' = [pc EXCEPT ![c] = frame]
      BY <2>1, <2>2
    <2>4. Gathering(frame) /\ ~Gathers(frame)
      BY <2>3 DEF Gathering, Gathers
    <2>5. QED
      BY <2>1, <2>3, <2>4, FilingWaits
  <1>6. ASSUME NEW c \in Client, Filing!ReviewDocument(c)
         PROVE  FilingInv'
    <2>1. /\ pc' = [pc EXCEPT ![c] = Filing!Idle] /\ UNCHANGED <<current, documentVersions, packet, receipts>>
          /\ documentReviews \subseteq documentReviews'
      BY <1>6 DEF Filing!ReviewDocument
    <2>2. VersionRows
      BY DEF FilingInv
    <2>3. VersionRows'
      BY <2>1, <2>2 DEF VersionRows, Numbered, Filing!NumberedTwice
    <2>4. FilingStays
      BY <2>1, <2>2 DEF FilingStays, Grows, VersionRows
    <2>5. FilingRows'
      BY <2>1, <2>4, FilingRowsStay
    <2>6. Within(DOMAIN receipts, Confirming)'
      BY <2>1, IdleGathers, ConfirmingStays DEF Filing!Idle
    <2>7. QED
      BY <2>1, <2>3, <2>4, <2>5, <2>6, IdleGathers, FilingGoes DEF Filing!Idle
  <1>7. ASSUME NEW c \in Client, Filing!handleConfirmSubmissionPacket(c)
        PROVE  FilingInv'
    <2> DEFINE frame == [op |-> "gather", left |-> packet.docs, refs |-> <<>>]
    <2>1. /\ packet # None /\ packet.status # "submitted" /\ pc' = [pc EXCEPT ![c] = frame]
          /\ UNCHANGED <<current, documentVersions, documentReviews, packet, receipts>>
      BY <1>7 DEF Filing!handleConfirmSubmissionPacket
    <2>2. packet.docs \in Seq(Doc) /\ receipts = <<>>
      BY <2>1 DEF FilingInv, FilingRows, Packet
    <2>3. PICK docs : docs = packet.docs /\ docs \in Seq(Doc) /\ Len(docs) \in Nat /\ DOMAIN docs = 1 .. Len(docs)
      BY <2>2, LenProperties
    <2>4. frame.op = "gather" /\ frame.left = docs /\ frame.refs = <<>>
      BY <2>3
    <2> HIDE DEF frame
    <2>5. Gathering(frame)
      BY <2>1, <2>3, <2>4, EmptyTable DEF Gathering
    <2>6. QED
      BY <2>1, <2>2, <2>5, FilingWaits
  <1>8. \A f : f.left # <<>> /\ f.left \in Seq(Doc) => Head(f.left) = f.left[1]
    BY HeadTailProperties
  <1>9. ASSUME NEW f \in Frames, Gathers(f)
         PROVE  Gathering(f) /\ f.left \in Seq(Doc) /\ (f.left # <<>> => f.left[1] \in Doc)
    <2>1. Gathering(f) /\ f.left \in Seq(Doc)
      BY <1>9 DEF FilingInv, Gathering
    <2>2. PICK left : left = f.left /\ left \in Seq(Doc)
      BY <2>1
    <2>3. left # <<>> => left[1] \in Doc
      <3>1. Len(left) \in Nat /\ DOMAIN left = 1 .. Len(left) /\ (left # <<>> => Len(left) # 0)
        BY <2>2, LenProperties, EmptySeq
      <3>2. left # <<>> => 1 \in DOMAIN left
        BY <3>1
      <3>3. QED
        BY <2>2, <3>2, ElementOfSeq
    <2>4. QED
      BY <2>1, <2>2, <2>3
  <1>10. ASSUME NEW d, NEW v, NEW seen, Fresh(d, v, seen)
         PROVE  Sound(Filing!Ref(d, v, seen, {})) /\ Filing!Ref(d, v, seen, {}).doc = d
    BY <1>10 DEF Sound, Filing!Ref, Filing!IsDoubtful
  <1>11. ASSUME NEW c \in Client, NEW f \in Frames, f = pc[c], Gathers(f), f.left # <<>>,
                NEW ref, Sound(ref), ref.doc = f.left[1], pc' = [pc EXCEPT ![c] = Filing!Gathered(f, ref)],
                UNCHANGED <<current, documentVersions, documentReviews, packet, receipts>>
         PROVE  FilingInv'
    <2>1. PICK gathered : gathered = Filing!Gathered(f, ref)
      OBVIOUS
    <2>2. Gathering(gathered) /\ pc' = [pc EXCEPT ![c] = gathered]
      BY <1>11, <2>1, GatheringGoes
    <2>3. QED
      BY <1>11, <2>2, FilingWaits
  <1>12. ASSUME NEW c \in Client, Filing!GetDocument(c)
         PROVE  FilingInv'
    <2>1. PICK f \in Frames : f = pc[c]
      BY DEF Frames
    <2>2. PICK d, k, seen : d = Head(f.left) /\ k = current[d] /\ seen = Len(documentVersions)
      OBVIOUS
    <2> DEFINE frame == [op |-> "find", left |-> f.left, refs |-> f.refs, number |-> k - 1, seen |-> seen]
    <2>3. /\ f.op = "gather" /\ f.left # <<>>
          /\ UNCHANGED <<current, documentVersions, documentReviews, packet, receipts>>
          /\ \/ k > 1 /\ pc' = [pc EXCEPT ![c] = frame]
             \/ ~(k > 1) /\ pc' = [pc EXCEPT ![c] = Filing!Gathered(f, Filing!Ref(d, Filing!NoVersion, seen, {}))]
      BY <1>12, <2>1, <2>2 DEF Filing!GetDocument
    <2>4. Gathers(f) /\ d = f.left[1] /\ d \in Doc /\ Gathering(f) /\ VersionRows
      BY <1>8, <1>9, <2>2, <2>3 DEF Gathers, FilingInv
    <2>5. CASE k > 1 /\ pc' = [pc EXCEPT ![c] = frame]
      <3>1. /\ frame.op = "find" /\ frame.left = f.left /\ frame.refs = f.refs
            /\ frame.number = k - 1 /\ frame.seen = seen
        OBVIOUS
      <3> HIDE DEF frame
      <3>2. Findable(d, k - 1, seen)
        BY <2>2, <2>4, <2>5, NewestIsFindable
      <3>3. Gathering(frame)
        BY <2>3, <2>4, <3>1, <3>2 DEF Gathering, Gathers
      <3>4. QED
        BY <2>1, <2>3, <2>4, <2>5, <3>3, FilingWaits
    <2>6. CASE ~(k > 1) /\ pc' = [pc EXCEPT ![c] = Filing!Gathered(f, Filing!Ref(d, Filing!NoVersion, seen, {}))]
      <3>1. Fresh(d, Filing!NoVersion, seen)
        BY <2>2, <2>4, <2>6, NothingIsNewest
      <3>2. PICK ref : ref = Filing!Ref(d, Filing!NoVersion, seen, {})
        OBVIOUS
      <3>3. Sound(ref) /\ ref.doc = f.left[1] /\ pc' = [pc EXCEPT ![c] = Filing!Gathered(f, ref)]
        BY <1>10, <2>4, <2>6, <3>1, <3>2
      <3>4. QED
        BY <1>11, <2>1, <2>3, <2>4, <3>3
    <2>7. QED
      BY <2>3, <2>5, <2>6
  <1>13. ASSUME NEW c \in Client, Filing!FindVersion(c)
         PROVE  FilingInv'
    <2>1. PICK f \in Frames : f = pc[c]
      BY DEF Frames
    <2>2. PICK d, number, seen : d = Head(f.left) /\ number = f.number /\ seen = f.seen
      OBVIOUS
    <2>3. /\ f.op = "find"
          /\ UNCHANGED <<current, documentVersions, documentReviews, packet, receipts>>
          /\ \/ /\ Filing!GetVersionByNumber(d, number) = {}
                /\ pc' = [pc EXCEPT ![c] = Filing!Gathered(f, Filing!Ref(d, Filing!NoVersion, seen, {}))]
             \/ \E v \in Filing!GetVersionByNumber(d, number) :
                  pc' = [pc EXCEPT ![c] = [op |-> "doubt", left |-> f.left, refs |-> f.refs, version |-> v, seen |-> seen]]
      BY <1>13, <2>1, <2>2 DEF Filing!FindVersion
    <2>4. Gathers(f) /\ f.left # <<>> /\ Gathering(f) /\ d = f.left[1]
      BY <1>8, <1>9, <2>2, <2>3 DEF Gathering, Gathers
    <2>5. Findable(d, number, seen)
      BY <2>2, <2>3, <2>4 DEF Gathering
    <2>6. CASE /\ Filing!GetVersionByNumber(d, number) = {}
               /\ pc' = [pc EXCEPT ![c] = Filing!Gathered(f, Filing!Ref(d, Filing!NoVersion, seen, {}))]
      <3>1. Fresh(d, Filing!NoVersion, seen)
        BY <2>5, <2>6, FoundIsNewest
      <3>2. PICK ref : ref = Filing!Ref(d, Filing!NoVersion, seen, {})
        OBVIOUS
      <3>3. Sound(ref) /\ ref.doc = f.left[1] /\ pc' = [pc EXCEPT ![c] = Filing!Gathered(f, ref)]
        BY <1>10, <2>4, <2>6, <3>1, <3>2
      <3>4. QED
        BY <1>11, <2>1, <2>3, <2>4, <3>3
    <2>7. ASSUME NEW v \in Filing!GetVersionByNumber(d, number),
                 pc' = [pc EXCEPT ![c] = [op |-> "doubt", left |-> f.left, refs |-> f.refs, version |-> v, seen |-> seen]]
          PROVE  FilingInv'
      <3> DEFINE frame == [op |-> "doubt", left |-> f.left, refs |-> f.refs, version |-> v, seen |-> seen]
      <3>1. /\ frame.op = "doubt" /\ frame.left = f.left /\ frame.refs = f.refs /\ frame.version = v
            /\ frame.seen = seen
        OBVIOUS
      <3>2. Fresh(d, v, seen)
        BY <2>5, FoundIsNewest
      <3>3. pc' = [pc EXCEPT ![c] = frame]
        BY <2>7
      <3> HIDE DEF frame
      <3>4. Gathering(frame)
        BY <2>3, <2>4, <3>1, <3>2 DEF Gathering, Gathers
      <3>5. QED
        BY <2>1, <2>3, <2>4, <3>3, <3>4, FilingWaits
    <2>8. QED
      BY <2>3, <2>6, <2>7
  <1>14. ASSUME NEW c \in Client, Filing!CheckExtractions(c)
         PROVE  FilingInv'
    <2>1. PICK f \in Frames : f = pc[c]
      BY DEF Frames
    <2>2. PICK ref : ref = Filing!Ref(Head(f.left), f.version, f.seen, Filing!ExtractionsOf(f.version))
      OBVIOUS
    <2> DEFINE frame == [op |-> "approved", left |-> f.left, refs |-> f.refs, ref |-> ref]
    <2>3. /\ f.op = "doubt"
          /\ UNCHANGED <<current, documentVersions, documentReviews, packet, receipts>>
          /\ \/ pc' = [pc EXCEPT ![c] = frame]
             \/ /\ pc' = [pc EXCEPT ![c] = Filing!Gathered(f, ref)]
                /\ ~Filing!HasLowConfidenceOrLegalExtractions(f.version)
      BY <1>14, <2>1, <2>2 DEF Filing!CheckExtractions
    <2>4. Gathers(f) /\ f.left # <<>> /\ Gathering(f) /\ Head(f.left) = f.left[1]
      BY <1>8, <1>9, <2>3 DEF Gathering, Gathers
    <2>5. /\ ref.doc = f.left[1] /\ ref.fields = Filing!ExtractionsOf(f.version)
          /\ Fresh(ref.doc, ref.version, ref.seen)
      BY <2>2, <2>3, <2>4 DEF Filing!Ref, Gathering
    <2>6. CASE pc' = [pc EXCEPT ![c] = frame]
      <3>1. frame.op = "approved" /\ frame.left = f.left /\ frame.refs = f.refs /\ frame.ref = ref
        OBVIOUS
      <3> HIDE DEF frame
      <3>2. Gathering(frame)
        BY <2>3, <2>4, <2>5, <3>1 DEF Gathering, Gathers
      <3>3. QED
        BY <2>1, <2>3, <2>4, <2>6, <3>2, FilingWaits
    <2>7. CASE pc' = [pc EXCEPT ![c] = Filing!Gathered(f, ref)] /\ ~Filing!HasLowConfidenceOrLegalExtractions(f.version)
      <3>1. Sound(ref)
        BY <2>5, <2>7 DEF Sound, Filing!HasLowConfidenceOrLegalExtractions, Filing!IsDoubtful
      <3>2. QED
        BY <1>11, <2>1, <2>3, <2>4, <2>5, <2>7, <3>1
    <2>8. QED
      BY <2>3, <2>6, <2>7
  <1>15. ASSUME NEW c \in Client, Filing!ListReviews(c)
         PROVE  FilingInv'
    <2>1. PICK f \in Frames : f = pc[c]
      BY DEF Frames
    <2>2. /\ f.op = "approved" /\ pc' = [pc EXCEPT ![c] = Filing!Gathered(f, f.ref)]
          /\ \E review \in documentReviews : review.doc = Head(f.left) /\ review.status = "approved"
          /\ UNCHANGED <<current, documentVersions, documentReviews, packet, receipts>>
      BY <1>15, <2>1 DEF Filing!ListReviews
    <2>3. Gathers(f) /\ f.left # <<>> /\ Gathering(f) /\ Head(f.left) = f.left[1]
      BY <1>8, <1>9, <2>2 DEF Gathering, Gathers
    <2>4. f.ref.doc = f.left[1] /\ Sound(f.ref)
      BY <2>2, <2>3 DEF Gathering, Sound
    <2>5. PICK ref : ref = f.ref
      OBVIOUS
    <2>6. QED
      BY <1>11, <2>1, <2>2, <2>3, <2>4, <2>5
  <1>16. ASSUME NEW c \in Client, Filing!Abandon(c)
         PROVE  FilingInv'
    <2>1. pc' = [pc EXCEPT ![c] = Filing!Idle] /\ UNCHANGED <<current, documentVersions, documentReviews, packet, receipts>>
      BY <1>16 DEF Filing!Abandon, Filing!Dropped
    <2>2. QED
      BY <2>1, IdleGathers, FilingWaits DEF Filing!Idle
  <1>17. QED
    BY <1>1, <1>2, <1>3, <1>4, <1>7, <1>12, <1>13, <1>14, <1>15, <1>16, <1>5, <1>6, VersionIsUploaded,
      PacketIsCreated, PacketIsConfirmed
    DEF Filing!Next

LEMMA SameSize == \A S : Filing!Cardinality(S) = Cardinality(S)
  BY DEF Filing!Cardinality, Cardinality

\* A packet is submitted exactly when it has a receipt, and has no more of them than confirmations were under way;
\* each names the newest version there was of every document in turn, unless two uploads had taken the same number,
\* and if what had been extracted from it was doubtful some review of the document has been approved
\* (documents/service.go: ConfirmSubmission).
THEOREM SubmittedAsReviewedCorrect == Spec => []SubmittedAsReviewed
  <1> DEFINE Inv == part = "filing" => FilingInv
  <1>1. Init => Inv
    <2> SUFFICES ASSUME Init
                 PROVE  FilingInv
      OBVIOUS
    <2>1. /\ documentVersions = <<>> /\ packet = None /\ receipts = <<>> /\ pc = [c \in Client |-> Filing!Idle]
          /\ current = [d \in Doc |-> 0]
      BY DEF Init, Filing!Init, Filing!NoRequests
    <2>2. \A f \in Frames : Gathering(f)
      BY <2>1, IdleGathers DEF Frames
    <2>3. VersionRows /\ FilingRows
      BY <2>1, EmptyTable DEF VersionRows, FilingRows, Numbered
    <2>4. DOMAIN receipts = {} /\ Confirming \in SUBSET Client
      BY <2>1, EmptyTable DEF Confirming
    <2>5. Within(DOMAIN receipts, Confirming)
      BY <2>4, NoneDone
    <2>6. QED
      BY <2>1, <2>2, <2>3, <2>5 DEF FilingInv
  <1>2. Inv /\ [Next]_vars => Inv'
    <2> SUFFICES ASSUME Inv, [Next]_vars, part' = "filing"
                 PROVE  FilingInv'
      OBVIOUS
    <2>1. part = "filing" /\ FilingInv
      BY Stays
    <2>2. CASE UNCHANGED <<filing, pc, requests>>
      <3>1. UNCHANGED <<current, documentVersions, documentReviews, packet, receipts, pc>>
        BY <2>2 DEF filing
      <3>2. VersionRows' /\ FilingStays
        BY <2>1, <3>1, VersionRowsStay
      <3>3. FilingRows'
        BY <2>1, <3>1, <3>2, FilingRowsStay
      <3>4. QED
        BY <2>1, <3>1, <3>2, <3>3, FilingServed
    <2>3. QED
      BY <2>1, <2>2, FilingSteps, Stays
  <1>3. Inv => SubmittedAsReviewed
    <2> SUFFICES ASSUME FilingInv
                 PROVE  Filing!SubmittedAsReviewed
      BY DEF SubmittedAsReviewed
    <2>1. ASSUME NEW r \in DOMAIN receipts
          PROVE  /\ [n \in DOMAIN receipts[r] |-> receipts[r][n].doc] = packet.docs
                 /\ \A n \in DOMAIN receipts[r] : Sound(receipts[r][n])
      <3>1. Receipt(receipts[r]) /\ packet \in Packet
        BY EmptyTable DEF FilingInv, FilingRows
      <3>2. packet.docs \in Seq(Doc)
        BY <3>1 DEF Packet
      <3>3. PICK docs, refs : docs = packet.docs /\ refs = receipts[r] /\ docs \in Seq(Doc)
        BY <3>2
      <3>4. /\ IsTable(refs) /\ Len(refs) = Len(docs)
            /\ \A n \in DOMAIN refs : refs[n].doc = docs[n] /\ Sound(refs[n])
        BY <3>1, <3>3 DEF Receipt
      <3>5. DOMAIN refs = DOMAIN docs /\ docs = [n \in DOMAIN docs |-> docs[n]]
        BY <3>3, <3>4, TableRows, LenProperties
      <3>6. [n \in DOMAIN refs |-> refs[n].doc] = docs
        BY <3>4, <3>5
      <3>7. QED
        BY <3>3, <3>4, <3>6
    <2>2. Len(receipts) <= Filing!Cardinality(Client)
      <3>1. PICK n : n = Len(receipts) /\ n \in Nat /\ DOMAIN receipts = 1 .. n
        BY TableRows DEF FilingInv, FilingRows
      <3>2. Cardinality(1 .. n) = n
        <4>1. 1 \in Int /\ n \in Int
          BY <3>1
        <4>2. Cardinality(1 .. n) = IF 1 > n THEN 0 ELSE n - 1 + 1
          BY <4>1, FS_Interval
        <4>3. QED
          BY <3>1, <4>2
      <3>3. PICK x, z : x = Cardinality(Confirming) /\ z = Cardinality(Client)
        OBVIOUS
      <3>4. IsFiniteSet(Confirming) /\ n + x <= z
        BY <3>1, <3>2, <3>3 DEF FilingInv, Within
      <3>5. x \in Nat /\ z \in Nat
        BY <3>3, <3>4, ServerIsFinite, FS_CardinalityType
      <3>6. n <= z
        BY <3>1, <3>4, <3>5
      <3>7. QED
        BY <3>1, <3>3, <3>6, SameSize
    <2>3. QED
      BY <2>1, <2>2 DEF Filing!SubmittedAsReviewed, FilingInv, FilingRows, Sound, Fresh
  <1>4. QED
    BY <1>1, <1>2, <1>3, PTL DEF Spec
-----------------------------------------------------------------------------
(* Workers: reviews of adverse actions, certifications and assignments *)

\* What is known of a certification: its status is of a day that has come, and what was valid had not expired then.
Judged(cert) ==
  /\ cert.judged \in Nat /\ cert.judged <= day
  /\ cert.status = "valid" => cert.judged <= cert.until

\* The worker was active in that version of his row, whatever reviews made of him since.
Active(version) ==
  /\ version \in Nat \ {0} /\ version <= worker.version
  /\ Workers!StatusAt(version) = "active"

\* A specialist, or one with a certification that was valid on the day it was recorded.
Certified(type, checked) ==
  \/ worker.specialist = TRUE
  \/ \E cert \in certifications : cert.type = type /\ cert.judged <= cert.until /\ cert.judged <= checked

\* Who may do the work: an adult whom reviews had left active, certified for restricted work.
Eligible(a) ==
  /\ worker.adult = TRUE
  /\ Active(a.version)
  /\ a.type \in Restricted => Certified(a.type, a.checked)

\* What a request relies on of the worker it has read.
Working(f) ==
  /\ f.op = "certify" => Judged(f.cert)
  /\ f.op \in {"certified", "assign"} => worker # None /\ worker.adult = TRUE /\ Active(f.version)
  /\ f.op = "assign" => Eligible(f)

WorkersRows ==
  /\ worker = None \/ worker \in Worker
  /\ IsTable(adverseReviews)
  /\ day \in Nat
  /\ worker = None => adverseReviews = <<>> /\ assignments = {}
  /\ worker # None =>
       /\ worker.version = Len(adverseReviews) + 1
       /\ \A n \in DOMAIN adverseReviews : adverseReviews[n].version = n
       /\ IF adverseReviews = <<>> THEN worker.status = worker.created
          ELSE worker.status = Workers!AdverseStatus[adverseReviews[Len(adverseReviews)].action]
  /\ \A cert \in certifications : Judged(cert)
  /\ \A a \in assignments : Eligible(a)

WorkersInv == DOMAIN pc = Client /\ WorkersRows /\ \A f \in Frames : Working(f)

\* A worker stays who he is, and reviews, certifications and days become more.
WorkerStays ==
  /\ worker # None =>
       /\ worker' # None /\ worker' \in Worker /\ worker'.version >= worker.version
       /\ worker'.created = worker.created /\ worker'.adult = worker.adult /\ worker'.specialist = worker.specialist
  /\ Grows(adverseReviews)
  /\ certifications \subseteq certifications'
  /\ day \in Nat /\ day' \in Nat /\ day <= day'

\* Later reviews do not change what a version of the row said.
LEMMA ActiveStays ==
  ASSUME WorkersRows, WorkerStays, worker # None, NEW version, Active(version)
  PROVE  Active(version)'
  <1>1. worker \in Worker /\ worker' \in Worker /\ worker.version \in Nat /\ worker'.version \in Nat
    BY DEF WorkersRows, WorkerStays, Worker
  <1>2. version \in Nat \ {0} /\ version <= worker'.version
    BY <1>1 DEF Active, WorkerStays
  <1>3. version # 1 => version - 1 \in DOMAIN adverseReviews
    <2>1. PICK n : n = Len(adverseReviews) /\ n \in Nat /\ DOMAIN adverseReviews = 1 .. n
      BY TableRows DEF WorkersRows
    <2>2. version <= n + 1
      BY <1>1, <2>1 DEF WorkersRows, Active
    <2>3. QED
      BY <1>2, <2>1, <2>2
  <1>4. version # 1 => adverseReviews'[version - 1] = adverseReviews[version - 1]
    BY <1>3 DEF WorkerStays, Grows
  <1>5. Workers!StatusAt(version)' = Workers!StatusAt(version)
    BY <1>4 DEF Workers!StatusAt, Workers!AdverseStatus, WorkerStays
  <1>6. QED
    BY <1>2, <1>5 DEF Active

LEMMA CertifiedStays ==
  ASSUME WorkerStays, worker # None, NEW type, NEW checked, Certified(type, checked)
  PROVE  Certified(type, checked)'
  BY DEF WorkerStays, Certified

LEMMA EligibleStays ==
  ASSUME WorkersRows, WorkerStays, worker # None, NEW a, Eligible(a)
  PROVE  Eligible(a)'
  <1>1. PICK version, type, checked : version = a.version /\ type = a.type /\ checked = a.checked
    OBVIOUS
  <1>2. Active(version) /\ (type \in Restricted => Certified(type, checked))
    BY <1>1 DEF Eligible
  <1>3. Active(version)'
    BY <1>2, ActiveStays
  <1>4. type \in Restricted => Certified(type, checked)'
    BY <1>2, CertifiedStays
  <1>5. QED
    BY <1>1, <1>3, <1>4 DEF Eligible, WorkerStays

LEMMA JudgedStays ==
  ASSUME WorkerStays, NEW cert, Judged(cert)
  PROVE  Judged(cert)'
  BY DEF Judged, WorkerStays

LEMMA WorkingStays ==
  ASSUME WorkersRows, WorkerStays, NEW f, Working(f)
  PROVE  Working(f)'
  <1>1. f.op = "assign" => Eligible(f)'
    BY EligibleStays DEF Working
  <1>2. f.op \in {"certified", "assign"} => worker' # None /\ worker'.adult = TRUE /\ Active(f.version)'
    <2>1. PICK version : version = f.version
      OBVIOUS
    <2>2. f.op \in {"certified", "assign"} => Active(version)'
      BY <2>1, ActiveStays DEF Working
    <2>3. QED
      BY <2>1, <2>2 DEF Working, WorkerStays
  <1>3. f.op = "certify" => Judged(f.cert)'
    <2>1. PICK cert : cert = f.cert
      OBVIOUS
    <2>2. f.op = "certify" => Judged(cert)'
      BY <2>1, JudgedStays DEF Working
    <2>3. QED
      BY <2>1, <2>2
  <1>4. QED
    BY <1>1, <1>2, <1>3 DEF Working

LEMMA WorkersServed ==
  ASSUME WorkersInv, UNCHANGED pc, WorkerStays, WorkersRows'
  PROVE  WorkersInv'
  <1>1. ASSUME NEW f \in Frames'
        PROVE  Working(f)'
    <2>1. Working(f) /\ WorkersRows
      BY DEF WorkersInv, Frames
    <2>2. QED
      BY <2>1, WorkingStays
  <1>2. QED
    BY <1>1 DEF WorkersInv

LEMMA WorkersGo ==
  ASSUME WorkersInv, NEW c \in Client, NEW frame, pc' = [pc EXCEPT ![c] = frame], Working(frame),
         WorkerStays, WorkersRows'
  PROVE  WorkersInv'
  <1>1. DOMAIN pc = Client /\ WorkersRows
    BY DEF WorkersInv
  <1>2. \A f \in Frames' : f = frame \/ f \in Frames
    BY <1>1 DEF Frames
  <1>3. ASSUME NEW f \in Frames'
        PROVE  Working(f)'
    <2>1. Working(f)
      BY <1>2 DEF WorkersInv
    <2>2. QED
      BY <1>1, <2>1, WorkingStays
  <1>4. DOMAIN pc' = Client
    BY <1>1
  <1>5. QED
    BY <1>3, <1>4 DEF WorkersInv

\* Nothing changes that the invariant is about, but it may become later, and a certification be recorded.
LEMMA WorkersRowsStay ==
  ASSUME WorkersInv, UNCHANGED <<worker, adverseReviews, assignments>>, day' \in Nat, day <= day',
         certifications \subseteq certifications', \A cert \in certifications' \ certifications : Judged(cert)
  PROVE  WorkersRows' /\ WorkerStays
  <1>1. WorkersRows
    BY DEF WorkersInv
  <1>2. WorkerStays
    BY <1>1 DEF WorkersRows, WorkerStays, Grows, Worker
  <1>3. ASSUME NEW cert \in certifications'
        PROVE  Judged(cert)'
    <2>1. Judged(cert)
      BY <1>1 DEF WorkersRows
    <2>2. QED
      BY <1>2, <2>1, JudgedStays
  <1>4. ASSUME NEW a \in assignments'
        PROVE  Eligible(a)'
    <2>1. Eligible(a) /\ worker # None
      BY <1>1 DEF WorkersRows
    <2>2. QED
      BY <1>1, <1>2, <2>1, EligibleStays
  <1>5. QED
    BY <1>1, <1>2, <1>3, <1>4 DEF WorkersRows

LEMMA WorkersWait ==
  ASSUME WorkersInv, NEW c \in Client, NEW frame, pc' = [pc EXCEPT ![c] = frame], Working(frame),
         UNCHANGED <<worker, adverseReviews, assignments, day>>, certifications \subseteq certifications',
         \A cert \in certifications' \ certifications : Judged(cert)
  PROVE  WorkersInv'
  <1>1. day \in Nat
    BY DEF WorkersInv, WorkersRows
  <1>2. WorkersRows' /\ WorkerStays
    BY <1>1, WorkersRowsStay
  <1>3. QED
    BY <1>2, WorkersGo

LEMMA IdleWorks == Working(Workers!Idle)
  BY DEF Working, Workers!Idle

LEMMA WorkerIsCreated ==
  ASSUME WorkersInv, NEW status \in Initial, NEW adult \in BOOLEAN, NEW specialist \in BOOLEAN,
         Workers!handleCreateWorker(status, adult, specialist)
  PROVE  WorkersInv'
  <1>1. /\ worker = None
        /\ worker' = [status |-> status, created |-> status, adult |-> adult, specialist |-> specialist, version |-> 1]
        /\ UNCHANGED <<certifications, adverseReviews, assignments, pc, day>>
    BY DEF Workers!handleCreateWorker, Workers!CreateWorker, Workers!InsertWorker, Workers!Served
  <1>2. worker' \in Worker /\ worker'.version = 1 /\ worker'.status = worker'.created
    BY <1>1 DEF Worker
  <1>3. worker' # None
    BY <1>2, NoneIsNull
  <1>4. adverseReviews = <<>> /\ assignments = {}
    BY <1>1 DEF WorkersInv, WorkersRows
  <1>5. WorkerStays
    BY <1>1, <1>4 DEF WorkerStays, Grows, WorkersInv, WorkersRows
  <1>6. ASSUME NEW cert \in certifications'
        PROVE  Judged(cert)'
    BY <1>1, <1>5, JudgedStays DEF WorkersInv, WorkersRows
  <1>7. WorkersRows'
    BY <1>1, <1>2, <1>3, <1>4, <1>6, EmptyTable DEF WorkersInv, WorkersRows
  <1>8. QED
    BY <1>1, <1>5, <1>7, WorkersServed

\* Whatever was reviewed before, the review that is inserted is the one the status follows.
LEMMA WorkerIsReviewed ==
  ASSUME WorkersInv, NEW action \in DOMAIN Workers!AdverseStatus, Workers!handleReviewAdverseAction(action)
  PROVE  WorkersInv'
  <1> DEFINE row == [action |-> action, version |-> worker.version]
  <1>1. /\ worker # None /\ adverseReviews' = Append(adverseReviews, row)
        /\ worker' = [worker EXCEPT !.status = Workers!AdverseStatus[action], !.version = @ + 1]
        /\ UNCHANGED <<certifications, assignments, pc, day>>
    BY DEF Workers!handleReviewAdverseAction, Workers!ReviewAdverseAction, Workers!InsertAdverseAction,
      Workers!UpdateWorkerStatus, Workers!Served
  <1>2. row.action = action /\ row.version = worker.version
    OBVIOUS
  <1> HIDE DEF row
  <1>3. worker \in Worker /\ IsTable(adverseReviews)
    BY <1>1 DEF WorkersInv, WorkersRows
  <1>4. PICK status : status = Workers!AdverseStatus[action] /\ status \in {"rejected", "suspended", "terminated"}
    BY DEF Workers!AdverseStatus
  <1>5. /\ worker' \in Worker /\ worker'.status = status /\ worker'.version = worker.version + 1
        /\ worker'.created = worker.created /\ worker'.adult = worker.adult /\ worker'.specialist = worker.specialist
    <2>1. PICK v : v = worker.version + 1 /\ v \in Nat
      BY <1>3 DEF Worker
    <2>2. worker' = [worker EXCEPT !.status = status, !.version = v]
      BY <1>1, <1>4, <2>1
    <2>3. worker' \in Worker
      BY <1>3, <1>4, <2>1, <2>2 DEF Worker
    <2>4. QED
      BY <1>3, <2>1, <2>2, <2>3 DEF Worker
  <1>6. worker' # None
    BY <1>5, NoneIsNull
  <1>7. PICK new : new = Len(adverseReviews) + 1
    OBVIOUS
  <1>8. /\ IsTable(adverseReviews') /\ Len(adverseReviews') = new
        /\ DOMAIN adverseReviews' = DOMAIN adverseReviews \union {new}
        /\ \A n \in DOMAIN adverseReviews : adverseReviews'[n] = adverseReviews[n]
        /\ adverseReviews'[new] = row
    BY <1>1, <1>3, <1>7, TableInserted
  <1>9. WorkerStays
    <2>1. worker.version \in Nat /\ day \in Nat
      BY <1>3 DEF Worker, WorkersInv, WorkersRows
    <2>2. QED
      BY <1>1, <1>5, <1>6, <1>8, <2>1 DEF WorkerStays, Grows
  <1>10. adverseReviews' # <<>>
    BY <1>8, EmptyTable
  <1>11. worker.version = new
    BY <1>1, <1>7 DEF WorkersInv, WorkersRows
  <1>12. \A n \in DOMAIN adverseReviews' : adverseReviews'[n].version = n
    BY <1>1, <1>2, <1>8, <1>11 DEF WorkersInv, WorkersRows
  <1>13. ASSUME NEW a \in assignments'
         PROVE  Eligible(a)'
    <2>1. Eligible(a) /\ WorkersRows
      BY <1>1 DEF WorkersInv, WorkersRows
    <2>2. QED
      BY <1>1, <1>9, <2>1, EligibleStays
  <1>14. ASSUME NEW cert \in certifications'
         PROVE  Judged(cert)'
    BY <1>1, <1>9, JudgedStays DEF WorkersInv, WorkersRows
  <1>15. WorkersRows'
    <2>1. worker'.status = Workers!AdverseStatus[adverseReviews'[Len(adverseReviews')].action]
      BY <1>2, <1>4, <1>5, <1>8
    <2>2. worker'.version = Len(adverseReviews') + 1
      BY <1>5, <1>8, <1>11
    <2>3. day' \in Nat
      BY <1>9 DEF WorkerStays
    <2>4. QED
      BY <1>5, <1>6, <1>8, <1>10, <1>12, <1>13, <1>14, <2>1, <2>2, <2>3 DEF WorkersRows
  <1>16. QED
    BY <1>1, <1>9, <1>15, WorkersServed

\* Work is assigned to whom the request found eligible.
LEMMA WorkIsAssigned ==
  ASSUME WorkersInv, NEW c \in Client, Workers!AssignOperations(c)
  PROVE  WorkersInv'
  <1>1. PICK f \in Frames : f = pc[c]
    BY DEF Frames
  <1> DEFINE row == [type |-> f.type, version |-> f.version, checked |-> f.checked]
  <1>2. /\ f.op = "assign" /\ assignments' = assignments \union {row} /\ pc' = [pc EXCEPT ![c] = Workers!Idle]
        /\ UNCHANGED <<worker, certifications, adverseReviews, day>>
    BY <1>1 DEF Workers!AssignOperations, Workers!InsertAssignment, Workers!Under, Workers!Done, Workers!Goes
  <1>3. WorkersRows /\ Eligible(f) /\ worker # None
    BY <1>2 DEF WorkersInv, Working
  <1>4. row.type = f.type /\ row.version = f.version /\ row.checked = f.checked
    OBVIOUS
  <1> HIDE DEF row
  <1>5. PICK new : new = row /\ new.type = f.type /\ new.version = f.version /\ new.checked = f.checked
    BY <1>4
  <1>6. Eligible(new)
    BY <1>3, <1>5 DEF Eligible
  <1>7. WorkerStays
    BY <1>2, <1>3 DEF WorkerStays, Grows, WorkersRows, Worker
  <1>8. ASSUME NEW a \in assignments'
        PROVE  Eligible(a)'
    <2>1. Eligible(a)
      BY <1>2, <1>3, <1>5, <1>6 DEF WorkersRows
    <2>2. QED
      BY <1>3, <1>7, <2>1, EligibleStays
  <1>9. ASSUME NEW cert \in certifications'
        PROVE  Judged(cert)'
    BY <1>2, <1>3, <1>7, JudgedStays DEF WorkersRows
  <1>10. WorkersRows'
    BY <1>2, <1>3, <1>8, <1>9 DEF WorkersRows
  <1>11. QED
    BY <1>2, <1>7, <1>10, IdleWorks, WorkersGo DEF Workers!Idle

LEMMA WorkersSteps ==
  ASSUME WorkersInv, Workers!Next
  PROVE  WorkersInv'
  <1> USE DEF Workers!Served, Workers!Begin, Workers!Goes, Workers!Done, Workers!Under, Workers!tables
  <1>1. ASSUME \/ \E desired \in {None, "active", "suspended"} : Workers!handleRecordRating(desired)
               \/ Workers!handleCreateAvailabilityWindow \/ Workers!handleRecordExpense \/ Workers!handleSubmitGrievance
               \/ Workers!handleSubmitGrievanceGlobal \/ Workers!handleCreateEmploymentTerm \/ Workers!handleTriggerSOS
               \/ Workers!Tick
        PROVE  WorkersInv'
    <2>1. UNCHANGED <<worker, adverseReviews, assignments, certifications, pc>>
      BY <1>1 DEF Workers!handleRecordRating, Workers!RecordRating, Workers!handleCreateAvailabilityWindow,
        Workers!CreateAvailabilityWindow, Workers!handleRecordExpense, Workers!RecordExpense,
        Workers!handleSubmitGrievance, Workers!SubmitGrievance, Workers!handleSubmitGrievanceGlobal,
        Workers!handleCreateEmploymentTerm, Workers!CreateEmploymentTerm, Workers!handleTriggerSOS, Workers!TriggerSOS,
        Workers!InsertRating, Workers!InsertAvailabilityWindow, Workers!InsertExpense, Workers!InsertGrievance,
        Workers!InsertEmploymentTerm, Workers!InsertSOSEvent, Workers!Insert, Workers!Tick
    <2>2. day \in Nat /\ day' \in Nat /\ day <= day'
      <3>1. day \in Nat
        BY DEF WorkersInv, WorkersRows
      <3>2. day' = day \/ day' = day + 1
        BY <1>1 DEF Workers!handleRecordRating, Workers!RecordRating, Workers!handleCreateAvailabilityWindow,
          Workers!CreateAvailabilityWindow, Workers!handleRecordExpense, Workers!RecordExpense,
          Workers!handleSubmitGrievance, Workers!SubmitGrievance, Workers!handleSubmitGrievanceGlobal,
          Workers!handleCreateEmploymentTerm, Workers!CreateEmploymentTerm, Workers!handleTriggerSOS, Workers!TriggerSOS,
          Workers!InsertRating, Workers!InsertAvailabilityWindow, Workers!InsertExpense, Workers!InsertGrievance,
          Workers!InsertEmploymentTerm, Workers!InsertSOSEvent, Workers!Insert, Workers!Tick
      <3>3. QED
        BY <3>1, <3>2
    <2>3. WorkersRows' /\ WorkerStays
      BY <2>1, <2>2, WorkersRowsStay
    <2>4. QED
      BY <2>1, <2>3, WorkersServed
  <1>2. ASSUME NEW c \in Client, NEW type \in WorkType, NEW until \in 0 .. MaxTime,
               Workers!handleAddCertification(c, type, until)
        PROVE  WorkersInv'
    <2> DEFINE cert == [type |-> type, until |-> until, status |-> Workers!CertificationStatus(until), judged |-> day]
               frame == [op |-> "certify", cert |-> cert]
    <2>1. pc' = [pc EXCEPT ![c] = frame] /\ UNCHANGED <<worker, adverseReviews, assignments, certifications, day>>
      BY <1>2 DEF Workers!handleAddCertification
    <2>2. day \in Nat /\ until \in Int
      BY DEF WorkersInv, WorkersRows
    <2>3. Workers!CertificationStatus(until) = "valid" => ~(until < day)
      BY DEF Workers!CertificationStatus
    <2>4. Judged(cert)
      BY <2>2, <2>3 DEF Judged
    <2> HIDE DEF cert
    <2>5. Working(frame)
      BY <2>4 DEF Working
    <2> HIDE DEF frame
    <2>6. QED
      BY <2>1, <2>5, WorkersWait
  <1>3. ASSUME NEW c \in Client, Workers!handleRecordTimeEntry(c) \/ Workers!handleRecordTimeEntryGlobal(c)
        PROVE  WorkersInv'
    <2> DEFINE frame == [op |-> "time"]
    <2>1. pc' = [pc EXCEPT ![c] = frame] /\ UNCHANGED <<worker, adverseReviews, assignments, certifications, day>>
      BY <1>3 DEF Workers!handleRecordTimeEntry, Workers!handleRecordTimeEntryGlobal, Workers!ReadWorker
    <2>2. Working(frame)
      BY DEF Working
    <2> HIDE DEF frame
    <2>3. QED
      BY <2>1, <2>2, WorkersWait
  <1>4. ASSUME NEW c \in Client, Workers!RecordTimeEntry(c) \/ Workers!Abandon(c)
        PROVE  WorkersInv'
    <2>1. /\ pc' = [pc EXCEPT ![c] = Workers!Idle]
          /\ UNCHANGED <<worker, adverseReviews, assignments, certifications, day>>
      BY <1>4 DEF Workers!RecordTimeEntry, Workers!InsertTimeEntry, Workers!Insert, Workers!Abandon, Workers!Dropped
    <2>2. QED
      BY <2>1, IdleWorks, WorkersWait DEF Workers!Idle
  <1>5. ASSUME NEW c \in Client, Workers!AddCertification(c)
        PROVE  WorkersInv'
    <2>1. PICK f \in Frames : f = pc[c]
      BY DEF Frames
    <2>2. /\ f.op = "certify" /\ pc' = [pc EXCEPT ![c] = Workers!Idle]
          /\ certifications' = certifications \union {f.cert}
          /\ UNCHANGED <<worker, adverseReviews, assignments, day>>
      BY <1>5, <2>1 DEF Workers!AddCertification, Workers!InsertCertification
    <2>3. Judged(f.cert)
      BY <2>2 DEF WorkersInv, Working
    <2>4. QED
      BY <2>2, <2>3, IdleWorks, WorkersWait DEF Workers!Idle
  <1>6. ASSUME NEW c \in Client, NEW type \in WorkType, Workers!GetWorker(c, type)
        PROVE  WorkersInv'
    <2> DEFINE op == IF type \in Restricted /\ ~worker.specialist THEN "certified" ELSE "assign"
               frame == [op |-> op, type |-> type, version |-> worker.version, checked |-> day]
    <2>1. /\ worker # None /\ worker.adult /\ worker.status = "active" /\ pc' = [pc EXCEPT ![c] = frame]
          /\ UNCHANGED <<worker, adverseReviews, assignments, certifications, day>>
      BY <1>6 DEF Workers!GetWorker
    <2>2. worker \in Worker /\ IsTable(adverseReviews)
      BY <2>1 DEF WorkersInv, WorkersRows
    <2>3. worker.adult \in BOOLEAN /\ worker.specialist \in BOOLEAN /\ worker.version \in Nat
      BY <2>2 DEF Worker
    <2>4. worker.adult = TRUE
      BY <2>1, <2>3
    <2>5. Active(worker.version)
      <3>1. PICK n : n = Len(adverseReviews) /\ n \in Nat /\ (adverseReviews = <<>> <=> n = 0)
        BY <2>2, EmptyTable, TableRows
      <3>2. worker.version = n + 1
        BY <2>1, <3>1 DEF WorkersInv, WorkersRows
      <3>3. CASE n = 0
        <4>1. worker.status = worker.created /\ worker.version = 1
          BY <2>1, <3>1, <3>2, <3>3 DEF WorkersInv, WorkersRows
        <4>2. QED
          BY <2>1, <4>1 DEF Active, Workers!StatusAt
      <3>4. CASE n # 0
        <4>1. worker.version # 1 /\ worker.version - 1 = n
          BY <3>1, <3>2, <3>4
        <4>2. worker.status = Workers!AdverseStatus[adverseReviews[n].action]
          BY <2>1, <3>1, <3>4 DEF WorkersInv, WorkersRows
        <4>3. Workers!StatusAt(worker.version) = worker.status
          BY <4>1, <4>2 DEF Workers!StatusAt
        <4>4. QED
          BY <2>1, <2>3, <3>1, <3>2, <4>3 DEF Active
      <3>5. QED
        BY <3>3, <3>4
    <2>6. op \in {"certified", "assign"} /\ (op = "assign" => (type \in Restricted => worker.specialist = TRUE))
      BY <2>3
    <2> HIDE DEF op
    <2>7. frame.op = op /\ frame.type = type /\ frame.version = worker.version
      OBVIOUS
    <2> HIDE DEF frame
    <2>8. Working(frame)
      BY <2>1, <2>4, <2>5, <2>6, <2>7 DEF Working, Eligible, Certified
    <2>9. QED
      BY <2>1, <2>8, WorkersWait
  <1>7. ASSUME NEW c \in Client, Workers!checkOperationsAssignment(c)
        PROVE  WorkersInv'
    <2>1. PICK f \in Frames : f = pc[c]
      BY DEF Frames
    <2> DEFINE frame == [op |-> "assign", type |-> f.type, version |-> f.version, checked |-> day]
    <2>2. /\ f.op = "certified" /\ pc' = [pc EXCEPT ![c] = frame]
          /\ \E cert \in certifications : cert.type = f.type /\ cert.status = "valid"
          /\ UNCHANGED <<worker, adverseReviews, assignments, certifications, day>>
      BY <1>7, <2>1 DEF Workers!checkOperationsAssignment
    <2>3. worker # None /\ worker.adult = TRUE /\ Active(f.version)
      BY <2>2 DEF WorkersInv, Working
    <2>4. Certified(f.type, day)
      BY <2>2 DEF WorkersInv, WorkersRows, Judged, Certified
    <2>5. frame.op = "assign" /\ frame.type = f.type /\ frame.version = f.version /\ frame.checked = day
      OBVIOUS
    <2> HIDE DEF frame
    <2>6. Working(frame)
      BY <2>3, <2>4, <2>5 DEF Working, Eligible
    <2>7. QED
      BY <2>2, <2>6, WorkersWait
  <1>8. QED
    BY <1>1, <1>2, <1>3, <1>4, <1>5, <1>6, <1>7, WorkerIsCreated, WorkerIsReviewed, WorkIsAssigned DEF Workers!Next

\* A worker's status is the one the last review of an adverse action gave it, and work is assigned to whom reviews
\* had left active when he was looked up, and for restricted work to who had a certification by then that was valid
\* when it was recorded (workforce/service.go: ReviewAdverseAction, AssignOperations).
THEOREM WorkersAsReviewedCorrect == Spec => []WorkersAsReviewed
  <1> DEFINE Inv == part = "workforce" => WorkersInv
  <1>1. Init => Inv
    <2> SUFFICES ASSUME Init
                 PROVE  WorkersInv
      OBVIOUS
    <2>1. /\ worker = None /\ adverseReviews = <<>> /\ assignments = {} /\ certifications = {} /\ day = 0
          /\ pc = [c \in Client |-> Workers!Idle]
      BY DEF Init, Workers!Init, Workers!NoRequests
    <2>2. \A f \in Frames : Working(f)
      BY <2>1, IdleWorks DEF Frames
    <2>3. QED
      BY <2>1, <2>2, EmptyTable DEF WorkersInv, WorkersRows
  <1>2. Inv /\ [Next]_vars => Inv'
    <2> SUFFICES ASSUME Inv, [Next]_vars, part' = "workforce"
                 PROVE  WorkersInv'
      OBVIOUS
    <2>1. part = "workforce" /\ WorkersInv
      BY Stays
    <2>2. CASE UNCHANGED <<workforce, pc, requests>>
      <3>1. UNCHANGED <<worker, adverseReviews, assignments, certifications, pc, day>> /\ day \in Nat
        BY <2>1, <2>2 DEF workforce, WorkersInv, WorkersRows
      <3>2. WorkersRows' /\ WorkerStays
        BY <2>1, <3>1, WorkersRowsStay
      <3>3. QED
        BY <2>1, <3>1, <3>2, WorkersServed
    <2>3. QED
      BY <2>1, <2>2, WorkersSteps, Stays
  <1>3. Inv => WorkersAsReviewed
    <2> SUFFICES ASSUME WorkersInv
                 PROVE  Workers!WorkersAsReviewed
      BY DEF WorkersAsReviewed
    <2>1. Workers!StatusIsReviewed
      BY DEF Workers!StatusIsReviewed, WorkersInv, WorkersRows, Worker
    <2>2. Workers!AssignedIsEligible
      BY DEF Workers!AssignedIsEligible, WorkersInv, WorkersRows, Eligible, Active, Certified
    <2>3. QED
      BY <2>1, <2>2 DEF Workers!WorkersAsReviewed
  <1>4. QED
    BY <1>1, <1>2, <1>3, PTL DEF Spec
-----------------------------------------------------------------------------
(* Communications: quiet hours, messages and their deliveries, links *)

\* Less than two days on from the start of one, the minute of day is what is left of the second.
LEMMA MinuteOfDay ==
  ASSUME NEW x \in Int, NEW minutes \in Nat \ {0}
  PROVE  /\ 0 <= x /\ x < minutes => x % minutes = x
         /\ minutes <= x /\ x < minutes + minutes => x % minutes = x - minutes
         /\ 0 - minutes <= x /\ x < 0 => x % minutes = x + minutes
  OBVIOUS

Wish == [consents : SUBSET Contact!Class, start : 0 .. Day - 1, end : 0 .. Day - 1]

\* The test of the code, which tells whether a minute is between start and end across midnight, finds every
\* minute that is counted on from the start.
LEMMA QuietHours ==
  ASSUME NEW prefs \in Wish, NEW minute \in 0 .. Day - 1,
         ~Contact!IsWithinQuietHours(minute, prefs.start, prefs.end)
  PROVE  minute \notin Contact!Quiet(prefs)
  <1> SUFFICES ASSUME minute \in Contact!Quiet(prefs)
               PROVE  FALSE
    OBVIOUS
  <1>1. PICK minutes : minutes = Day /\ minutes \in Nat \ {0}
    BY DayIsCounted
  <1>2. PICK start, end : start = prefs.start /\ end = prefs.end /\ start \in 0 .. minutes - 1 /\ end \in 0 .. minutes - 1
    BY <1>1 DEF Wish
  <1>3. PICK length : length = (end - start) % minutes
    OBVIOUS
  <1>4. PICK k \in 0 .. length - 1 : minute = (start + k) % minutes
    BY <1>1, <1>2, <1>3 DEF Contact!Quiet
  <1>5. /\ end = start => length = 0
        /\ start < end => length = end - start
        /\ end < start => length = end - start + minutes
    <2>1. end - start \in Int /\ 0 - minutes <= end - start /\ end - start < minutes
      BY <1>1, <1>2
    <2>2. PICK x \in Int : x = end - start
      BY <2>1
    <2>3. (0 <= x => length = x) /\ (x < 0 => length = x + minutes)
      BY <1>1, <1>3, <2>1, <2>2, MinuteOfDay
    <2>4. QED
      BY <1>1, <1>2, <2>2, <2>3
  <1>6. start # end /\ length \in Nat /\ length < minutes /\ k \in Nat /\ k < length
    BY <1>1, <1>2, <1>4, <1>5
  <1>7. PICK x \in Int : x = start + k /\ 0 <= x /\ x < minutes + minutes
    BY <1>1, <1>2, <1>6
  <1>8. minute = IF x < minutes THEN x ELSE x - minutes
    BY <1>1, <1>4, <1>7, MinuteOfDay
  <1>9. IF start < end THEN start <= minute /\ minute < end ELSE start <= minute \/ minute < end
    BY <1>1, <1>2, <1>5, <1>6, <1>7, <1>8
  <1>10. QED
    BY <1>2, <1>6, <1>9 DEF Contact!IsWithinQuietHours

Sent == [minute : 0 .. Day - 1, prefs : Wish, status : {"queued", "sent", "delivered", "failed"}]

\* A free-form message was approved, and what is sent was consented to and is not quiet, by what was read.
Approved == draft.source = "ai" => "approved" \in reviews
Allowed(d) ==
  /\ Approved
  /\ draft.class \in d.prefs.consents
  /\ d.minute \in Contact!Quiet(d.prefs) => draft.class = "urgent"

Contacting(f) ==
  /\ f.op = "review" => draft # None /\ f.decision \in {"approved", "rejected"}
  /\ f.op \in {"allowed", "deliver"} =>
       /\ draft # None /\ f.draft.class = draft.class /\ Approved
       /\ f.minute \in 0 .. Day - 1
  /\ f.op = "deliver" => f.prefs \in Wish /\ Allowed(f)

MessageRows ==
  /\ template = None \/ template \in Contact!Class
  /\ preferences = None \/ preferences \in Wish
  /\ draft = None \/ draft \in Message
  /\ deliveries \in Seq(Sent)
  /\ draft = None => deliveries = <<>>
  /\ draft # None /\ draft.status = "approved" => Approved
  /\ \A n \in DOMAIN deliveries : Allowed(deliveries[n])

LinkRows ==
  /\ link = None \/ link \in Link
  /\ redemptions \in {0, 1}
  /\ link = None \/ link.used = FALSE => redemptions = 0

ContactInv == DOMAIN pc = Client /\ MessageRows /\ LinkRows /\ \A f \in Frames : Contacting(f)

\* A message stays the same but for its status, and reviews become more.
MessageStays ==
  /\ draft # None => draft' # None /\ draft'.source = draft.source /\ draft'.class = draft.class
  /\ reviews \subseteq reviews'

LEMMA AllowedStays ==
  ASSUME MessageStays, draft # None, NEW d, Allowed(d)
  PROVE  Allowed(d)'
  <1>1. PICK quiet : quiet = Contact!Quiet(d.prefs)
    OBVIOUS
  <1>2. quiet = Contact!Quiet(d.prefs)'
    BY <1>1 DEF Contact!Quiet
  <1>3. QED
    BY <1>1, <1>2 DEF MessageStays, Allowed, Approved

LEMMA ContactingStays ==
  ASSUME MessageStays, NEW f, Contacting(f)
  PROVE  Contacting(f)'
  <1>1. f.op = "deliver" => Allowed(f)'
    BY AllowedStays DEF Contacting
  <1>2. QED
    BY <1>1 DEF Contacting, MessageStays, Approved

LEMMA ContactServed ==
  ASSUME ContactInv, UNCHANGED pc, MessageStays, MessageRows', LinkRows'
  PROVE  ContactInv'
  <1>1. ASSUME NEW f \in Frames'
        PROVE  Contacting(f)'
    <2>1. Contacting(f)
      BY DEF ContactInv, Frames
    <2>2. QED
      BY <2>1, ContactingStays
  <1>2. QED
    BY <1>1 DEF ContactInv

LEMMA ContactGoes ==
  ASSUME ContactInv, NEW c \in Client, NEW frame, pc' = [pc EXCEPT ![c] = frame], Contacting(frame),
         MessageStays, MessageRows', LinkRows'
  PROVE  ContactInv'
  <1>1. DOMAIN pc = Client
    BY DEF ContactInv
  <1>2. \A f \in Frames' : f = frame \/ f \in Frames
    BY <1>1 DEF Frames
  <1>3. ASSUME NEW f \in Frames'
        PROVE  Contacting(f)'
    <2>1. Contacting(f)
      BY <1>2 DEF ContactInv
    <2>2. QED
      BY <2>1, ContactingStays
  <1>4. DOMAIN pc' = Client
    BY <1>1
  <1>5. QED
    BY <1>3, <1>4 DEF ContactInv

\* Only what a message is by default, or what is asked for from now on, changes.
LEMMA MessageRowsStay ==
  ASSUME ContactInv, UNCHANGED <<draft, reviews, deliveries>>,
         template' = None \/ template' \in Contact!Class,
         preferences' = None \/ preferences' \in Wish
  PROVE  MessageRows' /\ MessageStays
  <1>1. MessageStays
    BY DEF MessageStays
  <1>2. ASSUME NEW n \in DOMAIN deliveries'
        PROVE  Allowed(deliveries[n])'
    <2>1. PICK d : d = deliveries[n]
      OBVIOUS
    <2>2. Allowed(d) /\ draft # None
      BY <2>1, EmptyTable DEF ContactInv, MessageRows
    <2>3. Allowed(d)' /\ d = deliveries'[n]
      BY <1>1, <2>1, <2>2, AllowedStays
    <2>4. QED
      BY <2>3
  <1>3. QED
    BY <1>1, <1>2 DEF ContactInv, MessageRows, Approved

LEMMA LinkRowsStay ==
  ASSUME ContactInv, UNCHANGED <<link, redemptions>>
  PROVE  LinkRows'
  BY DEF ContactInv, LinkRows

LEMMA ContactWaits ==
  ASSUME ContactInv, NEW c \in Client, NEW frame, pc' = [pc EXCEPT ![c] = frame], Contacting(frame),
         UNCHANGED <<template, preferences, draft, reviews, deliveries, link, redemptions>>
  PROVE  ContactInv'
  <1>1. template' = None \/ template' \in Contact!Class
    BY DEF ContactInv, MessageRows
  <1>2. preferences' = None \/ preferences' \in Wish
    BY DEF ContactInv, MessageRows
  <1>3. MessageRows' /\ MessageStays /\ LinkRows'
    BY <1>1, <1>2, MessageRowsStay, LinkRowsStay
  <1>4. QED
    BY <1>3, ContactGoes

LEMMA IdleContacts == Contacting(Contact!Idle)
  BY DEF Contacting, Contact!Idle

\* A message from a template is approved as it is, any other has to be reviewed.
LEMMA MessageIsCreated ==
  ASSUME ContactInv, NEW source \in {"template", "ai"}, NEW class \in Contact!Class, NEW language,
         Contact!handleCreateDraft(source, class, language)
  PROVE  ContactInv'
  <1>1. /\ draft = None
        /\ \/ draft' = [source |-> "template", class |-> template, status |-> "approved"] /\ template # None
           \/ draft' = [source |-> "ai", class |-> class, status |-> "under_review"]
        /\ UNCHANGED <<template, preferences, reviews, deliveries, link, redemptions, pc>>
    BY DEF Contact!handleCreateDraft, Contact!CreateDraft, Contact!Served, Contact!links
  <1>2. template # None => template \in Contact!Class
    BY DEF ContactInv, MessageRows
  <1>3. draft' \in Message /\ (draft'.status = "approved" => draft'.source = "template")
    BY <1>1, <1>2 DEF Message
  <1>4. draft' # None
    BY <1>3, NoneIsNull
  <1>5. deliveries = <<>> /\ DOMAIN deliveries = {}
    BY <1>1, EmptyTable DEF ContactInv, MessageRows
  <1>6. MessageRows'
    BY <1>1, <1>3, <1>4, <1>5 DEF ContactInv, MessageRows, Approved
  <1>7. MessageStays /\ LinkRows'
    BY <1>1, LinkRowsStay DEF MessageStays
  <1>8. QED
    BY <1>1, <1>6, <1>7, ContactServed

\* A review writes its decision with it.
LEMMA MessageIsReviewed ==
  ASSUME ContactInv, NEW c \in Client, Contact!ReviewDraft(c)
  PROVE  ContactInv'
  <1>1. PICK f \in Frames : f = pc[c]
    BY DEF Frames
  <1>2. /\ f.op = "review" /\ reviews' = reviews \union {f.decision}
        /\ draft' = [draft EXCEPT !.status = f.decision]
        /\ pc' = [pc EXCEPT ![c] = Contact!Idle]
        /\ UNCHANGED <<template, preferences, deliveries, link, redemptions>>
    BY <1>1 DEF Contact!ReviewDraft, Contact!InsertReview, Contact!UpdateDraftStatus, Contact!Under, Contact!Done,
      Contact!Goes, Contact!links
  <1>3. draft \in Message /\ draft # None /\ f.decision \in {"approved", "rejected"}
    BY <1>2 DEF ContactInv, MessageRows, Contacting
  <1>4. /\ draft' \in Message /\ draft'.source = draft.source /\ draft'.class = draft.class
        /\ draft'.status = f.decision
    BY <1>2, <1>3 DEF Message
  <1>5. draft' # None
    BY <1>4, NoneIsNull
  <1>6. MessageStays
    BY <1>2, <1>4, <1>5 DEF MessageStays
  <1>7. ASSUME NEW n \in DOMAIN deliveries'
        PROVE  Allowed(deliveries[n])'
    <2>1. PICK d : d = deliveries[n]
      OBVIOUS
    <2>2. Allowed(d)
      BY <1>2, <2>1 DEF ContactInv, MessageRows
    <2>3. Allowed(d)' /\ d = deliveries'[n]
      BY <1>2, <1>3, <1>6, <2>1, <2>2, AllowedStays
    <2>4. QED
      BY <2>3
  <1>8. draft'.status = "approved" => Approved'
    BY <1>2, <1>4 DEF Approved
  <1>9. MessageRows'
    BY <1>2, <1>4, <1>5, <1>7, <1>8 DEF ContactInv, MessageRows
  <1>10. LinkRows'
    BY <1>2, LinkRowsStay
  <1>11. QED
    BY <1>2, <1>6, <1>9, <1>10, IdleContacts, ContactGoes DEF Contact!Idle

\* Preferences allow what a request goes on to deliver.
LEMMA PreferencesAllow ==
  ASSUME ContactInv, NEW c \in Client, Contact!preferencesForDelivery(c)
  PROVE  ContactInv'
  <1>1. PICK f \in Frames : f = pc[c]
    BY DEF Frames
  <1>2. PICK prefs : prefs = Contact!GetPreferences
    OBVIOUS
  <1> DEFINE frame == [op |-> "deliver", draft |-> f.draft, minute |-> f.minute, prefs |-> prefs]
  <1>3. /\ f.op = "allowed" /\ f.draft.class \in prefs.consents
        /\ f.draft.class = "urgent" \/ ~Contact!IsWithinQuietHours(f.minute, prefs.start, prefs.end)
        /\ pc' = [pc EXCEPT ![c] = frame]
        /\ UNCHANGED <<template, preferences, draft, reviews, deliveries, link, redemptions>>
    BY <1>1, <1>2 DEF Contact!preferencesForDelivery, Contact!ConsentByClass, Contact!Under, Contact!Goes,
      Contact!messages, Contact!links
  <1>4. draft # None /\ f.draft.class = draft.class /\ Approved /\ f.minute \in 0 .. Day - 1
    BY <1>3 DEF ContactInv, Contacting
  <1>5. prefs \in Wish
    <2>1. preferences = None \/ preferences \in Wish
      BY DEF ContactInv, MessageRows
    <2>2. Contact!defaultPreferences \in Wish
      BY DayIsCounted DEF Contact!defaultPreferences, Wish, Contact!Class
    <2>3. QED
      BY <1>2, <2>1, <2>2 DEF Contact!GetPreferences
  <1>6. f.minute \in Contact!Quiet(prefs) => draft.class = "urgent"
    BY <1>3, <1>4, <1>5, QuietHours
  <1>7. frame.op = "deliver" /\ frame.draft = f.draft /\ frame.minute = f.minute /\ frame.prefs = prefs
    OBVIOUS
  <1> HIDE DEF frame
  <1>8. Allowed(frame)
    BY <1>3, <1>4, <1>6, <1>7 DEF Allowed
  <1>9. Contacting(frame)
    BY <1>4, <1>5, <1>7, <1>8 DEF Contacting
  <1>10. QED
    BY <1>3, <1>9, ContactWaits

LEMMA MessageIsDelivered ==
  ASSUME ContactInv, NEW c \in Client, Contact!Deliver(c)
  PROVE  ContactInv'
  <1>1. PICK f \in Frames : f = pc[c]
    BY DEF Frames
  <1>2. PICK row : row = [minute |-> f.minute, prefs |-> f.prefs, status |-> "queued"]
    OBVIOUS
  <1>3. /\ f.op = "deliver" /\ deliveries' = Append(deliveries, row)
        /\ draft' = [draft EXCEPT !.status = "delivered"]
        /\ pc' = [pc EXCEPT ![c] = Contact!Idle]
        /\ UNCHANGED <<template, preferences, reviews, link, redemptions>>
    BY <1>1, <1>2 DEF Contact!Deliver, Contact!InsertDelivery, Contact!UpdateDraftStatus, Contact!Under, Contact!Done,
      Contact!Goes, Contact!links
  <1>4. draft # None /\ f.minute \in 0 .. Day - 1 /\ f.prefs \in Wish /\ Allowed(f)
    BY <1>3 DEF ContactInv, Contacting
  <1>5. row \in Sent /\ Allowed(row)
    BY <1>2, <1>4 DEF Sent, Allowed
  <1>6. draft \in Message
    BY <1>4 DEF ContactInv, MessageRows
  <1>7. /\ draft' \in Message /\ draft'.source = draft.source /\ draft'.class = draft.class
        /\ draft'.status = "delivered"
    BY <1>3, <1>6 DEF Message
  <1>8. draft' # None
    BY <1>7, NoneIsNull
  <1>9. MessageStays
    BY <1>3, <1>7, <1>8 DEF MessageStays
  <1>10. PICK new : new = Len(deliveries) + 1
    OBVIOUS
  <1>11. /\ deliveries' \in Seq(Sent) /\ DOMAIN deliveries' = DOMAIN deliveries \union {new}
         /\ \A n \in DOMAIN deliveries : deliveries'[n] = deliveries[n]
         /\ deliveries'[new] = row
    BY <1>3, <1>5, <1>10, Inserted DEF ContactInv, MessageRows
  <1>12. ASSUME NEW n \in DOMAIN deliveries'
         PROVE  Allowed(deliveries[n])'
    <2>1. PICK d : d = deliveries'[n]
      OBVIOUS
    <2>2. Allowed(d)
      BY <1>5, <1>11, <2>1 DEF ContactInv, MessageRows
    <2>3. Allowed(d)'
      BY <1>4, <1>9, <2>2, AllowedStays
    <2>4. QED
      BY <2>1, <2>3
  <1>13. MessageRows'
    BY <1>3, <1>7, <1>8, <1>11, <1>12 DEF ContactInv, MessageRows
  <1>14. LinkRows'
    BY <1>3, LinkRowsStay
  <1>15. QED
    BY <1>3, <1>9, <1>13, <1>14, IdleContacts, ContactGoes DEF Contact!Idle

\* The result of a delivery is all that changes of it.
LEMMA ResultIsRecorded ==
  ASSUME ContactInv, NEW n \in DOMAIN deliveries, NEW status \in Contact!DeliveryStatus,
         Contact!handleRecordDeliveryResult(n, status)
  PROVE  ContactInv'
  <1>1. /\ deliveries' = [deliveries EXCEPT ![n].status = status]
        /\ UNCHANGED <<template, preferences, draft, reviews, link, redemptions, pc>>
    BY DEF Contact!handleRecordDeliveryResult, Contact!RecordDeliveryResult, Contact!Served, Contact!links
  <1>2. deliveries \in Seq(Sent) /\ deliveries[n] \in Sent
    BY Rows DEF ContactInv, MessageRows
  <1>3. PICK row : row = [deliveries[n] EXCEPT !.status = status]
    OBVIOUS
  <1>4. row \in Sent /\ row.minute = deliveries[n].minute /\ row.prefs = deliveries[n].prefs
    BY <1>2, <1>3 DEF Sent, Contact!DeliveryStatus
  <1>5. deliveries' = [deliveries EXCEPT ![n] = row]
    BY <1>1, <1>3
  <1>6. /\ deliveries' \in Seq(Sent) /\ DOMAIN deliveries' = DOMAIN deliveries
        /\ \A m \in DOMAIN deliveries : deliveries'[m] = IF m = n THEN row ELSE deliveries[m]
    BY <1>2, <1>4, <1>5, Updated
  <1>7. draft # None
    BY EmptyTable DEF ContactInv, MessageRows
  <1>8. MessageStays
    BY <1>1 DEF MessageStays
  <1>9. ASSUME NEW m \in DOMAIN deliveries'
        PROVE  Allowed(deliveries[m])'
    <2>1. PICK d : d = deliveries'[m]
      OBVIOUS
    <2>2. Allowed(d)
      BY <1>4, <1>6, <2>1 DEF ContactInv, MessageRows, Allowed
    <2>3. Allowed(d)'
      BY <1>7, <1>8, <2>2, AllowedStays
    <2>4. QED
      BY <2>1, <2>3
  <1>10. MessageRows'
    BY <1>1, <1>6, <1>7, <1>9 DEF ContactInv, MessageRows, Approved
  <1>11. LinkRows'
    BY <1>1, LinkRowsStay
  <1>12. QED
    BY <1>1, <1>8, <1>10, <1>11, ContactServed

\* A link is used once, whatever becomes of it otherwise.
LEMMA LinkIsUsedOnce ==
  ASSUME ContactInv,
         \/ Contact!handleCreateSecureLink \/ Contact!handleRedeemSecureLink \/ Contact!handleRevokeSecureLink
         \/ Contact!LinkExpires
  PROVE  ContactInv'
  <1>1. UNCHANGED <<template, preferences, draft, reviews, deliveries, pc>>
    BY DEF Contact!handleCreateSecureLink, Contact!CreateSecureLink, Contact!handleRedeemSecureLink,
      Contact!RedeemSecureLink, Contact!handleRevokeSecureLink, Contact!RevokeSecureLink, Contact!LinkExpires,
      Contact!Served, Contact!messages
  <1>2. MessageRows' /\ MessageStays
    <2>1. template' = None \/ template' \in Contact!Class
      BY <1>1 DEF ContactInv, MessageRows
    <2>2. preferences' = None \/ preferences' \in Wish
      BY <1>1 DEF ContactInv, MessageRows
    <2>3. QED
      BY <1>1, <2>1, <2>2, MessageRowsStay
  <1>3. LinkRows
    BY DEF ContactInv
  <1>4. LinkRows'
    <2>1. CASE Contact!handleCreateSecureLink
      BY <1>3, <2>1, NoneIsNull DEF Contact!handleCreateSecureLink, Contact!CreateSecureLink, LinkRows, Link
    <2>2. CASE Contact!handleRedeemSecureLink
      <3>1. /\ link # None /\ ~link.used /\ link' = [link EXCEPT !.used = TRUE] /\ redemptions' = redemptions + 1
        BY <2>2 DEF Contact!handleRedeemSecureLink, Contact!RedeemSecureLink, Contact!RedeemLink
      <3>2. link \in Link
        BY <1>3, <3>1 DEF LinkRows
      <3>3. link.used = FALSE /\ redemptions = 0
        BY <1>3, <3>1, <3>2 DEF LinkRows, Link
      <3>4. link' \in Link /\ link'.used = TRUE
        BY <3>1, <3>2 DEF Link
      <3>5. link' # None
        BY <3>4, NoneIsNull
      <3>6. QED
        BY <3>1, <3>3, <3>4, <3>5 DEF LinkRows
    <2>3. CASE Contact!handleRevokeSecureLink \/ Contact!LinkExpires
      <3>1. /\ link # None /\ redemptions' = redemptions
            /\ link' = [link EXCEPT !.revoked = TRUE] \/ link' = [link EXCEPT !.expired = TRUE]
        BY <2>3 DEF Contact!handleRevokeSecureLink, Contact!RevokeSecureLink, Contact!RevokeLink, Contact!LinkExpires
      <3>2. link \in Link
        BY <1>3, <3>1 DEF LinkRows
      <3>3. link' \in Link /\ link'.used = link.used
        BY <3>1, <3>2 DEF Link
      <3>4. link' # None
        BY <3>3, NoneIsNull
      <3>5. QED
        BY <1>3, <3>1, <3>3, <3>4 DEF LinkRows
    <2>4. QED
      BY <2>1, <2>2, <2>3
  <1>5. QED
    BY <1>1, <1>2, <1>4, ContactServed

LEMMA ContactSteps ==
  ASSUME ContactInv, Contact!Next
  PROVE  ContactInv'
  <1> USE DEF Contact!Served, Contact!Begin, Contact!Goes, Contact!Done, Contact!Under, Contact!messages, Contact!links
  <1>1. ASSUME \/ \E class \in Contact!Class : Contact!handleCreateTemplate(class)
               \/ \E prefs \in Preference : Contact!handleSetPreferences(prefs)
        PROVE  ContactInv'
    <2>1. /\ UNCHANGED <<draft, reviews, deliveries, link, redemptions, pc>>
          /\ template' \in Contact!Class \/ template' = template
          /\ preferences' \in Preference \/ preferences' = preferences
      BY <1>1 DEF Contact!handleCreateTemplate, Contact!CreateTemplate, Contact!handleSetPreferences,
        Contact!SetPreferences, Contact!UpsertPreferences
    <2>2. template' = None \/ template' \in Contact!Class
      BY <2>1 DEF ContactInv, MessageRows
    <2>3. preferences' = None \/ preferences' \in Wish
      BY <2>1, DayIsCounted DEF ContactInv, MessageRows, Wish
    <2>4. MessageRows' /\ MessageStays /\ LinkRows'
      BY <2>1, <2>2, <2>3, MessageRowsStay, LinkRowsStay
    <2>5. QED
      BY <2>1, <2>4, ContactServed
  <1>2. ASSUME NEW c \in Client, NEW language, Contact!handleAddTemplateVersion(c, language)
        PROVE  ContactInv'
    <2> DEFINE frame == [op |-> "version", language |-> language, number |-> Contact!NextTemplateVersion]
    <2>1. /\ pc' = [pc EXCEPT ![c] = frame]
          /\ UNCHANGED <<template, preferences, draft, reviews, deliveries, link, redemptions>>
      BY <1>2 DEF Contact!handleAddTemplateVersion
    <2>2. Contacting(frame)
      BY DEF Contacting
    <2> HIDE DEF frame
    <2>3. QED
      BY <2>1, <2>2, ContactWaits
  <1>3. ASSUME NEW c \in Client, NEW decision \in {"approved", "rejected"}, Contact!handleReviewDraft(c, decision)
        PROVE  ContactInv'
    <2> DEFINE frame == [op |-> "review", decision |-> decision]
    <2>1. /\ draft # None /\ pc' = [pc EXCEPT ![c] = frame]
          /\ UNCHANGED <<template, preferences, draft, reviews, deliveries, link, redemptions>>
      BY <1>3 DEF Contact!handleReviewDraft
    <2>2. Contacting(frame)
      BY <2>1 DEF Contacting
    <2> HIDE DEF frame
    <2>3. QED
      BY <2>1, <2>2, ContactWaits
  <1>4. ASSUME NEW c \in Client, NEW minute \in Minute, Contact!handleDeliver(c, minute)
        PROVE  ContactInv'
    <2> DEFINE frame == [op |-> "allowed", draft |-> draft, minute |-> minute]
    <2>1. /\ draft # None /\ draft.status = "approved" /\ pc' = [pc EXCEPT ![c] = frame]
          /\ UNCHANGED <<template, preferences, draft, reviews, deliveries, link, redemptions>>
      BY <1>4 DEF Contact!handleDeliver
    <2>2. Approved /\ minute \in 0 .. Day - 1
      BY <2>1, DayIsCounted DEF ContactInv, MessageRows
    <2>3. Contacting(frame)
      BY <2>1, <2>2 DEF Contacting
    <2> HIDE DEF frame
    <2>4. QED
      BY <2>1, <2>3, ContactWaits
  <1>5. ASSUME NEW c \in Client, Contact!AddTemplateVersion(c) \/ Contact!Abandon(c)
        PROVE  ContactInv'
    <2>1. /\ pc' = [pc EXCEPT ![c] = Contact!Idle]
          /\ UNCHANGED <<template, preferences, draft, reviews, deliveries, link, redemptions>>
      BY <1>5 DEF Contact!AddTemplateVersion, Contact!Abandon, Contact!Dropped
    <2>2. QED
      BY <2>1, IdleContacts, ContactWaits DEF Contact!Idle
  <1>6. QED
    BY <1>1, <1>2, <1>3, <1>4, <1>5, MessageIsCreated, MessageIsReviewed, PreferencesAllow, MessageIsDelivered,
      ResultIsRecorded, LinkIsUsedOnce DEF Contact!Next

\* Nothing free-form is delivered without an approving review, nothing without consent or in quiet hours by the
\* preferences that were read, and no link is redeemed twice (communications/service.go: Deliver, RedeemSecureLink).
THEOREM ContactIsAllowedCorrect == Spec => []ContactIsAllowed
  <1> DEFINE Inv == part = "contact" => ContactInv
  <1>1. Init => Inv
    <2> SUFFICES ASSUME Init
                 PROVE  ContactInv
      OBVIOUS
    <2>1. /\ template = None /\ preferences = None /\ draft = None /\ deliveries = <<>> /\ link = None /\ redemptions = 0
          /\ pc = [c \in Client |-> Contact!Idle]
      BY DEF Init, Contact!Init, Contact!NoRequests
    <2>2. \A f \in Frames : Contacting(f)
      BY <2>1, IdleContacts DEF Frames
    <2>3. QED
      BY <2>1, <2>2, Empty DEF ContactInv, MessageRows, LinkRows
  <1>2. Inv /\ [Next]_vars => Inv'
    <2> SUFFICES ASSUME Inv, [Next]_vars, part' = "contact"
                 PROVE  ContactInv'
      OBVIOUS
    <2>1. part = "contact" /\ ContactInv
      BY Stays
    <2>2. CASE UNCHANGED <<contact, pc, requests>>
      <3>1. UNCHANGED <<template, preferences, draft, reviews, deliveries, link, redemptions, pc>>
        BY <2>2 DEF contact
      <3>2. template' = None \/ template' \in Contact!Class
        BY <2>1, <3>1 DEF ContactInv, MessageRows
      <3>3. preferences' = None \/ preferences' \in Wish
        BY <2>1, <3>1 DEF ContactInv, MessageRows
      <3>4. MessageRows' /\ MessageStays /\ LinkRows'
        BY <2>1, <3>1, <3>2, <3>3, MessageRowsStay, LinkRowsStay
      <3>5. QED
        BY <2>1, <3>1, <3>4, ContactServed
    <2>3. QED
      BY <2>1, <2>2, ContactSteps, Stays
  <1>3. Inv => ContactIsAllowed
    BY DEF ContactIsAllowed, Contact!ContactIsAllowed, Contact!DeliveredAsAllowed, Contact!RedeemedOnce,
      ContactInv, MessageRows, LinkRows, Allowed, Approved
  <1>4. QED
    BY <1>1, <1>2, <1>3, PTL DEF Spec
-----------------------------------------------------------------------------
(* Access: grants, holds, and the custody ledger of them *)

GrantRow == [secret : Int, grantee : Person, window : Window,
             status : Keys!LiveStates \union Keys!EndedStates, emergency : BOOLEAN]
HoldRow == [status : {"active", "released"}, placed : Nat]
GrantEvents == {"issued", "emergency_access", "acknowledged", "returned", "revoked", "disclosed"}
HoldEvents == {"hold_placed", "hold_released"}
Event == [type : GrantEvents \union HoldEvents, grant : Nat \union {None}, created : Nat]

HasEnded(g) == grants[g].status \in Keys!EndedStates

\* Every event of a grant is of one there is, and one that ends a grant has.
LedgerRows ==
  /\ custody \in Seq(Event)
  /\ \A n \in DOMAIN custody :
       /\ custody[n].type \in GrantEvents => custody[n].grant \in DOMAIN grants
       /\ custody[n].type \in Keys!EndedStates => HasEnded(custody[n].grant)

GrantRows == grants \in Seq(GrantRow) /\ \A g \in DOMAIN grants : Keys!ToldLast(g)

Released == {h \in DOMAIN holds : holds[h].status = "released"}

HoldRows ==
  /\ holds \in Seq(HoldRow)
  /\ Cardinality(Keys!OfType("hold_placed")) = Len(holds)
  /\ Cardinality(Keys!OfType("hold_released")) = Cardinality(Released)

RevocationBound ==
  \A g \in DOMAIN grants : HasEnded(g) => Within(Keys!LateDisclosures(g), Keys!Disclosing(g))
HoldBound ==
  \A h \in DOMAIN holds : holds[h].status = "active" => Within(Keys!HeldAccesses(h), Keys!Proceeding)

\* A request inserts an active grant, or deals with a grant there is.
Granting == [op : {"grant", "emergency"}, row : GrantRow, begun : Nat \union {None}]
DisclosingOp == {"disclose", "disclosing", "record"}
Disclosure == [op : DisclosingOp, grant : Nat, requestor : Person, at : Nat,
               result : {"revoked", "denied", "out_of_window", "success", "held"}, begun : Nat \union {None}]
Asked(f) ==
  /\ f.op \in {"grant", "emergency"} => f \in Granting /\ f.row.status = "active"
  /\ f.op \in DisclosingOp => f \in Disclosure /\ f.grant \in DOMAIN grants
  /\ f.op \in {"acknowledge", "return", "revoke"} => f.grant \in DOMAIN grants /\ f.begun \in Nat
  /\ f.op \in {"place", "release"} => f.begun \in Nat
  /\ f.op = "release" => f.hold \in DOMAIN holds

KeysInv ==
  /\ DOMAIN pc = Client /\ now \in Nat /\ begun \in Nat
  /\ LedgerRows /\ GrantRows /\ HoldRows
  /\ RevocationBound /\ HoldBound
  /\ \A f \in Frames : Asked(f)

\* An event comes after all there are.
Logged(event, new) ==
  /\ custody' = Append(custody, event) /\ event \in Event /\ new = Len(custody) + 1

LEMMA LedgerGrows ==
  ASSUME LedgerRows, NEW event, NEW new, Logged(event, new)
  PROVE  /\ custody' \in Seq(Event)
         /\ DOMAIN custody' = DOMAIN custody \union {new}
         /\ \A n \in DOMAIN custody : custody'[n] = custody[n]
         /\ custody'[new] = event /\ new \notin DOMAIN custody
         /\ new \in Nat /\ \A n \in DOMAIN custody : n \in Nat /\ n < new
         /\ DOMAIN custody = 1 .. new - 1
  <1>1. Len(custody) \in Nat /\ DOMAIN custody = 1 .. Len(custody)
    BY Rows DEF LedgerRows
  <1>2. QED
    BY <1>1, Inserted DEF LedgerRows, Logged

LEMMA MovesGrow ==
  ASSUME LedgerRows, NEW event, NEW new, Logged(event, new), NEW g
  PROVE  Keys!Moves(g)' = Keys!Moves(g) \union
           {n \in {new} : event.type \in DOMAIN Keys!StatusOf /\ event.grant = g}
  <1>1. /\ DOMAIN custody' = DOMAIN custody \union {new}
        /\ \A n \in DOMAIN custody : custody'[n] = custody[n]
        /\ custody'[new] = event /\ new \notin DOMAIN custody
    BY LedgerGrows
  <1>2. QED
    BY <1>1 DEF Keys!Moves, Keys!StatusOf

LEMMA LateGrow ==
  ASSUME LedgerRows, NEW event, NEW new, Logged(event, new), NEW g
  PROVE  Keys!LateDisclosures(g)' \subseteq Keys!LateDisclosures(g) \union
           {n \in {new} : event.type = "disclosed" /\ event.grant = g}
  <1>0. /\ DOMAIN custody' = DOMAIN custody \union {new} /\ DOMAIN custody = 1 .. new - 1
        /\ \A n \in DOMAIN custody : custody'[n] = custody[n]
        /\ custody'[new] = event /\ new \in Nat
    BY LedgerGrows
  <1>1. ASSUME NEW n \in DOMAIN custody, Keys!Ended(g, n)'
        PROVE  Keys!Ended(g, n)
    <2>1. PICK k \in 1 .. n - 1 : custody'[k].grant = g /\ custody'[k].type \in Keys!EndedStates
      BY <1>1 DEF Keys!Ended, Keys!EndedStates
    <2>2. k \in DOMAIN custody /\ custody'[k] = custody[k]
      BY <1>0
    <2>3. QED
      BY <2>1, <2>2 DEF Keys!Ended, Keys!EndedStates
  <1>2. QED
    BY <1>0, <1>1 DEF Keys!LateDisclosures

LEMMA HeldGrow ==
  ASSUME LedgerRows, NEW event, NEW new, Logged(event, new), NEW h, holds'[h].placed = holds[h].placed
  PROVE  Keys!HeldAccesses(h)' \subseteq Keys!HeldAccesses(h) \union
           {n \in {new} : event.type \in {"issued", "disclosed"}}
  <1>1. /\ DOMAIN custody' = DOMAIN custody \union {new}
        /\ \A n \in DOMAIN custody : custody'[n] = custody[n]
        /\ custody'[new] = event
    BY LedgerGrows
  <1>2. QED
    BY <1>1 DEF Keys!HeldAccesses

\* As many events of a type as there were, and the new one.
LEMMA EventsCounted ==
  ASSUME LedgerRows, NEW event, NEW new, Logged(event, new), NEW type
  PROVE  /\ Cardinality(Keys!OfType(type)) \in Nat
         /\ Cardinality(Keys!OfType(type))' = Cardinality(Keys!OfType(type)) + (IF event.type = type THEN 1 ELSE 0)
  <1>1. PICK old, all : old = Keys!OfType(type) /\ all = Keys!OfType(type)'
    OBVIOUS
  <1>2. /\ DOMAIN custody' = DOMAIN custody \union {new} /\ DOMAIN custody = 1 .. new - 1
        /\ \A n \in DOMAIN custody : custody'[n] = custody[n]
        /\ custody'[new] = event /\ new \notin DOMAIN custody /\ new \in Nat
    BY LedgerGrows
  <1>3. old \subseteq 1 .. new - 1 /\ new \notin old
    BY <1>1, <1>2 DEF Keys!OfType
  <1>4. IsFiniteSet(old) /\ Cardinality(old) \in Nat
    <2>1. IsFiniteSet(1 .. new - 1)
      BY <1>2, FS_Interval
    <2>2. IsFiniteSet(old)
      BY <1>3, <2>1, FS_Subset
    <2>3. QED
      BY <2>2, FS_CardinalityType
  <1>5. all = IF event.type = type THEN old \union {new} ELSE old
    BY <1>1, <1>2 DEF Keys!OfType
  <1>6. Cardinality(old \union {new}) = Cardinality(old) + 1
    BY <1>3, <1>4, FS_AddElement
  <1>7. Cardinality(all) = Cardinality(old) + (IF event.type = type THEN 1 ELSE 0)
    BY <1>4, <1>5, <1>6
  <1>8. QED
    BY <1>1, <1>4, <1>7

\* Until a grant ends nothing of it is late, when a hold is placed nothing is held yet.
LEMMA NoneLate ==
  ASSUME LedgerRows, NEW g, g \in DOMAIN grants => ~HasEnded(g)
  PROVE  Keys!LateDisclosures(g) = {}
  <1> SUFFICES ASSUME NEW n \in DOMAIN custody, Keys!Ended(g, n)
               PROVE  FALSE
    BY DEF Keys!LateDisclosures
  <1>1. PICK k \in 1 .. n - 1 : custody[k].grant = g /\ custody[k].type \in Keys!EndedStates
    BY DEF Keys!Ended
  <1>2. k \in DOMAIN custody
    BY Rows DEF LedgerRows
  <1>3. g \in DOMAIN grants /\ HasEnded(g)
    BY <1>1, <1>2 DEF LedgerRows, GrantEvents, Keys!EndedStates
  <1>4. QED
    BY <1>3

-----------------------------------------------------------------------------

LEMMA AskedStays ==
  ASSUME NEW f, Asked(f), DOMAIN grants \subseteq DOMAIN grants', DOMAIN holds \subseteq DOMAIN holds'
  PROVE  Asked(f)'
  BY DEF Asked

\* Those that disclose and those that proceed, when one request has another frame.
Discloses(f, g) == f.op \in {"disclose", "disclosing"} /\ f.grant = g
Proceeds(f) == f.op \in {"grant", "disclosing"}

LEMMA GoingOn ==
  ASSUME DOMAIN pc = Client, NEW c \in Client, NEW frame, pc' = [pc EXCEPT ![c] = frame]
  PROVE  /\ \A g : ~Discloses(frame, g) => Keys!Disclosing(g)' \subseteq Keys!Disclosing(g) \ {c}
         /\ \A g : c \in Keys!Disclosing(g) => Keys!Disclosing(g)' \subseteq Keys!Disclosing(g)
         /\ ~Proceeds(frame) => Keys!Proceeding' \subseteq Keys!Proceeding \ {c}
         /\ c \in Keys!Proceeding => Keys!Proceeding' \subseteq Keys!Proceeding
  <1>1. \A d \in Client : pc'[d] = IF d = c THEN frame ELSE pc[d]
    OBVIOUS
  <1>2. QED
    BY <1>1 DEF Keys!Disclosing, Keys!Proceeding, Discloses, Proceeds

LEMMA FramesAsked ==
  ASSUME KeysInv, NEW c \in Client, NEW frame, pc' = [pc EXCEPT ![c] = frame], Asked(frame),
         DOMAIN grants \subseteq DOMAIN grants', DOMAIN holds \subseteq DOMAIN holds'
  PROVE  DOMAIN pc' = Client /\ \A f \in Frames' : Asked(f)'
  <1>1. DOMAIN pc = Client
    BY DEF KeysInv
  <1>2. \A f \in Frames' : f = frame \/ f \in Frames
    BY <1>1 DEF Frames
  <1>3. ASSUME NEW f \in Frames'
        PROVE  Asked(f)'
    <2>1. Asked(f)
      BY <1>2 DEF KeysInv
    <2>2. QED
      BY <2>1, AskedStays
  <1>4. DOMAIN pc' = Client
    BY <1>1
  <1>5. QED
    BY <1>3, <1>4

\* A request goes on: a grant that has ended gets no new one, nor does anything new proceed under an active hold.
LEMMA KeysGo ==
  ASSUME KeysInv, NEW c \in Client, NEW frame, pc' = [pc EXCEPT ![c] = frame], Asked(frame),
         UNCHANGED <<grants, holds, custody, now>>, begun' \in Nat,
         \A g \in DOMAIN grants : HasEnded(g) => ~Discloses(frame, g) \/ c \in Keys!Disclosing(g),
         Keys!HasActiveHold => ~Proceeds(frame) \/ c \in Keys!Proceeding
  PROVE  KeysInv'
  <1>1. DOMAIN pc = Client
    BY DEF KeysInv
  <1>2. DOMAIN pc' = Client /\ \A f \in Frames' : Asked(f)'
    BY FramesAsked
  <1>3. \A g \in DOMAIN grants : HasEnded(g) => Keys!Disclosing(g)' \subseteq Keys!Disclosing(g)
    BY <1>1, GoingOn
  <1>4. Keys!HasActiveHold => Keys!Proceeding' \subseteq Keys!Proceeding
    BY <1>1, GoingOn
  <1>5. \A g : Keys!LateDisclosures(g)' = Keys!LateDisclosures(g) /\ Keys!HeldAccesses(g)' = Keys!HeldAccesses(g)
    BY DEF Keys!LateDisclosures, Keys!HeldAccesses, Keys!Ended
  <1>6. RevocationBound'
    <2> SUFFICES ASSUME NEW g \in DOMAIN grants, HasEnded(g)
                 PROVE  Within(Keys!LateDisclosures(g), Keys!Disclosing(g))'
      BY DEF RevocationBound, HasEnded
    <2>1. PICK done, going, more : /\ done = Keys!LateDisclosures(g) /\ going = Keys!Disclosing(g)
                                   /\ more = Keys!Disclosing(g)'
      OBVIOUS
    <2>2. Within(done, going) /\ more \subseteq going
      BY <1>3, <2>1 DEF KeysInv, RevocationBound
    <2>3. Within(done, more)
      BY <2>2, Fewer
    <2>4. QED
      BY <1>5, <2>1, <2>3 DEF Within
  <1>7. HoldBound'
    <2> SUFFICES ASSUME NEW h \in DOMAIN holds, holds[h].status = "active"
                 PROVE  Within(Keys!HeldAccesses(h), Keys!Proceeding)'
      BY DEF HoldBound
    <2>1. PICK done, going, more : /\ done = Keys!HeldAccesses(h) /\ going = Keys!Proceeding
                                   /\ more = Keys!Proceeding'
      OBVIOUS
    <2>2. Within(done, going) /\ more \subseteq going
      BY <1>4, <2>1 DEF KeysInv, HoldBound, Keys!HasActiveHold
    <2>3. Within(done, more)
      BY <2>2, Fewer
    <2>4. QED
      BY <1>5, <2>1, <2>3 DEF Within
  <1>8. LedgerRows' /\ HoldRows' /\ GrantRows'
    BY DEF KeysInv, LedgerRows, HoldRows, GrantRows, Released, HasEnded, Keys!OfType, Keys!ToldLast, Keys!Tells, Keys!Moves
  <1>9. now' \in Nat
    BY DEF KeysInv
  <1>10. QED
    BY <1>2, <1>6, <1>7, <1>8, <1>9 DEF KeysInv

LEMMA FramesStay ==
  ASSUME KeysInv, UNCHANGED pc, DOMAIN grants \subseteq DOMAIN grants', DOMAIN holds \subseteq DOMAIN holds'
  PROVE  DOMAIN pc' = Client /\ \A f \in Frames' : Asked(f)'
  <1>1. ASSUME NEW f \in Frames'
        PROVE  Asked(f)'
    <2>1. Asked(f)
      BY DEF KeysInv, Frames
    <2>2. QED
      BY <2>1, AskedStays
  <1>2. QED
    BY <1>1 DEF KeysInv

\* Nothing changes that the invariant is about.
LEMMA KeysStay ==
  ASSUME KeysInv, UNCHANGED <<grants, holds, custody, pc, begun>>, now' \in Nat
  PROVE  KeysInv'
  <1>1. /\ \A g : Keys!LateDisclosures(g)' = Keys!LateDisclosures(g) /\ Keys!HeldAccesses(g)' = Keys!HeldAccesses(g)
        /\ \A g : Keys!Disclosing(g)' = Keys!Disclosing(g)
        /\ Keys!Proceeding' = Keys!Proceeding
    BY DEF Keys!LateDisclosures, Keys!HeldAccesses, Keys!Ended, Keys!Disclosing, Keys!Proceeding
  <1>2. RevocationBound' /\ HoldBound'
    BY <1>1 DEF KeysInv, RevocationBound, HoldBound, HasEnded, Within
  <1>3. LedgerRows' /\ HoldRows' /\ GrantRows'
    BY DEF KeysInv, LedgerRows, HoldRows, GrantRows, Released, HasEnded, Keys!OfType, Keys!ToldLast, Keys!Tells, Keys!Moves
  <1>4. begun' \in Nat
    BY DEF KeysInv
  <1>5. QED
    BY <1>2, <1>3, <1>4, FramesStay DEF KeysInv

\* A request has committed its transaction.
LEMMA Commits ==
  ASSUME KeysInv, NEW c \in Client, pc' = [pc EXCEPT ![c] = Keys!Idle], UNCHANGED <<now, begun>>,
         DOMAIN grants \subseteq DOMAIN grants', DOMAIN holds \subseteq DOMAIN holds'
  PROVE  /\ DOMAIN pc' = Client /\ now' \in Nat /\ begun' \in Nat
         /\ \A f \in Frames' : Asked(f)'
         /\ \A g : Keys!Disclosing(g)' \subseteq Keys!Disclosing(g) \ {c}
         /\ Keys!Proceeding' \subseteq Keys!Proceeding \ {c}
  <1>1. PICK frame : frame = Keys!Idle
    OBVIOUS
  <1>2. Asked(frame) /\ (\A g : ~Discloses(frame, g)) /\ ~Proceeds(frame)
    BY <1>1 DEF Asked, Discloses, Proceeds, DisclosingOp, Keys!Idle
  <1>3. pc' = [pc EXCEPT ![c] = frame] /\ DOMAIN pc = Client /\ now \in Nat /\ begun \in Nat
    BY <1>1 DEF KeysInv
  <1>4. DOMAIN pc' = Client /\ \A f \in Frames' : Asked(f)'
    BY <1>2, <1>3, FramesAsked
  <1>5. /\ \A g : ~Discloses(frame, g) => Keys!Disclosing(g)' \subseteq Keys!Disclosing(g) \ {c}
        /\ ~Proceeds(frame) => Keys!Proceeding' \subseteq Keys!Proceeding \ {c}
    BY <1>3, GoingOn
  <1>6. QED
    BY <1>2, <1>3, <1>4, <1>5

LEMMA LedgerStays ==
  ASSUME LedgerRows, NEW event, NEW new, Logged(event, new),
         DOMAIN grants \subseteq DOMAIN grants',
         \A g \in DOMAIN grants : HasEnded(g) => HasEnded(g)',
         event.type \in GrantEvents => event.grant \in DOMAIN grants',
         event.type \in Keys!EndedStates => HasEnded(event.grant)'
  PROVE  LedgerRows'
  <1>1. /\ custody' \in Seq(Event)
        /\ DOMAIN custody' = DOMAIN custody \union {new}
        /\ \A n \in DOMAIN custody : custody'[n] = custody[n]
        /\ custody'[new] = event
    BY LedgerGrows
  <1>2. ASSUME NEW n \in DOMAIN custody
        PROVE  /\ custody'[n].type \in GrantEvents => custody'[n].grant \in DOMAIN grants'
               /\ custody'[n].type \in Keys!EndedStates => HasEnded(custody[n].grant)'
    <2>1. PICK g : g = custody[n].grant
      OBVIOUS
    <2>2. custody[n].type \in Keys!EndedStates => g \in DOMAIN grants /\ HasEnded(g)
      BY <2>1 DEF LedgerRows, Keys!EndedStates, GrantEvents
    <2>3. custody[n].type \in Keys!EndedStates => HasEnded(g)'
      BY <2>2
    <2>4. g = custody'[n].grant
      BY <1>1, <2>1
    <2>5. QED
      BY <1>1, <2>1, <2>3, <2>4 DEF LedgerRows
  <1>3. \A n \in DOMAIN custody' :
          /\ custody'[n].type \in GrantEvents => custody'[n].grant \in DOMAIN grants'
          /\ custody'[n].type \in Keys!EndedStates => grants'[custody'[n].grant].status \in Keys!EndedStates
    BY <1>1, <1>2 DEF HasEnded, Keys!EndedStates
  <1>4. QED
    BY <1>1, <1>3 DEF LedgerRows, HasEnded, Keys!EndedStates

LEMMA ToldStays ==
  ASSUME LedgerRows, NEW event, NEW new, Logged(event, new), NEW g, Keys!ToldLast(g),
         event.type \notin DOMAIN Keys!StatusOf \/ event.grant # g, grants'[g].status = grants[g].status
  PROVE  Keys!ToldLast(g)'
  <1>1. Keys!Moves(g)' = Keys!Moves(g)
    <2>1. Keys!Moves(g)' = Keys!Moves(g) \union {n \in {new} : event.type \in DOMAIN Keys!StatusOf /\ event.grant = g}
      BY MovesGrow
    <2>2. QED
      BY <2>1
  <1>2. PICK n \in Keys!Moves(g) : /\ Keys!StatusOf[custody[n].type] = grants[g].status
                                   /\ \A m \in Keys!Moves(g) : m <= n
    BY DEF Keys!ToldLast, Keys!Tells
  <1>3. custody'[n] = custody[n]
    <2>1. \A m \in DOMAIN custody : custody'[m] = custody[m]
      BY LedgerGrows
    <2>2. QED
      BY <2>1 DEF Keys!Moves
  <1>4. QED
    BY <1>1, <1>2, <1>3 DEF Keys!ToldLast, Keys!Tells, Keys!StatusOf

LEMMA ToldNow ==
  ASSUME LedgerRows, NEW event, NEW new, Logged(event, new), NEW g,
         event.type \in DOMAIN Keys!StatusOf, event.grant = g, grants'[g].status = Keys!StatusOf[event.type]
  PROVE  Keys!ToldLast(g)'
  <1>1. Keys!Moves(g)' = Keys!Moves(g) \union {new}
    BY MovesGrow
  <1>2. custody'[new] = event /\ new \in Nat /\ \A n \in DOMAIN custody : n \in Nat /\ n < new
    BY LedgerGrows
  <1>3. \A m \in Keys!Moves(g)' : m <= new
    BY <1>1, <1>2 DEF Keys!Moves
  <1>4. QED
    BY <1>1, <1>2, <1>3 DEF Keys!ToldLast, Keys!Tells, Keys!StatusOf

LEMMA HoldRowsStay ==
  ASSUME LedgerRows, HoldRows, NEW event, NEW new, Logged(event, new), event.type \notin HoldEvents, UNCHANGED holds
  PROVE  HoldRows'
  <1>1. PICK placed, released : placed = "hold_placed" /\ released = "hold_released"
    OBVIOUS
  <1>2. event.type # placed /\ event.type # released
    BY <1>1 DEF HoldEvents
  <1>3. /\ Cardinality(Keys!OfType(placed)) \in Nat /\ Cardinality(Keys!OfType(released)) \in Nat
        /\ Cardinality(Keys!OfType(placed))' = Cardinality(Keys!OfType(placed)) + (IF event.type = placed THEN 1 ELSE 0)
        /\ Cardinality(Keys!OfType(released))' =
             Cardinality(Keys!OfType(released)) + (IF event.type = released THEN 1 ELSE 0)
    BY EventsCounted
  <1>4. /\ Cardinality(Keys!OfType(placed))' = Cardinality(Keys!OfType(placed))
        /\ Cardinality(Keys!OfType(released))' = Cardinality(Keys!OfType(released))
    BY <1>2, <1>3
  <1>5. Released' = Released
    BY DEF Released
  <1>6. QED
    BY <1>1, <1>4, <1>5 DEF HoldRows

\* What has ended had, or nothing of it is late yet.
LEMMA RevocationStays ==
  ASSUME KeysInv, NEW event, NEW new, Logged(event, new), event.type # "disclosed",
         \A g : Keys!Disclosing(g)' \subseteq Keys!Disclosing(g)
  PROVE  RevocationBound'
  <1> SUFFICES ASSUME NEW g
               PROVE  Within(Keys!LateDisclosures(g), Keys!Disclosing(g))'
    BY DEF RevocationBound
  <1>1. PICK done, going, late, more : /\ done = Keys!LateDisclosures(g) /\ going = Keys!Disclosing(g)
                                       /\ late = Keys!LateDisclosures(g)' /\ more = Keys!Disclosing(g)'
    OBVIOUS
  <1>2. LedgerRows
    BY DEF KeysInv
  <1>3. late \subseteq done /\ more \subseteq going
    BY <1>1, <1>2, LateGrow
  <1>4. Within(done, going)
    <2>1. CASE g \in DOMAIN grants /\ HasEnded(g)
      BY <1>1, <2>1 DEF KeysInv, RevocationBound
    <2>2. CASE ~(g \in DOMAIN grants /\ HasEnded(g))
      <3>1. done = {}
        BY <1>1, <1>2, <2>2, NoneLate
      <3>2. going \subseteq Client
        BY <1>1 DEF Keys!Disclosing
      <3>3. QED
        BY <3>1, <3>2, NoneDone
    <2>3. QED
      BY <2>1, <2>2
  <1>5. Within(late, more)
    BY <1>3, <1>4, Fewer
  <1>6. QED
    BY <1>1, <1>5 DEF Within

\* One hold stays as it is while something is logged that a hold does not stop.
LEMMA HoldStays ==
  ASSUME KeysInv, NEW event, NEW new, Logged(event, new), event.type \notin {"issued", "disclosed"},
         Keys!Proceeding' \subseteq Keys!Proceeding,
         NEW h \in DOMAIN holds, holds[h].status = "active", holds'[h].placed = holds[h].placed
  PROVE  Within(Keys!HeldAccesses(h), Keys!Proceeding)'
  <1>1. PICK done, going, held, more : /\ done = Keys!HeldAccesses(h) /\ going = Keys!Proceeding
                                       /\ held = Keys!HeldAccesses(h)' /\ more = Keys!Proceeding'
    OBVIOUS
  <1>2. LedgerRows
    BY DEF KeysInv
  <1>3. held \subseteq done /\ more \subseteq going
    BY <1>1, <1>2, HeldGrow
  <1>4. Within(done, going)
    BY <1>1 DEF KeysInv, HoldBound
  <1>5. Within(held, more)
    BY <1>3, <1>4, Fewer
  <1>6. QED
    BY <1>1, <1>5 DEF Within

\* A request that has looked for holds is carried out.
LEMMA HoldPasses ==
  ASSUME KeysInv, NEW event, NEW new, Logged(event, new), NEW c \in Keys!Proceeding,
         Keys!Proceeding' \subseteq Keys!Proceeding \ {c}, UNCHANGED holds
  PROVE  HoldBound'
  <1> SUFFICES ASSUME NEW h \in DOMAIN holds, holds[h].status = "active"
               PROVE  Within(Keys!HeldAccesses(h), Keys!Proceeding)'
    BY DEF HoldBound
  <1>1. PICK done, going, held, more : /\ done = Keys!HeldAccesses(h) /\ going = Keys!Proceeding
                                       /\ held = Keys!HeldAccesses(h)' /\ more = Keys!Proceeding'
    OBVIOUS
  <1>2. held \subseteq done \union {new} /\ more \subseteq going \ {c} /\ c \in going
    <2>1. LedgerRows
      BY DEF KeysInv
    <2>2. QED
      BY <1>1, <2>1, HeldGrow
  <1>3. Within(done, going)
    BY <1>1 DEF KeysInv, HoldBound
  <1>4. Within(held, more)
    <2>1. held \in SUBSET (done \union {new}) /\ more \in SUBSET (going \ {c}) /\ c \in going
      BY <1>2
    <2>2. QED
      BY <1>3, <2>1, OneDone
  <1>5. QED
    BY <1>1, <1>4 DEF Within

-----------------------------------------------------------------------------

\* A grant is inserted as active, with the event that says so; a hold stops it only when the grant is not taken.
LEMMA GrantIsInserted ==
  ASSUME KeysInv, NEW c \in Client, NEW f \in Frames, f = pc[c], f.op \in {"grant", "emergency"}, f.begun # None,
         NEW type, type = (IF f.op = "grant" THEN "issued" ELSE "emergency_access"),
         grants' = Append(grants, f.row),
         custody' = Append(custody, [type |-> type, grant |-> Len(grants'), created |-> f.begun]),
         pc' = [pc EXCEPT ![c] = Keys!Idle], UNCHANGED <<holds, now, begun>>
  PROVE  KeysInv'
  <1>1. LedgerRows /\ HoldRows /\ grants \in Seq(GrantRow) /\ \A g \in DOMAIN grants : Keys!ToldLast(g)
    BY DEF KeysInv, GrantRows
  <1>2. PICK g : g = Len(grants) + 1
    OBVIOUS
  <1>3. PICK row : row = f.row
    OBVIOUS
  <1>4. row \in GrantRow /\ row.status = "active" /\ f.begun \in Nat
    BY <1>3 DEF KeysInv, Asked, Granting
  <1>5. /\ grants' \in Seq(GrantRow) /\ Len(grants') = g /\ g \in Nat /\ g \notin DOMAIN grants
        /\ DOMAIN grants' = DOMAIN grants \union {g}
        /\ \A h \in DOMAIN grants : grants'[h] = grants[h]
        /\ grants'[g] = row
    BY <1>1, <1>2, <1>3, <1>4, Inserted, Rows
  <1>6. PICK event : event = [type |-> type, grant |-> g, created |-> f.begun]
    OBVIOUS
  <1>7. PICK new : new = Len(custody) + 1
    OBVIOUS
  <1>8. /\ Logged(event, new) /\ event.type = type /\ event.grant = g
        /\ event.type \in GrantEvents /\ event.type \notin HoldEvents /\ event.type \notin Keys!EndedStates
        /\ event.type \in DOMAIN Keys!StatusOf /\ Keys!StatusOf[event.type] = "active"
        /\ event.type # "disclosed"
    BY <1>4, <1>5, <1>6, <1>7 DEF Logged, Event, GrantEvents, HoldEvents, Keys!EndedStates, Keys!StatusOf
  <1>9. \A h \in DOMAIN grants : HasEnded(h) => HasEnded(h)'
    BY <1>5 DEF HasEnded, Keys!EndedStates
  <1>10. LedgerRows'
    BY <1>1, <1>5, <1>8, <1>9, LedgerStays
  <1>11. Keys!ToldLast(g)'
    BY <1>1, <1>4, <1>5, <1>8, ToldNow
  <1>12. ASSUME NEW h \in DOMAIN grants
         PROVE  Keys!ToldLast(h)'
    BY <1>1, <1>5, <1>8, ToldStays
  <1>13. GrantRows'
    BY <1>5, <1>11, <1>12 DEF GrantRows
  <1>14. HoldRows'
    BY <1>1, <1>8, HoldRowsStay
  <1>15. DOMAIN grants \subseteq DOMAIN grants'
    BY <1>5
  <1>16. /\ DOMAIN pc' = Client /\ now' \in Nat /\ begun' \in Nat /\ \A e \in Frames' : Asked(e)'
         /\ \A h : Keys!Disclosing(h)' \subseteq Keys!Disclosing(h) \ {c}
         /\ Keys!Proceeding' \subseteq Keys!Proceeding \ {c}
    BY <1>15, Commits
  <1>17. RevocationBound'
    BY <1>8, <1>16, RevocationStays
  <1>18. HoldBound'
    <2>1. CASE f.op = "grant"
      <3>1. c \in Keys!Proceeding
        BY <2>1 DEF Keys!Proceeding
      <3>2. QED
        BY <1>8, <1>16, <3>1, HoldPasses
    <2>2. CASE f.op # "grant"
      <3>1. event.type \notin {"issued", "disclosed"}
        BY <1>8, <2>2
      <3>2. \A h \in DOMAIN holds : holds[h].status = "active" => Within(Keys!HeldAccesses(h), Keys!Proceeding)'
        BY <1>8, <1>16, <3>1, HoldStays
      <3>3. QED
        BY <3>2 DEF HoldBound
    <2>3. QED
      BY <2>1, <2>2
  <1>19. QED
    BY <1>10, <1>13, <1>14, <1>16, <1>17, <1>18 DEF KeysInv

\* A grant that is acknowledged, returned or revoked, with the event that says so.
LEMMA GrantMoves ==
  ASSUME KeysInv, NEW c \in Client, NEW g \in DOMAIN grants, NEW created \in Nat,
         NEW status \in {"acknowledged", "returned", "revoked"},
         status = "acknowledged" => grants[g].status = "active",
         grants' = [grants EXCEPT ![g].status = status],
         custody' = Append(custody, [type |-> status, grant |-> g, created |-> created]),
         pc' = [pc EXCEPT ![c] = Keys!Idle], UNCHANGED <<holds, now, begun>>
  PROVE  KeysInv'
  <1>1. LedgerRows /\ HoldRows /\ grants \in Seq(GrantRow) /\ \A h \in DOMAIN grants : Keys!ToldLast(h)
    BY DEF KeysInv, GrantRows
  <1>2. PICK row : row = [grants[g] EXCEPT !.status = status]
    OBVIOUS
  <1>3. grants[g] \in GrantRow
    BY <1>1, Rows
  <1>4. row \in GrantRow /\ row.status = status
    BY <1>2, <1>3 DEF GrantRow, Keys!LiveStates, Keys!EndedStates
  <1>5. /\ grants' \in Seq(GrantRow) /\ DOMAIN grants' = DOMAIN grants
        /\ \A h \in DOMAIN grants : grants'[h] = IF h = g THEN row ELSE grants[h]
    <2>1. grants' = [grants EXCEPT ![g] = row]
      BY <1>2
    <2>2. /\ [grants EXCEPT ![g] = row] \in Seq(GrantRow)
          /\ DOMAIN [grants EXCEPT ![g] = row] = DOMAIN grants
          /\ \A h \in DOMAIN grants : [grants EXCEPT ![g] = row][h] = IF h = g THEN row ELSE grants[h]
      BY <1>1, <1>4, Updated
    <2>3. QED
      BY <2>1, <2>2
  <1>6. PICK event : event = [type |-> status, grant |-> g, created |-> created]
    OBVIOUS
  <1>7. PICK new : new = Len(custody) + 1
    OBVIOUS
  <1>8. g \in Nat
    BY <1>1, Rows
  <1>9. /\ Logged(event, new) /\ event.type = status /\ event.grant = g
        /\ event.type \in GrantEvents /\ event.type \notin HoldEvents
        /\ event.type \in Keys!EndedStates => status \in Keys!EndedStates
        /\ event.type \in DOMAIN Keys!StatusOf /\ Keys!StatusOf[event.type] = status
    BY <1>6, <1>7, <1>8 DEF Logged, Event, GrantEvents, HoldEvents, Keys!EndedStates, Keys!StatusOf
  <1>10. \A h \in DOMAIN grants : HasEnded(h) => HasEnded(h)'
    BY <1>4, <1>5 DEF HasEnded, Keys!EndedStates
  <1>11. event.type \in Keys!EndedStates => HasEnded(g)'
    BY <1>4, <1>5, <1>9 DEF HasEnded, Keys!EndedStates
  <1>12. LedgerRows'
    BY <1>1, <1>5, <1>9, <1>10, <1>11, LedgerStays
  <1>13. Keys!ToldLast(g)'
    BY <1>1, <1>4, <1>5, <1>9, ToldNow
  <1>14. ASSUME NEW h \in DOMAIN grants, h # g
         PROVE  Keys!ToldLast(h)'
    BY <1>1, <1>5, <1>9, <1>14, ToldStays
  <1>15. GrantRows'
    BY <1>5, <1>13, <1>14 DEF GrantRows
  <1>16. HoldRows'
    BY <1>1, <1>9, HoldRowsStay
  <1>17. /\ DOMAIN pc' = Client /\ now' \in Nat /\ begun' \in Nat /\ \A f \in Frames' : Asked(f)'
         /\ \A h : Keys!Disclosing(h)' \subseteq Keys!Disclosing(h) \ {c}
         /\ Keys!Proceeding' \subseteq Keys!Proceeding \ {c}
    BY <1>5, Commits
  <1>18. event.type # "disclosed" /\ event.type \notin {"issued", "disclosed"}
    BY <1>9
  <1>19. RevocationBound'
    BY <1>9, <1>17, <1>18, RevocationStays
  <1>20. \A h \in DOMAIN holds : holds[h].status = "active" => Within(Keys!HeldAccesses(h), Keys!Proceeding)'
    BY <1>9, <1>17, <1>18, HoldStays
  <1>21. HoldBound'
    BY <1>20 DEF HoldBound
  <1>22. QED
    BY <1>12, <1>15, <1>16, <1>17, <1>19, <1>21 DEF KeysInv

\* The rest of the invariant when a hold is placed or released, with an event that does not say which.
LEMMA HoldMoves ==
  ASSUME KeysInv, NEW c \in Client, NEW event, NEW new, Logged(event, new), event.type \in HoldEvents,
         HoldRows', HoldBound', pc' = [pc EXCEPT ![c] = Keys!Idle], UNCHANGED <<grants, now, begun>>,
         DOMAIN holds \subseteq DOMAIN holds'
  PROVE  KeysInv'
  <1>1. LedgerRows /\ GrantRows
    BY DEF KeysInv
  <1>2. /\ event.type \notin GrantEvents /\ event.type \notin Keys!EndedStates
        /\ event.type \notin DOMAIN Keys!StatusOf /\ event.type # "disclosed"
    BY DEF GrantEvents, HoldEvents, Keys!EndedStates, Keys!StatusOf
  <1>3. \A g \in DOMAIN grants : HasEnded(g) => HasEnded(g)'
    BY DEF HasEnded, Keys!EndedStates
  <1>4. LedgerRows'
    BY <1>1, <1>2, <1>3, LedgerStays
  <1>5. ASSUME NEW g \in DOMAIN grants
        PROVE  Keys!ToldLast(g)'
    BY <1>1, <1>2, ToldStays DEF GrantRows
  <1>6. GrantRows'
    BY <1>1, <1>5 DEF GrantRows
  <1>7. /\ DOMAIN pc' = Client /\ now' \in Nat /\ begun' \in Nat /\ \A f \in Frames' : Asked(f)'
        /\ \A g : Keys!Disclosing(g)' \subseteq Keys!Disclosing(g) \ {c}
    BY Commits
  <1>8. RevocationBound'
    BY <1>2, <1>7, RevocationStays
  <1>9. QED
    BY <1>4, <1>6, <1>7, <1>8 DEF KeysInv

LEMMA HoldIsPlaced ==
  ASSUME KeysInv, NEW c \in Client, Keys!PlaceHold(c)
  PROVE  KeysInv'
  <1>1. PICK f \in Frames : f = pc[c]
    BY DEF Frames
  <1>2. PICK type, h, at : type = "hold_placed" /\ h = Len(holds) + 1 /\ at = Len(custody) + 1
    OBVIOUS
  <1>3. PICK row : row = [status |-> "active", placed |-> at]
    OBVIOUS
  <1>4. PICK event : event = [type |-> type, grant |-> None, created |-> f.begun]
    OBVIOUS
  <1>5. /\ f.op = "place" /\ holds' = Append(holds, row) /\ custody' = Append(custody, event)
        /\ pc' = [pc EXCEPT ![c] = Keys!Idle] /\ UNCHANGED <<grants, now, begun>>
    BY <1>1, <1>2, <1>3, <1>4 DEF Keys!PlaceHold, Keys!Under, Keys!InsertHold, Keys!InsertCustodyEvent, Keys!Done
  <1>6. f.begun \in Nat /\ LedgerRows /\ HoldRows
    BY <1>5 DEF KeysInv, Asked
  <1>7. Len(custody) \in Nat /\ at \in Nat
    BY <1>2, <1>6, Rows DEF LedgerRows
  <1>8. Logged(event, at) /\ event.type = type /\ event.type \in HoldEvents
    BY <1>2, <1>4, <1>5, <1>6 DEF Logged, Event, HoldEvents
  <1>9. row \in HoldRow
    BY <1>3, <1>7 DEF HoldRow
  <1>10. /\ holds' \in Seq(HoldRow) /\ Len(holds') = h /\ Len(holds) \in Nat
         /\ h \notin DOMAIN holds /\ DOMAIN holds' = DOMAIN holds \union {h}
         /\ \A k \in DOMAIN holds : holds'[k] = holds[k]
         /\ holds'[h] = row
    BY <1>2, <1>5, <1>6, <1>9, Inserted, Rows DEF HoldRows
  <1>11. HoldRows'
    <2>1. PICK released : released = "hold_released"
      OBVIOUS
    <2>2. /\ Cardinality(Keys!OfType(type)) \in Nat /\ Cardinality(Keys!OfType(released)) \in Nat
          /\ Cardinality(Keys!OfType(type))' = Cardinality(Keys!OfType(type)) + (IF event.type = type THEN 1 ELSE 0)
          /\ Cardinality(Keys!OfType(released))' =
               Cardinality(Keys!OfType(released)) + (IF event.type = released THEN 1 ELSE 0)
      BY <1>6, <1>8, EventsCounted
    <2>3. event.type # released
      BY <1>2, <1>8, <2>1
    <2>4. Cardinality(Keys!OfType(released))' = Cardinality(Keys!OfType(released))
      BY <2>2, <2>3
    <2>5. Cardinality(Keys!OfType(type))' = Len(holds')
      <3>1. Cardinality(Keys!OfType(type)) = Len(holds)
        BY <1>2, <1>6 DEF HoldRows
      <3>2. QED
        BY <1>2, <1>8, <1>10, <2>2, <3>1
    <2>6. Released' = Released
      BY <1>3, <1>10 DEF Released
    <2>7. QED
      BY <1>2, <1>6, <1>10, <2>1, <2>4, <2>5, <2>6 DEF HoldRows
  <1>12. HoldBound'
    <2>1. Keys!Proceeding' \subseteq Keys!Proceeding /\ Keys!Proceeding' \subseteq Client
      BY <1>5, <1>10, Commits DEF Keys!Proceeding
    <2>2. event.type \notin {"issued", "disclosed"}
      BY <1>8 DEF HoldEvents
    <2>3. ASSUME NEW k \in DOMAIN holds, holds[k].status = "active"
          PROVE  Within(Keys!HeldAccesses(k), Keys!Proceeding)'
      BY <1>8, <1>10, <2>1, <2>2, <2>3, HoldStays
    <2>4. Within(Keys!HeldAccesses(h), Keys!Proceeding)'
      <3>1. PICK held, more : held = Keys!HeldAccesses(h)' /\ more = Keys!Proceeding'
        OBVIOUS
      <3>2. \A n \in DOMAIN custody' : ~(n > at)
        <4>1. DOMAIN custody' = DOMAIN custody \union {at} /\ DOMAIN custody = 1 .. at - 1
          BY <1>6, <1>8, LedgerGrows
        <4>2. QED
          BY <1>7, <4>1
      <3>3. held = {}
        BY <1>3, <1>10, <3>1, <3>2 DEF Keys!HeldAccesses
      <3>4. Within(held, more)
        BY <2>1, <3>1, <3>3, NoneDone
      <3>5. QED
        BY <3>1, <3>4 DEF Within
    <2>5. QED
      BY <1>10, <2>3, <2>4 DEF HoldBound
  <1>13. QED
    BY <1>5, <1>8, <1>10, <1>11, <1>12, HoldMoves

LEMMA HoldIsReleased ==
  ASSUME KeysInv, NEW c \in Client, Keys!ReleaseHold(c)
  PROVE  KeysInv'
  <1>1. PICK f \in Frames : f = pc[c]
    BY DEF Frames
  <1>2. PICK type, h, new : type = "hold_released" /\ h = f.hold /\ new = Len(custody) + 1
    OBVIOUS
  <1>3. PICK event : event = [type |-> type, grant |-> None, created |-> f.begun]
    OBVIOUS
  <1>4. /\ f.op = "release" /\ holds[h].status = "active" /\ holds' = [holds EXCEPT ![h].status = "released"]
        /\ custody' = Append(custody, event)
        /\ pc' = [pc EXCEPT ![c] = Keys!Idle] /\ UNCHANGED <<grants, now, begun>>
    BY <1>1, <1>2, <1>3 DEF Keys!ReleaseHold, Keys!Under, Keys!ReleaseActiveHold, Keys!InsertCustodyEvent, Keys!Done
  <1>5. f.begun \in Nat /\ LedgerRows /\ HoldRows
    BY <1>4 DEF KeysInv, Asked
  <1>6. Logged(event, new) /\ event.type = type /\ event.type \in HoldEvents
    BY <1>2, <1>3, <1>4, <1>5 DEF Logged, Event, HoldEvents
  <1>7. h \in DOMAIN holds
    BY <1>2, <1>4 DEF KeysInv, Asked
  <1>8. PICK row : row = [holds[h] EXCEPT !.status = "released"]
    OBVIOUS
  <1>9. row \in HoldRow /\ row.status = "released" /\ row.placed = holds[h].placed
    <2>1. holds[h] \in HoldRow
      BY <1>5, <1>7, Rows DEF HoldRows
    <2>2. QED
      BY <1>8, <2>1 DEF HoldRow
  <1>10. /\ holds' \in Seq(HoldRow) /\ Len(holds') = Len(holds) /\ DOMAIN holds' = DOMAIN holds
         /\ \A k \in DOMAIN holds : holds'[k] = IF k = h THEN row ELSE holds[k]
    <2>1. holds' = [holds EXCEPT ![h] = row]
      BY <1>4, <1>8
    <2>2. /\ [holds EXCEPT ![h] = row] \in Seq(HoldRow)
          /\ Len([holds EXCEPT ![h] = row]) = Len(holds)
          /\ DOMAIN [holds EXCEPT ![h] = row] = DOMAIN holds
          /\ \A k \in DOMAIN holds : [holds EXCEPT ![h] = row][k] = IF k = h THEN row ELSE holds[k]
      BY <1>5, <1>7, <1>9, Updated DEF HoldRows
    <2>3. QED
      BY <2>1, <2>2
  <1>11. HoldRows'
    <2>1. PICK placed : placed = "hold_placed"
      OBVIOUS
    <2>2. /\ Cardinality(Keys!OfType(type)) \in Nat /\ Cardinality(Keys!OfType(placed)) \in Nat
          /\ Cardinality(Keys!OfType(type))' = Cardinality(Keys!OfType(type)) + (IF event.type = type THEN 1 ELSE 0)
          /\ Cardinality(Keys!OfType(placed))' =
               Cardinality(Keys!OfType(placed)) + (IF event.type = placed THEN 1 ELSE 0)
      BY <1>5, <1>6, EventsCounted
    <2>3. event.type # placed
      BY <1>2, <1>6, <2>1
    <2>4. Cardinality(Keys!OfType(placed))' = Cardinality(Keys!OfType(placed))
      BY <2>2, <2>3
    <2>5. PICK old, all : old = Released /\ all = Released'
      OBVIOUS
    <2>6. IsFiniteSet(old) /\ h \notin old
      <3>1. Len(holds) \in Nat /\ DOMAIN holds = 1 .. Len(holds)
        BY <1>5, Rows DEF HoldRows
      <3>2. IsFiniteSet(1 .. Len(holds))
        BY <3>1, FS_Interval
      <3>3. old \subseteq 1 .. Len(holds)
        BY <2>5, <3>1 DEF Released
      <3>4. IsFiniteSet(old)
        BY <3>2, <3>3, FS_Subset
      <3>5. h \notin old
        BY <1>4, <2>5 DEF Released
      <3>6. QED
        BY <3>4, <3>5
    <2>7. all = old \union {h}
      BY <1>7, <1>9, <1>10, <2>5 DEF Released
    <2>8. Cardinality(all) = Cardinality(old) + 1
      BY <2>6, <2>7, FS_AddElement
    <2>9. Cardinality(Keys!OfType(type))' = Cardinality(Released)'
      <3>1. Cardinality(Keys!OfType(type)) = Cardinality(Released)
        BY <1>2, <1>5 DEF HoldRows
      <3>2. QED
        BY <1>6, <2>2, <2>5, <2>8, <3>1
    <2>10. QED
      BY <1>2, <1>5, <1>10, <2>1, <2>4, <2>9 DEF HoldRows
  <1>12. HoldBound'
    <2>1. Keys!Proceeding' \subseteq Keys!Proceeding
      BY <1>4, <1>10, Commits
    <2>2. event.type \notin {"issued", "disclosed"}
      BY <1>6 DEF HoldEvents
    <2>3. ASSUME NEW k \in DOMAIN holds, holds'[k].status = "active"
          PROVE  Within(Keys!HeldAccesses(k), Keys!Proceeding)'
      <3>1. holds[k].status = "active" /\ holds'[k].placed = holds[k].placed
        BY <1>9, <1>10, <2>3
      <3>2. QED
        BY <1>6, <2>1, <2>2, <3>1, HoldStays
    <2>4. QED
      BY <1>10, <2>3 DEF HoldBound
  <1>13. QED
    BY <1>4, <1>6, <1>10, <1>11, <1>12, HoldMoves

\* A secret is disclosed: one request less is about to, one disclosure more may be late.
LEMMA SecretIsDisclosed ==
  ASSUME KeysInv, NEW c \in Client, Keys!DiscloseSecret(c)
  PROVE  KeysInv'
  <1>1. PICK f \in Frames : f = pc[c]
    BY DEF Frames
  <1>2. PICK event, new : /\ event = [type |-> "disclosed", grant |-> f.grant, created |-> f.begun]
                          /\ new = Len(custody) + 1
    OBVIOUS
  <1>3. /\ f.op = "disclosing" /\ f.begun # None /\ custody' = Append(custody, event)
        /\ pc' = [pc EXCEPT ![c] = Keys!Idle] /\ UNCHANGED <<grants, holds, now, begun>>
    BY <1>1, <1>2 DEF Keys!DiscloseSecret, Keys!Under, Keys!InsertCustodyEvent, Keys!Done
  <1>4. f.grant \in DOMAIN grants /\ f.grant \in Nat /\ f.begun \in Nat
    BY <1>3 DEF KeysInv, Asked, Disclosure, DisclosingOp
  <1>5. /\ Logged(event, new) /\ event.type = "disclosed" /\ event.grant = f.grant
        /\ event.type \in GrantEvents /\ event.type \notin HoldEvents /\ event.type \notin Keys!EndedStates
        /\ event.type \notin DOMAIN Keys!StatusOf
    BY <1>2, <1>3, <1>4 DEF Logged, Event, GrantEvents, HoldEvents, Keys!EndedStates, Keys!StatusOf
  <1>6. LedgerRows /\ HoldRows /\ GrantRows
    BY DEF KeysInv
  <1>7. \A g \in DOMAIN grants : HasEnded(g) => HasEnded(g)'
    BY <1>3 DEF HasEnded, Keys!EndedStates
  <1>8. LedgerRows'
    BY <1>3, <1>4, <1>5, <1>6, <1>7, LedgerStays
  <1>9. ASSUME NEW g \in DOMAIN grants
        PROVE  Keys!ToldLast(g)'
    BY <1>3, <1>5, <1>6, ToldStays DEF GrantRows
  <1>10. GrantRows'
    BY <1>3, <1>6, <1>9 DEF GrantRows
  <1>11. HoldRows'
    BY <1>3, <1>5, <1>6, HoldRowsStay
  <1>12. /\ DOMAIN pc' = Client /\ now' \in Nat /\ begun' \in Nat /\ \A e \in Frames' : Asked(e)'
         /\ \A g : Keys!Disclosing(g)' \subseteq Keys!Disclosing(g) \ {c}
         /\ Keys!Proceeding' \subseteq Keys!Proceeding \ {c}
    BY <1>3, Commits
  <1>13. c \in Keys!Proceeding /\ c \in Keys!Disclosing(f.grant)
    BY <1>1, <1>3 DEF Keys!Proceeding, Keys!Disclosing
  <1>14. HoldBound'
    BY <1>3, <1>5, <1>12, <1>13, HoldPasses
  <1>15. RevocationBound'
    <2> SUFFICES ASSUME NEW g \in DOMAIN grants, HasEnded(g)
                 PROVE  Within(Keys!LateDisclosures(g), Keys!Disclosing(g))'
      BY <1>3 DEF RevocationBound, HasEnded, Keys!EndedStates
    <2>1. PICK done, going, late, more : /\ done = Keys!LateDisclosures(g) /\ going = Keys!Disclosing(g)
                                         /\ late = Keys!LateDisclosures(g)' /\ more = Keys!Disclosing(g)'
      OBVIOUS
    <2>2. Within(done, going)
      BY <2>1 DEF KeysInv, RevocationBound
    <2>3. late \subseteq done \union {n \in {new} : event.type = "disclosed" /\ event.grant = g}
      BY <1>5, <1>6, <2>1, LateGrow
    <2>4. more \subseteq going \ {c}
      BY <1>12, <2>1
    <2>5. CASE g = f.grant
      <3>1. late \in SUBSET (done \union {new}) /\ more \in SUBSET (going \ {c}) /\ c \in going
        BY <1>13, <2>1, <2>3, <2>4, <2>5
      <3>2. Within(late, more)
        BY <2>2, <3>1, OneDone
      <3>3. QED
        BY <2>1, <3>2 DEF Within
    <2>6. CASE g # f.grant
      <3>1. late \in SUBSET done /\ more \in SUBSET going
        BY <1>5, <2>3, <2>4, <2>6
      <3>2. Within(late, more)
        BY <2>2, <3>1, Fewer
      <3>3. QED
        BY <2>1, <3>2 DEF Within
    <2>7. QED
      BY <2>5, <2>6
  <1>16. QED
    BY <1>8, <1>10, <1>11, <1>12, <1>14, <1>15 DEF KeysInv

\* Holds are looked up once more, for a disclosure that is not refused otherwise.
LEMMA HoldIsChecked ==
  ASSUME KeysInv, NEW c \in Client, Keys!CheckHold(c)
  PROVE  KeysInv'
  <1>1. PICK f \in Frames : f = pc[c]
    BY DEF Frames
  <1>2. PICK frame : frame = IF Keys!HasActiveHold THEN [f EXCEPT !.op = "record", !.result = "held"]
                                                   ELSE [f EXCEPT !.op = "disclosing"]
    OBVIOUS
  <1>3. f.op = "disclose" /\ UNCHANGED <<grants, holds, custody, now, begun>>
    BY <1>1 DEF Keys!CheckHold, Keys!tables
  <1>4. f \in Disclosure /\ f.grant \in DOMAIN grants
    BY <1>3 DEF KeysInv, Asked, DisclosingOp
  <1>5. pc' = [pc EXCEPT ![c] = frame]
    BY <1>1, <1>2 DEF Keys!CheckHold
  <1>6. /\ frame \in Disclosure /\ frame.grant = f.grant
        /\ frame.op = IF Keys!HasActiveHold THEN "record" ELSE "disclosing"
    BY <1>2, <1>4 DEF Disclosure, DisclosingOp
  <1>7. Asked(frame)
    BY <1>4, <1>6 DEF Asked
  <1>8. Keys!HasActiveHold => ~Proceeds(frame)
    BY <1>6 DEF Proceeds
  <1>9. ASSUME NEW g, Discloses(frame, g)
        PROVE  c \in Keys!Disclosing(g)
    BY <1>1, <1>3, <1>6, <1>9 DEF Discloses, Keys!Disclosing
  <1>10. begun' \in Nat
    BY <1>3 DEF KeysInv
  <1>11. QED
    BY <1>3, <1>5, <1>7, <1>8, <1>9, <1>10, KeysGo

\* The transaction of a request begins that has looked up what it had to.
LEMMA TransactionBegins ==
  ASSUME KeysInv, NEW c \in Client, Keys!BeginTx(c)
  PROVE  KeysInv'
  <1>1. PICK f \in Frames : f = pc[c]
    BY DEF Frames
  <1>2. PICK at : at = begun + 1
    OBVIOUS
  <1>3. PICK frame : frame = [f EXCEPT !.begun = at]
    OBVIOUS
  <1>4. /\ f.op \in {"grant", "disclosing"} /\ begun' = at /\ UNCHANGED <<grants, holds, custody, now>>
        /\ pc' = [pc EXCEPT ![c] = frame]
    BY <1>1, <1>2, <1>3 DEF Keys!BeginTx, Keys!tables
  <1>5. at \in Nat /\ Asked(f)
    BY <1>2 DEF KeysInv
  <1>6. Asked(frame) /\ (\A g : Discloses(frame, g) => Discloses(f, g))
    <2>1. CASE f.op = "grant"
      <3>1. f \in Granting /\ f.row.status = "active"
        BY <1>5, <2>1 DEF Asked
      <3>2. frame \in Granting /\ frame.op = "grant" /\ frame.row = f.row
        BY <1>3, <1>5, <2>1, <3>1 DEF Granting
      <3>3. QED
        BY <3>1, <3>2 DEF Asked, Discloses, DisclosingOp
    <2>2. CASE f.op = "disclosing"
      <3>1. f \in Disclosure /\ f.grant \in DOMAIN grants
        BY <1>5, <2>2 DEF Asked, DisclosingOp
      <3>2. frame \in Disclosure /\ frame.op = "disclosing" /\ frame.grant = f.grant
        BY <1>3, <1>5, <2>2, <3>1 DEF Disclosure
      <3>3. QED
        BY <2>2, <3>1, <3>2 DEF Asked, Discloses
    <2>3. QED
      BY <1>4, <2>1, <2>2
  <1>7. c \in Keys!Proceeding /\ \A g : Discloses(f, g) => c \in Keys!Disclosing(g)
    BY <1>1, <1>4 DEF Keys!Proceeding, Keys!Disclosing, Discloses
  <1>8. begun' \in Nat
    BY <1>4, <1>5
  <1>9. QED
    BY <1>4, <1>6, <1>7, <1>8, KeysGo

\* A request that is one transaction begins, or one ends without having written a thing.
LEMMA KeysBegin ==
  ASSUME KeysInv, NEW c \in Client, NEW frame, pc' = [pc EXCEPT ![c] = frame],
         UNCHANGED <<grants, holds, custody, now>>, begun' \in Nat, Asked(frame),
         frame.op \notin {"grant", "disclose", "disclosing"}
  PROVE  KeysInv'
  <1>1. (\A g : ~Discloses(frame, g)) /\ ~Proceeds(frame)
    BY DEF Discloses, Proceeds
  <1>2. QED
    BY <1>1, KeysGo

LEMMA KeysSteps ==
  ASSUME KeysInv, Keys!Next
  PROVE  KeysInv'
  <1> USE DEF Keys!Begin, Keys!BeginAtOnce, Keys!Done, Keys!tables
  <1>1. CASE Keys!handleStoreSecret \/ Keys!Tick
    <2>1. UNCHANGED <<grants, holds, custody, pc, begun>> /\ now' \in Nat
      BY <1>1 DEF Keys!handleStoreSecret, Keys!StoreSecret, Keys!Served, Keys!Tick, KeysInv
    <2>2. QED
      BY <2>1, KeysStay
  <1>2. ASSUME NEW c \in Client, NEW s \in 1 .. secrets, NEW p \in Person, NEW w \in Window,
               Keys!handleCreateGrant(c, s, p, w)
        PROVE  KeysInv'
    <2>1. PICK frame : frame = [op |-> "grant", row |-> Keys!NewGrant(s, p, w, FALSE), begun |-> None]
      OBVIOUS
    <2>2. /\ pc' = [pc EXCEPT ![c] = frame] /\ ~Keys!HasActiveHold /\ begun' \in Nat
          /\ UNCHANGED <<grants, holds, custody, now>>
      BY <1>2, <2>1 DEF Keys!handleCreateGrant, KeysInv
    <2>3. Keys!NewGrant(s, p, w, FALSE) \in GrantRow /\ Keys!NewGrant(s, p, w, FALSE).status = "active"
      BY DEF Keys!NewGrant, GrantRow, Keys!LiveStates
    <2>4. Asked(frame) /\ \A g : ~Discloses(frame, g)
      BY <2>1, <2>3 DEF Asked, Discloses, Granting, DisclosingOp
    <2>5. QED
      BY <2>2, <2>4, KeysGo
  <1>3. ASSUME NEW c \in Client, NEW p \in Person, NEW w \in Window, Keys!handleEmergencyAccess(c, p, w)
        PROVE  KeysInv'
    <2>1. PICK at : at = begun + 1
      OBVIOUS
    <2>2. PICK frame : frame = [op |-> "emergency", row |-> Keys!NewGrant(1, p, w, TRUE), begun |-> at]
      OBVIOUS
    <2>3. at \in Nat /\ begun' = at /\ pc' = [pc EXCEPT ![c] = frame] /\ UNCHANGED <<grants, holds, custody, now>>
      BY <1>3, <2>1, <2>2 DEF Keys!handleEmergencyAccess, KeysInv
    <2>4. Keys!NewGrant(1, p, w, TRUE) \in GrantRow /\ Keys!NewGrant(1, p, w, TRUE).status = "active"
      BY DEF Keys!NewGrant, GrantRow, Keys!LiveStates
    <2>5. Asked(frame) /\ frame.op \notin {"grant", "disclose", "disclosing"}
      BY <2>2, <2>3, <2>4 DEF Asked, Granting, DisclosingOp
    <2>6. begun' \in Nat
      BY <2>3
    <2>7. QED
      BY <2>3, <2>5, <2>6, KeysBegin
  <1>4. ASSUME NEW c \in Client, NEW g \in DOMAIN grants, NEW p \in Person, Keys!handleDiscloseSecret(c, g, p)
        PROVE  KeysInv'
    <2>1. PICK result : result = Keys!Verdict(g, p, now)
      OBVIOUS
    <2>2. PICK op : op = IF result = "success" THEN "disclose" ELSE "record"
      OBVIOUS
    <2>3. PICK frame :
            frame = [op |-> op, grant |-> g, requestor |-> p, at |-> now, result |-> result, begun |-> None]
      OBVIOUS
    <2>4. pc' = [pc EXCEPT ![c] = frame] /\ UNCHANGED <<grants, holds, custody, now>> /\ begun' \in Nat
      BY <1>4, <2>1, <2>2, <2>3 DEF Keys!handleDiscloseSecret, KeysInv
    <2>5. /\ result \in {"revoked", "denied", "out_of_window", "success"}
          /\ result = "success" => Keys!IsActive(g)
      BY <2>1 DEF Keys!Verdict
    <2>6. result = "success" => ~HasEnded(g)
      BY <2>5 DEF Keys!IsActive, HasEnded, Keys!LiveStates, Keys!EndedStates
    <2>7. g \in Nat /\ now \in Nat
      BY Rows DEF KeysInv, GrantRows
    <2>8. Asked(frame)
      BY <2>2, <2>3, <2>5, <2>7 DEF Asked, Disclosure, DisclosingOp
    <2>9. ~Proceeds(frame) /\ \A h : Discloses(frame, h) => ~HasEnded(h)
      BY <2>2, <2>3, <2>6 DEF Proceeds, Discloses
    <2>10. QED
      BY <2>4, <2>8, <2>9, KeysGo
  <1>5. ASSUME NEW c \in Client, NEW g \in DOMAIN grants, NEW op \in {"acknowledge", "return", "revoke"},
               Keys!handleGrant(c, op, g)
        PROVE  KeysInv'
    <2>1. PICK at : at = begun + 1
      OBVIOUS
    <2>2. PICK frame : frame = [op |-> op, grant |-> g, begun |-> at]
      OBVIOUS
    <2>3. at \in Nat /\ begun' = at /\ pc' = [pc EXCEPT ![c] = frame] /\ UNCHANGED <<grants, holds, custody, now>>
      BY <1>5, <2>1, <2>2 DEF Keys!handleGrant, KeysInv
    <2>4. Asked(frame) /\ frame.op \notin {"grant", "disclose", "disclosing"} /\ begun' \in Nat
      BY <2>2, <2>3 DEF Asked, DisclosingOp
    <2>5. QED
      BY <2>3, <2>4, KeysBegin
  <1>6. ASSUME NEW c \in Client, Keys!handlePlaceHold(c) \/ \E h \in DOMAIN holds : Keys!handleReleaseHold(c, h)
        PROVE  KeysInv'
    <2>1. PICK at : at = begun + 1
      OBVIOUS
    <2>2. PICK frame : /\ \/ frame = [op |-> "place", begun |-> at]
                          \/ \E h \in DOMAIN holds : frame = [op |-> "release", hold |-> h, begun |-> at]
                       /\ pc' = [pc EXCEPT ![c] = frame]
      BY <1>6, <2>1 DEF Keys!handlePlaceHold, Keys!handleReleaseHold
    <2>3. at \in Nat /\ begun' = at /\ UNCHANGED <<grants, holds, custody, now>>
      BY <1>6, <2>1 DEF Keys!handlePlaceHold, Keys!handleReleaseHold, KeysInv
    <2>4. Asked(frame) /\ frame.op \notin {"grant", "disclose", "disclosing"} /\ begun' \in Nat
      BY <2>2, <2>3 DEF Asked, DisclosingOp
    <2>5. QED
      BY <2>2, <2>3, <2>4, KeysBegin
  <1>7. ASSUME NEW c \in Client, Keys!Abandon(c) \/ Keys!RecordDenial(c)
        PROVE  KeysInv'
    <2>1. PICK frame : frame = Keys!Idle
      OBVIOUS
    <2>2. pc' = [pc EXCEPT ![c] = frame] /\ UNCHANGED <<grants, holds, custody, now>> /\ begun' \in Nat
      BY <1>7, <2>1 DEF Keys!Abandon, Keys!RecordDenial, KeysInv
    <2>3. Asked(frame) /\ frame.op \notin {"grant", "disclose", "disclosing"}
      BY <2>1 DEF Asked, DisclosingOp, Keys!Idle
    <2>4. QED
      BY <2>2, <2>3, KeysBegin
  <1>8. ASSUME NEW c \in Client, Keys!CreateGrant(c) \/ Keys!EmergencyAccess(c)
        PROVE  KeysInv'
    <2>1. PICK f \in Frames : f = pc[c]
      BY DEF Frames
    <2>2. PICK type : type = (IF f.op = "grant" THEN "issued" ELSE "emergency_access")
      OBVIOUS
    <2>3. /\ f.op \in {"grant", "emergency"} /\ f.begun # None
          /\ grants' = Append(grants, f.row)
          /\ custody' = Append(custody, [type |-> type, grant |-> Len(grants'), created |-> f.begun])
          /\ pc' = [pc EXCEPT ![c] = Keys!Idle] /\ UNCHANGED <<holds, now, begun>>
      BY <1>8, <2>1, <2>2 DEF Keys!CreateGrant, Keys!EmergencyAccess, Keys!Under, Keys!InsertGrant, Keys!InsertCustodyEvent
    <2>4. QED
      BY <2>1, <2>2, <2>3, GrantIsInserted
  <1>9. ASSUME NEW c \in Client, Keys!AcknowledgeAccess(c) \/ Keys!ReturnAccess(c) \/ Keys!RevokeAccess(c)
        PROVE  KeysInv'
    <2>1. PICK f \in Frames : f = pc[c]
      BY DEF Frames
    <2>2. PICK g, created : g = f.grant /\ created = f.begun
      OBVIOUS
    <2>3. PICK status \in {"acknowledged", "returned", "revoked"} :
            /\ f.op \in {"acknowledge", "return", "revoke"}
            /\ status = "acknowledged" => grants[g].status = "active"
            /\ grants' = [grants EXCEPT ![g].status = status]
            /\ custody' = Append(custody, [type |-> status, grant |-> g, created |-> created])
            /\ pc' = [pc EXCEPT ![c] = Keys!Idle] /\ UNCHANGED <<holds, now, begun>>
      BY <1>9, <2>1, <2>2 DEF Keys!AcknowledgeAccess, Keys!AcknowledgeGrant, Keys!ReturnAccess, Keys!ReturnGrant,
        Keys!RevokeAccess, Keys!RevokeGrant, Keys!Under, Keys!InsertCustodyEvent
    <2>4. g \in DOMAIN grants /\ created \in Nat
      BY <2>2, <2>3 DEF KeysInv, Asked
    <2>5. QED
      BY <2>3, <2>4, GrantMoves
  <1>10. QED
    BY <1>1, <1>2, <1>3, <1>4, <1>5, <1>6, <1>7, <1>8, <1>9,
      HoldIsPlaced, HoldIsReleased, SecretIsDisclosed, HoldIsChecked, TransactionBegins
    DEF Keys!Next

\* The model counts as the proofs do.
LEMMA SameCount == \A S : Keys!Cardinality(S) = Cardinality(S)
  BY DEF Keys!Cardinality, Cardinality

\* Of a grant whose transactions committed in the order they began in, the event listed first is the last.
LEMMA ListedAsTold ==
  ASSUME LedgerRows, NEW g, Keys!ToldLast(g), ~Keys!Overtaken(g)
  PROVE  Keys!ListedFirst(g)
  <1>1. PICK n \in Keys!Moves(g) : Keys!Tells(g, n) /\ \A m \in Keys!Moves(g) : m <= n
    BY DEF Keys!ToldLast
  <1>2. ASSUME NEW m \in Keys!Moves(g)
        PROVE  ~Keys!IsListedBefore(m, n)
    <2>0. Len(custody) \in Nat /\ DOMAIN custody = 1 .. Len(custody) /\ custody[n] \in Event
      BY Rows DEF LedgerRows, Keys!Moves
    <2>1. m \in Nat /\ n \in Nat /\ m <= n /\ custody[n].created \in Nat
      BY <1>1, <2>0 DEF Keys!Moves, Event
    <2>2. CASE m < n
      BY <1>1, <2>2 DEF Keys!Overtaken
    <2>3. CASE m = n
      BY <2>1, <2>3 DEF Keys!IsListedBefore
    <2>4. QED
      BY <2>1, <2>2, <2>3
  <1>3. QED
    BY <1>1, <1>2 DEF Keys!ListedFirst

\* The custody ledger tells where every grant is as its transactions committed, and as it is read unless they did in
\* another order than they began in; and however requests run beside each other, after a grant has ended or while a
\* hold is active only those carry on that had looked before (access/service.go).
THEOREM AccessIsControlledCorrect == Spec => []AccessIsControlled
  <1> DEFINE Inv == part = "access" => KeysInv
  <1>1. Init => Inv
    <2> SUFFICES ASSUME Init
                 PROVE  KeysInv
      OBVIOUS
    <2>1. /\ grants = <<>> /\ holds = <<>> /\ custody = <<>> /\ now = 0 /\ begun = 0
          /\ pc = [c \in Client |-> Keys!Idle]
      BY DEF Init, Keys!Init
    <2>2. grants \in Seq(GrantRow) /\ DOMAIN grants = {}
      BY <2>1, Empty
    <2>3. holds \in Seq(HoldRow) /\ DOMAIN holds = {} /\ Len(holds) = 0
      BY <2>1, Empty
    <2>4. custody \in Seq(Event) /\ DOMAIN custody = {}
      BY <2>1, Empty
    <2>5. \A f \in Frames : Asked(f)
      BY <2>1 DEF Frames, Asked, DisclosingOp, Keys!Idle
    <2>6. HoldRows
      <3>1. /\ Keys!OfType("hold_placed") = {} /\ Keys!OfType("hold_released") = {} /\ Released = {}
            /\ Cardinality({}) = 0
        BY <2>3, <2>4, FS_EmptySet DEF Keys!OfType, Released
      <3>2. QED
        BY <2>3, <3>1 DEF HoldRows
    <2>7. QED
      BY <2>1, <2>2, <2>3, <2>4, <2>5, <2>6 DEF KeysInv, LedgerRows, GrantRows, RevocationBound, HoldBound
  <1>2. Inv /\ [Next]_vars => Inv'
    <2> SUFFICES ASSUME Inv, [Next]_vars, part' = "access"
                 PROVE  KeysInv'
      OBVIOUS
    <2>1. part = "access" /\ KeysInv
      BY Stays
    <2>2. CASE UNCHANGED <<access, pc, requests>>
      <3>1. UNCHANGED <<grants, holds, custody, pc, begun>> /\ now' \in Nat
        BY <2>1, <2>2 DEF access, KeysInv
      <3>2. QED
        BY <2>1, <3>1, KeysStay
    <2>3. QED
      BY <2>1, <2>2, KeysSteps, Stays
  <1>3. Inv => AccessIsControlled
    <2> SUFFICES ASSUME KeysInv
                 PROVE  Keys!AccessIsControlled
      BY DEF AccessIsControlled
    <2>1. Keys!LedgerTellsStatus
      <3>1. \A g \in DOMAIN grants : Keys!ToldLast(g) /\ (Keys!Overtaken(g) \/ Keys!ListedFirst(g))
        BY ListedAsTold DEF KeysInv, GrantRows
      <3>2. QED
        BY <3>1, SameCount DEF Keys!LedgerTellsStatus, KeysInv, HoldRows, Released
    <2>2. Keys!RevocationStopsDisclosure
      BY SameCount DEF KeysInv, RevocationBound, Within, HasEnded, Keys!RevocationStopsDisclosure
    <2>3. Keys!HoldStopsAccess
      BY SameCount DEF KeysInv, HoldBound, Within, Keys!HoldStopsAccess
    <2>4. QED
      BY <2>1, <2>2, <2>3 DEF Keys!AccessIsControlled
  <1>4. QED
    BY <1>1, <1>2, <1>3, PTL DEF Spec
=============================================================================
