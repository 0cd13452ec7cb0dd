------------------------------- MODULE Billing -------------------------------
(* The subledger and the financial controls (internal/billing): charges,      *)
(* invoices and credits, each created once per idempotency key together with  *)
(* its subledger entry; requests that one person makes and another decides;   *)
(* the out-of-band verification of bank changes; reconciliation exceptions.   *)
(* A request to the API reads on the pool and then writes in a transaction    *)
(* that, but for two statements, does not look at what it overwrites.         *)
EXTENDS Integers, Sequences

CONSTANTS None,
          Client,        \* requests the API serves at one time
          Person,
          Key,           \* idempotency keys
          Amount,        \* what a charge, invoice or credit is about
          RequestType,   \* which request types are asked for
          MaxRequests,   \* bound: requests served in one behaviour
          MaxRows        \* bound: rows of each table

VARIABLES documents,     \* charges, invoices and credits
          entries,       \* operational_subledger_entries
          asked,         \* maker_checker_requests
          verifications, \* bank_verifications of each request, at most one
          approvals,     \* financial_approvals
          exceptions,    \* reconciliation_exceptions
          exports,       \* how many rows accounting_exports has
          pc,
          requests

ledger   == <<documents, entries>>
controls == <<asked, verifications, approvals>>
tables   == <<ledger, controls, exceptions, exports>>
vars     == <<tables, pc, requests>>

Idle == [op |-> "idle"]

Init ==
  /\ documents = <<>>
  /\ entries = <<>>
  /\ asked = <<>>
  /\ verifications = <<>>
  /\ approvals = <<>>
  /\ exceptions = <<>>
  /\ exports = 0
  /\ pc = [c \in Client |-> Idle]
  /\ requests = 0

Served == requests < MaxRequests /\ requests' = requests + 1 /\ UNCHANGED pc

(* A request arrives, reads, and keeps what it means to write.                *)
Begin(c, frame) ==
  /\ pc[c] = Idle
  /\ requests < MaxRequests
  /\ requests' = requests + 1
  /\ pc' = [pc EXCEPT ![c] = frame]
  /\ UNCHANGED tables

Done(c) == pc' = [pc EXCEPT ![c] = Idle] /\ UNCHANGED requests

----------------------------------------------------------------------------
(* Charges, invoices and credits                                             *)

Created(kind, key) == {d \in DOMAIN documents : documents[d].kind = kind /\ documents[d].key = key}

(* A fault: the table has no unique index.                                    *)
AppendDocument(row) ==
  /\ Len(documents) < MaxRows
  /\ documents' = Append(documents, row)

(* The unique index on (tenant, idempotency key) refuses a second row.        *)
InsertDocument(row) ==
  /\ Len(documents) < MaxRows
  /\ Created(row.kind, row.key) = {}
  /\ documents' = Append(documents, row)

InsertSubledgerEntry(d, amount) == entries' = Append(entries, [document |-> d, amount |-> amount])

(* A key that has a row is answered with it, or refused where it differs.     *)
handleCreateCharge(c, key, amount) ==
  /\ Created("charge", key) = {}
  /\ Begin(c, [op |-> "charge", key |-> key, amount |-> amount])

handleIssueInvoice(c, key, amount) ==
  /\ Created("invoice", key) = {}
  /\ Begin(c, [op |-> "invoice", key |-> key, amount |-> amount])

handleIssueCredit(c, key, amount) ==
  /\ Created("credit", key) = {}
  /\ Begin(c, [op |-> "credit", key |-> key, amount |-> amount])

(* One transaction inserts the row and the entry it has in the subledger.     *)
Enter(c, status, posted) ==
  /\ InsertDocument([kind |-> pc[c].op, key |-> pc[c].key, amount |-> pc[c].amount, status |-> status])
  /\ InsertSubledgerEntry(Len(documents'), posted)
  /\ Done(c)
  /\ UNCHANGED <<controls, exceptions, exports>>

CreateCharge(c) == pc[c].op = "charge" /\ Enter(c, "pending", pc[c].amount)
IssueInvoice(c) == pc[c].op = "invoice" /\ Enter(c, "issued", pc[c].amount)
IssueCredit(c) == pc[c].op = "credit" /\ Enter(c, "issued", -pc[c].amount)

handleApplyCharge(c, d) ==
  /\ documents[d].kind = "charge"
  /\ documents[d].status = "pending"
  /\ Begin(c, [op |-> "apply", charge |-> d])

ApplyCharge(c) ==
  /\ pc[c].op = "apply"
  /\ documents' = [documents EXCEPT ![pc[c].charge].status = "applied"]
  /\ Done(c)
  /\ UNCHANGED <<entries, controls, exceptions, exports>>

----------------------------------------------------------------------------
(* Requests made by one person and decided by another                        *)

AskedWith(key) == {r \in DOMAIN asked : asked[r].key = key}

(* Whether verification is required is what the client says.                  *)
handleCreateMakerCheckerRequest(c, actor, type, needs, key) ==
  /\ key # None => AskedWith(key) = {}
  /\ Begin(c, [op |-> "ask",
               row |-> [type |-> type, key |-> key, createdBy |-> actor, needs |-> needs,
                        status |-> IF needs THEN "pending_verification" ELSE "draft",
                        approvedBy |-> None, rejectedBy |-> None]])

InsertMakerCheckerRequest(row) ==
  /\ Len(asked) < MaxRows
  /\ row.key # None => AskedWith(row.key) = {}
  /\ asked' = Append(asked, row)
  /\ verifications' = Append(verifications, None)

CreateMakerCheckerRequest(c) ==
  /\ pc[c].op = "ask"
  /\ InsertMakerCheckerRequest(pc[c].row)
  /\ Done(c)
  /\ UNCHANGED <<ledger, approvals, exceptions, exports>>

handleSubmitMakerCheckerRequest(c, r, actor) ==
  /\ asked[r].status \in {"draft", "pending_verification"}
  /\ asked[r].createdBy = actor
  /\ ~asked[r].needs
  /\ Begin(c, [op |-> "submit", request |-> r])

(* Whatever the status has become, and whoever has decided meanwhile.         *)
SubmitMakerCheckerRequest(c) ==
  /\ pc[c].op = "submit"
  /\ asked' = [asked EXCEPT ![pc[c].request].status = "pending_approval"]
  /\ Done(c)
  /\ UNCHANGED <<ledger, verifications, approvals, exceptions, exports>>

(* A fault: whoever made the request may decide it.                           *)
DecideAsAnyone(c, r, actor, decision) ==
  /\ asked[r].status = "pending_approval"
  /\ Begin(c, [op |-> "decide", request |-> r, actor |-> actor, decision |-> decision])

handleDecideMakerCheckerRequest(c, r, actor, decision) ==
  /\ asked[r].status = "pending_approval"
  /\ actor # asked[r].createdBy
  /\ Begin(c, [op |-> "decide", request |-> r, actor |-> actor, decision |-> decision])

UpdateMakerCheckerRequestStatus(r, status, approvedBy, rejectedBy) ==
  asked' = [asked EXCEPT ![r].status = status, ![r].approvedBy = approvedBy, ![r].rejectedBy = rejectedBy]

(* "compared" is history: the approver was held against the request's maker.  *)
InsertFinancialApproval(r, approver, decision, compared) ==
  /\ Len(approvals) < MaxRows
  /\ approvals' = Append(approvals, [request |-> r, approver |-> approver, decision |-> decision,
                                     compared |-> compared])

DecideMakerCheckerRequest(c) ==
  LET f == pc[c] IN
  /\ f.op = "decide"
  /\ UpdateMakerCheckerRequestStatus(f.request, f.decision,
       IF f.decision = "approved" THEN f.actor ELSE None,
       IF f.decision = "rejected" THEN f.actor ELSE None)
  /\ InsertFinancialApproval(f.request, f.actor, f.decision, TRUE)
  /\ Done(c)
  /\ UNCHANGED <<ledger, verifications, exceptions, exports>>

(* An approval put on record by itself; its request, if any, stays as it is.  *)
(* When the request cannot be read, nobody is compared and the row is written.*)
DecideFinancialApproval(r, actor, decision, read) ==
  /\ read => asked[r].createdBy # actor
  /\ InsertFinancialApproval(r, actor, decision, read)
  /\ UNCHANGED <<ledger, asked, verifications, exceptions, exports>>
handleDecideFinancialApproval(r, actor, decision, read) ==
  /\ read => r # None
  /\ Served
  /\ DecideFinancialApproval(r, actor, decision, read)

----------------------------------------------------------------------------
(* The out-of-band verification of a bank change                             *)

CreateBankVerification(r) ==
  /\ asked[r].type = "bank_change"
  /\ asked[r].needs
  /\ verifications[r] = None
  /\ verifications' = [verifications EXCEPT ![r] = [status |-> "pending", verified |-> FALSE, due |-> FALSE]]
  /\ UNCHANGED <<ledger, asked, approvals, exceptions, exports>>
handleCreateBankVerification(r) == Served /\ CreateBankVerification(r)

(* Its seven days pass.                                                       *)
PassExpiry(r) ==
  /\ verifications[r] # None
  /\ ~verifications[r].due
  /\ verifications' = [verifications EXCEPT ![r].due = TRUE]
  /\ UNCHANGED <<ledger, asked, approvals, exceptions, exports, pc, requests>>

handleConfirmBankVerification(c, r) ==
  /\ verifications[r] # None
  /\ verifications[r].status = "pending"
  /\ Begin(c, [op |-> IF verifications[r].due THEN "expire" ELSE "confirm", request |-> r])

(* The statement does not look at the status: it may have been verified.      *)
ExpireBankVerification(c) ==
  /\ pc[c].op = "expire"
  /\ verifications' = [verifications EXCEPT ![pc[c].request].status = "expired"]
  /\ Done(c)
  /\ UNCHANGED <<ledger, asked, approvals, exceptions, exports>>

(* This one does, and holds the row until the request has been moved on.      *)
ConfirmBankVerification(c) ==
  LET r == pc[c].request IN
  /\ pc[c].op = "confirm"
  /\ verifications[r].status = "pending"
  /\ verifications' = [verifications EXCEPT ![r].status = "verified", ![r].verified = TRUE]
  /\ IF asked[r].status = "pending_verification"
     THEN UpdateMakerCheckerRequestStatus(r, "pending_approval", None, None)
     ELSE UNCHANGED asked
  /\ Done(c)
  /\ UNCHANGED <<ledger, approvals, exceptions, exports>>

----------------------------------------------------------------------------
(* Reconciliation exceptions and exports                                     *)

RecordReconciliationException(actor) ==
  /\ Len(exceptions) < MaxRows
  /\ exceptions' = Append(exceptions, [status |-> "open", recordedBy |-> actor, resolvedBy |-> None])
  /\ UNCHANGED <<ledger, controls, exports>>
handleRecordReconciliationException(actor) == Served /\ RecordReconciliationException(actor)

handleResolveReconciliationException(c, e, actor) ==
  /\ exceptions[e].status # "resolved"
  /\ actor # exceptions[e].recordedBy
  /\ Begin(c, [op |-> "resolve", exception |-> e, actor |-> actor])

(* Also a second time, by somebody else.                                      *)
ResolveReconciliationException(c) ==
  LET e == pc[c].exception IN
  /\ pc[c].op = "resolve"
  /\ exceptions' = [exceptions EXCEPT ![e].status = "resolved", ![e].resolvedBy = pc[c].actor]
  /\ Done(c)
  /\ UNCHANGED <<ledger, controls, exports>>

(* FinalizeJournalPosting answers "completed" and stores nothing.             *)
CreateAccountingExport ==
  /\ exports < MaxRows
  /\ exports' = exports + 1
  /\ UNCHANGED <<ledger, controls, exceptions>>
handleCreateAccountingExport == Served /\ CreateAccountingExport

----------------------------------------------------------------------------

(* A request is refused, its transaction rolled back, or the server dies.     *)
Abandon(c) ==
  /\ pc[c] # Idle
  /\ Done(c)
  /\ UNCHANGED tables

Decisions == {"approved", "rejected"}

Next ==
  \/ \E c \in Client :
       \/ \E key \in Key, amount \in Amount :
            handleCreateCharge(c, key, amount) \/ handleIssueInvoice(c, key, amount) \/ handleIssueCredit(c, key, amount)
       \/ \E d \in DOMAIN documents : handleApplyCharge(c, d)
       \/ \E p \in Person, type \in RequestType, needs \in BOOLEAN, key \in Key \union {None} :
            handleCreateMakerCheckerRequest(c, p, type, needs, key)
       \/ \E r \in DOMAIN asked :
            \/ \E p \in Person : handleSubmitMakerCheckerRequest(c, r, p)
            \/ \E p \in Person, d \in Decisions : handleDecideMakerCheckerRequest(c, r, p, d)
            \/ handleConfirmBankVerification(c, r)
       \/ \E e \in DOMAIN exceptions, p \in Person : handleResolveReconciliationException(c, e, p)
       \/ CreateCharge(c) \/ IssueInvoice(c) \/ IssueCredit(c) \/ ApplyCharge(c) \/ CreateMakerCheckerRequest(c)
       \/ SubmitMakerCheckerRequest(c) \/ DecideMakerCheckerRequest(c)
       \/ ExpireBankVerification(c) \/ ConfirmBankVerification(c)
       \/ ResolveReconciliationException(c)
       \/ Abandon(c)
  \/ \E r \in DOMAIN asked \union {None}, p \in Person, d \in Decisions, read \in BOOLEAN :
       handleDecideFinancialApproval(r, p, d, read)
  \/ \E r \in DOMAIN asked : handleCreateBankVerification(r) \/ PassExpiry(r)
  \/ \E p \in Person : handleRecordReconciliationException(p)
  \/ handleCreateAccountingExport

Spec == Init /\ [][Next]_vars

----------------------------------------------------------------------------

(* However requests under one key race, it has one charge, one invoice and    *)
(* one credit at most, and each has exactly its own entry in the subledger:   *)
(* the amount for a charge or an invoice, the amount taken back for a credit. *)
LedgerMatches ==
  /\ \A d, e \in DOMAIN documents :
       documents[d].kind = documents[e].kind /\ documents[d].key = documents[e].key => d = e
  /\ \A d \in DOMAIN documents :
       LET of == {n \in DOMAIN entries : entries[n].document = d}
       IN \E n \in of :
            /\ of = {n}
            /\ entries[n].amount = IF documents[d].kind = "credit" THEN -documents[d].amount ELSE documents[d].amount

(* "No user may both create and approve": a request that stands approved or   *)
(* rejected was decided so on the record by somebody else than its maker, who *)
(* was compared with the maker; no approval of a request is by its maker but  *)
(* where DecideFinancialApproval could not read the request and went on.      *)
FourEyes ==
  /\ \A r \in DOMAIN asked :
       LET by == IF asked[r].status = "approved" THEN asked[r].approvedBy ELSE asked[r].rejectedBy
       IN asked[r].status \in Decisions =>
            \E n \in DOMAIN approvals : approvals[n] = [request |-> r, approver |-> by, decision |-> asked[r].status,
                                                           compared |-> TRUE]
  /\ \A n \in DOMAIN approvals :
       approvals[n].compared => approvals[n].approver # asked[approvals[n].request].createdBy

(* A request made with verification required waits until it is verified: no   *)
(* submission or decision overtakes the confirmation.                         *)
VerifiedBeforeApproval ==
  \A r \in DOMAIN asked :
    asked[r].needs /\ asked[r].status # "pending_verification"
      => verifications[r] # None /\ verifications[r].verified

(* "Bank-detail changes MUST require out-of-band verification."               *)
BankChangeVerified ==
  \A r \in DOMAIN asked :
    asked[r].type = "bank_change" /\ asked[r].status = "approved"
      => verifications[r] # None /\ verifications[r].verified

(* The controls of finance: maker and checker differ, and what is to be       *)
(* verified waits.                                                            *)
ApprovedUnderControls == FourEyes /\ VerifiedBeforeApproval
=============================================================================
