------------------------------ MODULE Documents ------------------------------
(* Documents and their submission (internal/documents): a document counts its *)
(* versions up, a version is never changed, a person reviews what was         *)
(* extracted from it with little confidence, and a packet of documents is     *)
(* submitted with a receipt.  Confirming a packet reads each of its documents *)
(* in up to four statements and looks at none of it again when it commits.    *)
EXTENDS Requests, Sequences, FiniteSets

CONSTANTS None, Doc,
          Hash,          \* contents of a version
          Field,         \* extractions recorded: [low, legal]
          MaxVersions    \* bound: rows of document_versions

VARIABLES current,       \* current_version of each document, 0 before it is created
          versions,      \* document_versions
          extractions,   \* document_extractions: [version, low, legal]
          reviews,       \* document_reviews: [doc, version, status]
          packet,        \* a row of submission_packets
          receipts       \* submission_receipts, each with its document_version_refs
                         \* [doc, version]; history "seen": how many versions there
                         \* were when the document was read, "fields": what had
                         \* been extracted from the version when that was read

(* The empty identifier: no version.                                          *)
NoVersion == 0

tables == <<current, versions, extractions, reviews, packet, receipts>>
vars == <<tables, pc, requests>>

Init ==
  /\ current = [d \in Doc |-> 0]
  /\ versions = <<>>
  /\ extractions = {}
  /\ reviews = {}
  /\ packet = None
  /\ receipts = <<>>
  /\ NoRequests

----------------------------------------------------------------------------
(* The statements of the store                                               *)

InsertDocument(d) == current' = [current EXCEPT ![d] = 1]

(* Unique in (document_id, content_hash); not in the number.                  *)
InsertVersion(d, number, hash) ==
  /\ Len(versions) < MaxVersions
  /\ ~\E v \in DOMAIN versions : versions[v].doc = d /\ versions[v].hash = hash
  /\ versions' = Append(versions, [doc |-> d, number |-> number, hash |-> hash])

BumpDocumentVersion(d) == current' = [current EXCEPT ![d] = @ + 1]

(* Two uploads may have numbered their versions alike: whichever row comes.   *)
GetVersionByNumber(d, number) ==
  {v \in DOMAIN versions : versions[v].doc = d /\ versions[v].number = number}

ExtractionsOf(v) == {e \in extractions : e.version = v}

(* A fault: only a low confidence calls for a review.                         *)
HasLowConfidenceExtractions(v) == \E e \in ExtractionsOf(v) : e.low

HasLowConfidenceOrLegalExtractions(v) == \E e \in ExtractionsOf(v) : e.low \/ e.legal

UpdatePacketStatus(status) == packet' = [packet EXCEPT !.status = status]
InsertReceipt(refs) == receipts' = Append(receipts, refs)

----------------------------------------------------------------------------
(* Documents, versions, extractions and reviews                              *)

CreateDocument(d) ==
  /\ current[d] = 0
  /\ InsertDocument(d)
  /\ UNCHANGED <<versions, extractions, reviews, packet, receipts>>
handleCreateDocument(d) == Served /\ CreateDocument(d)

(* The version gets the number read from the document before.                 *)
handleCreateDocumentVersion(c, d, hash) ==
  /\ current[d] > 0
  /\ Begin(c, [op |-> "version", doc |-> d, number |-> current[d], hash |-> hash])
  /\ UNCHANGED tables

CreateVersion(c) ==
  LET f == pc[c] IN
  /\ Under(c, "version")
  /\ InsertVersion(f.doc, f.number, f.hash)
  /\ BumpDocumentVersion(f.doc)
  /\ Done(c)
  /\ UNCHANGED <<extractions, reviews, packet, receipts>>

CreateExtraction(v, field) ==
  /\ extractions' = extractions \union {[version |-> v, low |-> field.low, legal |-> field.legal]}
  /\ UNCHANGED <<current, versions, reviews, packet, receipts>>
handleCreateExtraction(v, field) == Served /\ CreateExtraction(v, field)

(* A review is of the version that is the last one by its number when it is   *)
(* asked for, or of none if nothing has been uploaded.                        *)
handleReviewDocument(c, d, status) ==
  /\ current[d] > 0
  /\ Begin(c, IF current[d] > 1
              THEN [op |-> "reviewed", doc |-> d, number |-> current[d] - 1, status |-> status]
              ELSE [op |-> "review", doc |-> d, version |-> NoVersion, status |-> status])
  /\ UNCHANGED tables

FindReviewed(c) ==
  LET f == pc[c] IN
  /\ Under(c, "reviewed")
  /\ \E v \in GetVersionByNumber(f.doc, f.number) :
       Goes(c, [op |-> "review", doc |-> f.doc, version |-> v, status |-> f.status])
  /\ UNCHANGED tables

ReviewDocument(c) ==
  LET f == pc[c] IN
  /\ Under(c, "review")
  /\ reviews' = reviews \union {[doc |-> f.doc, version |-> f.version, status |-> f.status]}
  /\ Done(c)
  /\ UNCHANGED <<current, versions, extractions, packet, receipts>>

----------------------------------------------------------------------------
(* Packets                                                                   *)

CreateSubmissionPacket(docs) ==
  /\ packet = None
  /\ docs # <<>>
  /\ packet' = [docs |-> docs, status |-> "draft"]
  /\ UNCHANGED <<current, versions, extractions, reviews, receipts>>
handleCreateSubmissionPacket(docs) == Served /\ CreateSubmissionPacket(docs)

handleConfirmSubmissionPacket(c) ==
  /\ packet # None
  /\ packet.status \notin {"submitted", "confirmed"}
  /\ Begin(c, [op |-> "gather", left |-> packet.docs, refs |-> <<>>])
  /\ UNCHANGED tables

Gathered(f, ref) == [op |-> "gather", left |-> Tail(f.left), refs |-> Append(f.refs, ref)]
Ref(d, v, seen, fields) == [doc |-> d, version |-> v, seen |-> seen, fields |-> fields]

GetDocument(c) ==
  LET f == pc[c]  d == Head(f.left) IN
  /\ Under(c, "gather")
  /\ f.left # <<>>
  /\ current[d] > 0
  /\ IF current[d] > 1
     THEN Goes(c, [op |-> "find", left |-> f.left, refs |-> f.refs, number |-> current[d] - 1,
                   seen |-> Len(versions)])
     ELSE Goes(c, Gathered(f, Ref(d, NoVersion, Len(versions), {})))
  /\ UNCHANGED tables

(* "Document has no versions yet": what no row with the number is taken for.  *)
FindVersion(c) ==
  LET f == pc[c]  d == Head(f.left)  found == GetVersionByNumber(d, f.number) IN
  /\ Under(c, "find")
  /\ IF found = {} THEN Goes(c, Gathered(f, Ref(d, NoVersion, f.seen, {})))
     ELSE \E v \in found :
            Goes(c, [op |-> "doubt", left |-> f.left, refs |-> f.refs, version |-> v, seen |-> f.seen])
  /\ UNCHANGED tables

CheckExtractions(c) ==
  LET f == pc[c]  ref == Ref(Head(f.left), f.version, f.seen, ExtractionsOf(f.version)) IN
  /\ Under(c, "doubt")
  /\ IF HasLowConfidenceOrLegalExtractions(f.version)
     THEN Goes(c, [op |-> "approved", left |-> f.left, refs |-> f.refs, ref |-> ref])
     ELSE Goes(c, Gathered(f, ref))
  /\ UNCHANGED tables

(* "Check if there's a completed review": of the document, whatever version.  *)
ListReviews(c) ==
  LET f == pc[c] IN
  /\ Under(c, "approved")
  /\ \E review \in reviews : review.doc = Head(f.left) /\ review.status = "approved"
  /\ Goes(c, Gathered(f, f.ref))
  /\ UNCHANGED tables

ConfirmSubmission(c) ==
  /\ Under(c, "gather")
  /\ pc[c].left = <<>>
  /\ UpdatePacketStatus("submitted")
  /\ InsertReceipt(pc[c].refs)
  /\ Done(c)
  /\ UNCHANGED <<current, versions, extractions, reviews>>

Abandon(c) == Dropped(c) /\ UNCHANGED tables

Next ==
  \/ \E d \in Doc : handleCreateDocument(d)
  \/ \E v \in DOMAIN versions, field \in Field : handleCreateExtraction(v, field)
  \/ \E docs \in {<<d>> : d \in Doc} \union {<<d, e>> : d, e \in Doc} : handleCreateSubmissionPacket(docs)
  \/ \E c \in Client :
       \/ \E d \in Doc, hash \in Hash : handleCreateDocumentVersion(c, d, hash)
       \/ \E d \in Doc, status \in {"approved", "pending"} : handleReviewDocument(c, d, status)
       \/ CreateVersion(c) \/ FindReviewed(c) \/ ReviewDocument(c)
       \/ handleConfirmSubmissionPacket(c)
       \/ GetDocument(c) \/ FindVersion(c) \/ CheckExtractions(c) \/ ListReviews(c) \/ ConfirmSubmission(c)
       \/ Abandon(c)

Spec == Init /\ [][Next]_vars

----------------------------------------------------------------------------

(* Two uploads that read the document before either had counted it up.        *)
NumberedTwice(d) ==
  \E v, w \in DOMAIN versions :
    v # w /\ versions[v].doc = d /\ versions[w].doc = d /\ versions[v].number = versions[w].number

(* Of the first so many versions, the last one of the document, if any.       *)
IsNewest(d, v, seen) ==
  /\ v # NoVersion => v \in 1 .. seen /\ versions[v].doc = d
  /\ \A w \in 1 .. seen : versions[w].doc = d => w <= v

IsDoubtful(fields) == \E e \in fields : e.low \/ e.legal

(* "The exact submitted version and receipt are preserved": a packet is       *)
(* submitted exactly when it has a receipt, and gets more only from the       *)
(* confirmations under way beside it.  A receipt names for each document in   *)
(* turn the newest version there was when it was read, unless uploads had     *)
(* taken the same number; and if what had been extracted from it is doubtful  *)
(* or legal, a review of the document, of whatever version, has been approved.*)
SubmittedAsReviewed ==
  /\ receipts # <<>> <=> packet # None /\ packet.status = "submitted"
  /\ Len(receipts) <= Cardinality(Client)
  /\ \A r \in DOMAIN receipts :
       /\ [n \in DOMAIN receipts[r] |-> receipts[r][n].doc] = packet.docs
       /\ \A n \in DOMAIN receipts[r] :
            LET ref == receipts[r][n] IN
            /\ IsNewest(ref.doc, ref.version, ref.seen) \/ NumberedTwice(ref.doc)
            /\ IsDoubtful(ref.fields) => \E review \in reviews : review.doc = ref.doc /\ review.status = "approved"

(* "ReviewDocument creates a human review for a document version.  Low        *)
(* confidence extraction or legal category requires human review before       *)
(* submission": does not hold of the version.  A doubtful version is submitted*)
(* on the review of an earlier one, or on one from before the first upload.   *)
ReviewedAsSubmitted ==
  \A r \in DOMAIN receipts : \A n \in DOMAIN receipts[r] :
    LET ref == receipts[r][n] IN
    IsDoubtful(ref.fields) => [doc |-> ref.doc, version |-> ref.version, status |-> "approved"] \in reviews

(* "Low confidence / legal fields must have a human review": does not hold.   *)
(* Two uploads at once take the same number and count the document up twice,  *)
(* so that no row has the number looked for and the packet is submitted       *)
(* without a version, as if there was nothing to review.                      *)
NeverWithoutVersion ==
  \A r \in DOMAIN receipts : \A n \in DOMAIN receipts[r] :
    LET ref == receipts[r][n] IN
    (\E v \in 1 .. ref.seen : versions[v].doc = ref.doc) => ref.version # NoVersion
=============================================================================
