-------------------------------- MODULE People --------------------------------
(* The components that deal with people: access to secrets, messages and links,*)
(* privacy requests, consumers' disclosures and exports, workers, and the     *)
(* documents of a filing.  They share no table and no request, so a behaviour *)
(* is one of one of them.                                                     *)
EXTENDS Integers, Sequences, FiniteSets

CONSTANTS None, Client, Person,
          Window,                                     \* of Access
          Preference, Minute, Day,                    \* of Communications
          MaxRetained,                                \* of Privacy
          Tenant, Property, Resource,                 \* of Consumer
          Initial, WorkType, Restricted,              \* of Workforce
          Doc, Hash, Field,                           \* of Documents
          Key,                                        \* of Hermes
          MaxTime,       \* bound of the clocks
          MaxVersions,   \* bound: versions of a template and of a document
          MaxRows,       \* bound: rows of each table
          MaxRequests    \* bound: requests served to each component

VARIABLES part,          \* the component whose behaviour this is
          pc, requests,  \* as in Requests, whichever it is
          secrets, grants, holds, disclosures, custody, now, begun,
          template, versions, preferences, draft, reviews, deliveries, link, redemptions,
          registers, retained, rights, consent, processor, export,
          shown, acceptances, history, exports,
          worker, certifications, adverseReviews, assignments, recorded, day,
          current, documentVersions, extractions, documentReviews, packet, receipts,
          drafts, draftReviews, draftDeliveries, deliveredBeside

Keys == INSTANCE Access WITH MaxRequests <- MaxRequests["access"]
Contact == INSTANCE Communications WITH MaxRequests <- MaxRequests["contact"]
Rights == INSTANCE Privacy WITH MaxRequests <- MaxRequests["privacy"]
Owners == INSTANCE Consumer WITH disclosures <- shown, MaxRequests <- MaxRequests["consumer"]
Workers == INSTANCE Workforce WITH reviews <- adverseReviews, now <- day,
                                   MaxRequests <- MaxRequests["workforce"]
Filing == INSTANCE Documents WITH versions <- documentVersions, reviews <- documentReviews,
                                  MaxRequests <- MaxRequests["filing"]
Assistant == INSTANCE Hermes WITH reviews <- draftReviews, deliveries <- draftDeliveries,
                                  raced <- deliveredBeside, MaxRequests <- MaxRequests["assistant"]

(* A server serves so many requests at a time.                                *)
ASSUME ServerIsFinite == IsFiniteSet(Client)

(* "Quiet hours must be minutes of day": the day has as many as are counted.  *)
ASSUME DayIsCounted ==
  /\ Day \in Nat \ {0}
  /\ Minute \subseteq 0 .. Day - 1
  /\ Preference \subseteq [consents : SUBSET Contact!Class, start : 0 .. Day - 1, end : 0 .. Day - 1]

(* Rows of communication_drafts, conversation_links, workers and              *)
(* submission_packets; no row of a table is NULL.                             *)
Message == [source : {"template", "ai"}, class : Contact!Class,
            status : {"under_review", "approved", "rejected", "delivered"}]
Link == [used : BOOLEAN, revoked : BOOLEAN, expired : BOOLEAN]
Worker == [status : Initial \union {"active", "rejected", "suspended", "terminated"},
           created : Initial, adult : BOOLEAN, specialist : BOOLEAN, version : Nat]
Packet == [docs : Seq(Doc), status : {"draft", "submitted"}]

ASSUME NoneIsNull == None \notin Message \union Link \union Worker \union Packet

access    == <<secrets, grants, holds, disclosures, custody, now, begun>>
contact   == <<template, versions, preferences, draft, reviews, deliveries, link, redemptions>>
privacy   == <<registers, retained, rights, consent, processor, export>>
consumer  == <<shown, acceptances, history, exports>>
workforce == <<worker, certifications, adverseReviews, assignments, recorded, day>>
filing    == <<current, documentVersions, extractions, documentReviews, packet, receipts>>
assistant == <<drafts, draftReviews, draftDeliveries, deliveredBeside>>
vars == <<part, pc, requests, access, contact, privacy, consumer, workforce, filing, assistant>>

Init ==
  /\ part \in {"access", "contact", "privacy", "consumer", "workforce", "filing", "assistant"}
  /\ Keys!Init
  /\ Contact!Init
  /\ Rights!Init
  /\ Owners!Init
  /\ Workers!Init
  /\ Filing!Init
  /\ Assistant!Init
  /\ part # "access" => secrets = 0

KeysStep == part = "access" /\ Keys!Next /\ UNCHANGED <<part, contact, privacy, consumer, workforce, filing, assistant>>
ContactStep == part = "contact" /\ Contact!Next /\ UNCHANGED <<part, access, privacy, consumer, workforce, filing, assistant>>
RightsStep == part = "privacy" /\ Rights!Next /\ UNCHANGED <<part, access, contact, consumer, workforce, filing, assistant>>
OwnersStep == part = "consumer" /\ Owners!Next /\ UNCHANGED <<part, access, contact, privacy, workforce, filing, assistant>>
WorkersStep == part = "workforce" /\ Workers!Next /\ UNCHANGED <<part, access, contact, privacy, consumer, filing, assistant>>
FilingStep == part = "filing" /\ Filing!Next /\ UNCHANGED <<part, access, contact, privacy, consumer, workforce, assistant>>
AssistantStep == part = "assistant" /\ Assistant!Next /\ UNCHANGED <<part, access, contact, privacy, consumer, workforce, filing>>

Next == KeysStep \/ ContactStep \/ RightsStep \/ OwnersStep \/ WorkersStep \/ FilingStep \/ AssistantStep

Spec == Init /\ [][Next]_vars

----------------------------------------------------------------------------

(* The custody ledger tells where grants are, and their end and a hold stop   *)
(* access but for the requests that were under way.                           *)
AccessIsControlled == part = "access" => Keys!AccessIsControlled

(* Messages keep to preferences and quiet hours, and a link to its one use.   *)
ContactIsAllowed == part = "contact" => Contact!ContactIsAllowed

(* What had to be retained when the review of its erasure began is not erased.*)
RetainedIsNotErased == part = "privacy" => Rights!RetainedIsNotErased

(* Exports and acceptances are of the tenant's own rows.                      *)
OwnersSeeTheirs == part = "consumer" => Owners!OwnersSeeTheirs

(* A worker's status is what reviews made it, and work goes to whom reviews   *)
(* had left active, and certifications eligible, when he was looked up.       *)
WorkersAsReviewed == part = "workforce" => Workers!WorkersAsReviewed

(* What is submitted was the newest unless uploads took the same number, and  *)
(* what is doubtful in it has some approved review of its document.           *)
SubmittedAsReviewed == part = "filing" => Filing!SubmittedAsReviewed

(* What the assistant wrote is delivered by another's leave, and once but for *)
(* deliveries that overlapped.                                                *)
DeliveredAsReviewed == part = "assistant" => Assistant!DeliveredAsReviewed
=============================================================================
