---------------------------- MODULE Communications ----------------------------
(* One recipient (internal/communications): a curated template and its        *)
(* localized versions, the recipient's consents and quiet hours, a message    *)
(* from its draft through a human review to its delivery, and a stay link     *)
(* that can be redeemed once.  A review and a delivery read the draft, and a  *)
(* delivery the preferences too, before the transaction that writes.          *)
EXTENDS Requests, Integers, Sequences

CONSTANTS None,
          Preference,    \* preferences a recipient may set: [consents, start, end]
          Minute,        \* minutes of the day at which deliveries are asked for
          Day,           \* minutes in a day
          MaxVersions    \* bound: rows of message_template_versions

VARIABLES template,      \* a row of message_templates, by its consent class
          versions,      \* message_template_versions
          preferences,   \* a row of communication_preferences, None while it has none
          draft,         \* a row of communication_drafts
          reviews,       \* communication_reviews, by their decision
          deliveries,    \* deliveries, each with what its request had read
          link,          \* a row of conversation_links
          redemptions    \* how many times the link has been redeemed

messages == <<template, versions, preferences, draft, reviews, deliveries>>
links == <<link, redemptions>>
vars == <<messages, links, pc, requests>>

Class == {"transactional", "urgent", "marketing", "sponsored"}
Language == {"en", "hi"}

Init ==
  /\ template = None
  /\ versions = {}
  /\ preferences = None
  /\ draft = None
  /\ reviews = {}
  /\ deliveries = <<>>
  /\ link = None
  /\ redemptions = 0
  /\ NoRequests

----------------------------------------------------------------------------
(* What a recipient allows                                                   *)

defaultPreferences == [consents |-> {"transactional", "urgent"}, start |-> 0, end |-> 0]

GetPreferences == IF preferences = None THEN defaultPreferences ELSE preferences

ConsentByClass(prefs, class) == class \in prefs.consents

(* A fault: quiet hours past midnight are taken for none.                     *)
IsWithinSameDay(minute, start, end) == start <= minute /\ minute < end

IsWithinQuietHours(minute, start, end) ==
  /\ start # end
  /\ IF start < end THEN start <= minute /\ minute < end
     ELSE start <= minute \/ minute < end

----------------------------------------------------------------------------
(* The statements of the store                                               *)

NextTemplateVersion ==
  IF versions = {} THEN 1
  ELSE 1 + (CHOOSE n \in {v.number : v \in versions} : \A v \in versions : v.number <= n)

(* Unique in (template_id, version, language).                                *)
InsertTemplateVersion(number, language) ==
  LET row == [number |-> number, language |-> language] IN
  /\ number <= MaxVersions
  /\ row \notin versions
  /\ versions' = versions \union {row}

LatestTemplateVersion(language) == {v \in versions : v.language = language}

UpsertPreferences(prefs) == preferences' = prefs
UpdateDraftStatus(status) == draft' = [draft EXCEPT !.status = status]
InsertReview(decision) == reviews' = reviews \union {decision}

InsertDelivery(row) == deliveries' = Append(deliveries, row)

(* One statement, under a condition on the row.                               *)
RedeemLink ==
  /\ ~link.used /\ ~link.revoked /\ ~link.expired
  /\ link' = [link EXCEPT !.used = TRUE]

RevokeLink == ~link.revoked /\ link' = [link EXCEPT !.revoked = TRUE]

----------------------------------------------------------------------------
(* Templates and preferences                                                 *)

CreateTemplate(class) ==
  /\ template = None
  /\ template' = class
  /\ UNCHANGED <<versions, preferences, draft, reviews, deliveries, links>>
handleCreateTemplate(class) == Served /\ CreateTemplate(class)

handleAddTemplateVersion(c, language) ==
  /\ template # None
  /\ Begin(c, [op |-> "version", language |-> language, number |-> NextTemplateVersion])
  /\ UNCHANGED <<messages, links>>

AddTemplateVersion(c) ==
  /\ Under(c, "version")
  /\ InsertTemplateVersion(pc[c].number, pc[c].language)
  /\ Done(c)
  /\ UNCHANGED <<template, preferences, draft, reviews, deliveries, links>>

(* English where the language asked for has no version.                       *)
ResolveTemplateContent(language) ==
  LatestTemplateVersion(language) # {} \/ LatestTemplateVersion("en") # {}

SetPreferences(prefs) ==
  /\ UpsertPreferences(prefs)
  /\ UNCHANGED <<template, versions, draft, reviews, deliveries, links>>
handleSetPreferences(prefs) == Served /\ SetPreferences(prefs)

----------------------------------------------------------------------------
(* Drafts, reviews and deliveries                                            *)

(* Templates do not change once they are there: one step.                     *)
CreateDraft(source, class, language) ==
  /\ draft = None
  /\ \/ /\ source = "template"
        /\ template # None
        /\ ResolveTemplateContent(language)
        /\ draft' = [source |-> source, class |-> template, status |-> "approved"]
     \/ /\ source = "ai"
        /\ draft' = [source |-> source, class |-> class, status |-> "under_review"]
  /\ UNCHANGED <<template, versions, preferences, reviews, deliveries, links>>
handleCreateDraft(source, class, language) == Served /\ CreateDraft(source, class, language)

handleReviewDraft(c, decision) ==
  /\ draft # None
  /\ draft.source = "ai"
  /\ draft.status \notin {"approved", "rejected", "delivered"}
  /\ Begin(c, [op |-> "review", decision |-> decision])
  /\ UNCHANGED <<messages, links>>

ReviewDraft(c) ==
  /\ Under(c, "review")
  /\ InsertReview(pc[c].decision)
  /\ UpdateDraftStatus(pc[c].decision)
  /\ Done(c)
  /\ UNCHANGED <<template, versions, preferences, deliveries, links>>

handleDeliver(c, minute) ==
  /\ draft # None
  /\ draft.status = "approved"
  /\ Begin(c, [op |-> "allowed", draft |-> draft, minute |-> minute])
  /\ UNCHANGED <<messages, links>>

preferencesForDelivery(c) ==
  LET f == pc[c]  prefs == GetPreferences IN
  /\ Under(c, "allowed")
  /\ ConsentByClass(prefs, f.draft.class)
  /\ f.draft.class = "urgent" \/ ~IsWithinQuietHours(f.minute, prefs.start, prefs.end)
  /\ Goes(c, [op |-> "deliver", draft |-> f.draft, minute |-> f.minute, prefs |-> prefs])
  /\ UNCHANGED <<messages, links>>

Deliver(c) ==
  LET f == pc[c] IN
  /\ Under(c, "deliver")
  /\ InsertDelivery([minute |-> f.minute, prefs |-> f.prefs, status |-> "queued"])
  /\ UpdateDraftStatus("delivered")
  /\ Done(c)
  /\ UNCHANGED <<template, versions, preferences, reviews, links>>

DeliveryStatus == {"queued", "sent", "delivered", "failed"}

RecordDeliveryResult(n, status) ==
  /\ deliveries' = [deliveries EXCEPT ![n].status = status]
  /\ UNCHANGED <<template, versions, preferences, draft, reviews, links>>
handleRecordDeliveryResult(n, status) == Served /\ RecordDeliveryResult(n, status)

----------------------------------------------------------------------------
(* Stay links                                                                *)

CreateSecureLink ==
  /\ link = None
  /\ link' = [used |-> FALSE, revoked |-> FALSE, expired |-> FALSE]
  /\ UNCHANGED <<messages, redemptions>>
handleCreateSecureLink == Served /\ CreateSecureLink

RedeemSecureLink ==
  /\ link # None
  /\ RedeemLink
  /\ redemptions' = redemptions + 1
  /\ UNCHANGED messages
handleRedeemSecureLink == Served /\ RedeemSecureLink

RevokeSecureLink == link # None /\ RevokeLink /\ UNCHANGED <<messages, redemptions>>
handleRevokeSecureLink == Served /\ RevokeSecureLink

LinkExpires ==
  /\ link # None /\ ~link.expired
  /\ link' = [link EXCEPT !.expired = TRUE]
  /\ UNCHANGED <<messages, redemptions, pc, requests>>

----------------------------------------------------------------------------

Abandon(c) == Dropped(c) /\ UNCHANGED <<messages, links>>

Next ==
  \/ \E class \in Class : handleCreateTemplate(class)
  \/ \E prefs \in Preference : handleSetPreferences(prefs)
  \/ \E source \in {"template", "ai"}, class \in Class, language \in Language :
       handleCreateDraft(source, class, language)
  \/ \E n \in DOMAIN deliveries, status \in DeliveryStatus : handleRecordDeliveryResult(n, status)
  \/ \E c \in Client :
       \/ \E language \in Language : handleAddTemplateVersion(c, language)
       \/ \E decision \in {"approved", "rejected"} : handleReviewDraft(c, decision)
       \/ \E minute \in Minute : handleDeliver(c, minute)
       \/ AddTemplateVersion(c) \/ ReviewDraft(c) \/ preferencesForDelivery(c) \/ Deliver(c)
       \/ Abandon(c)
  \/ handleCreateSecureLink \/ handleRedeemSecureLink \/ handleRevokeSecureLink \/ LinkExpires

Spec == Init /\ [][Next]_vars

----------------------------------------------------------------------------

Quiet(prefs) == {(prefs.start + k) % Day : k \in 0 .. ((prefs.end - prefs.start) % Day) - 1}

(* A free-form message is delivered only with an approving review on record   *)
(* (COM-005), and every delivery was consented to, and outside the quiet hours*)
(* counted on from their start, midnight or not, unless urgent (COM-002), by  *)
(* the preferences its request read.                                          *)
DeliveredAsAllowed ==
  \A n \in DOMAIN deliveries :
    LET d == deliveries[n] IN
    /\ draft.source = "ai" => "approved" \in reviews
    /\ draft.class \in d.prefs.consents
    /\ d.minute \in Quiet(d.prefs) => draft.class = "urgent"

(* "Replaying the same token after a successful redemption always fails".     *)
RedeemedOnce == redemptions <= 1

(* "Draft has already been delivered", and "only once" for a review: do not   *)
(* hold, both are looked up before the transaction and neither is after.      *)
OnceEach == Len(deliveries) <= 1 /\ reviews # {"approved", "rejected"}

(* Messages and links reach people only as allowed.                           *)
ContactIsAllowed == DeliveredAsAllowed /\ RedeemedOnce
=============================================================================
