------------------------------- MODULE Hermes --------------------------------
(* The drafts of the communication assistant (internal/automation/hermes): a  *)
(* draft from an approved template is approved as it is, any other by a person*)
(* who is not its author, and an approved draft is delivered under the key of *)
(* the request.  Each statement commits by itself, no transaction joins them. *)
EXTENDS Requests, Sequences

CONSTANTS None, Person,
          Key,           \* idempotency keys of deliveries; None for a request without
          MaxRows        \* bound: rows of each table

VARIABLES drafts,        \* hermes_drafts: [policy, by, state]
          reviews,       \* hermes_reviews: [draft, by, decision]
          deliveries,    \* hermes_deliveries: [draft, key]
          raced          \* drafts of deliveries under way at once, of one draft or key

tables == <<drafts, reviews, deliveries>>
vars == <<tables, raced, pc, requests>>

Init ==
  /\ drafts = <<>>
  /\ reviews = {}
  /\ deliveries = <<>>
  /\ raced = {}
  /\ NoRequests

Deliveries(d) == {n \in DOMAIN deliveries : deliveries[n].draft = d}
DeliveriesUnder(key) == {n \in DOMAIN deliveries : key # None /\ deliveries[n].key = key}

----------------------------------------------------------------------------
(* Drafts and reviews                                                        *)

InsertDraft(draft) == Len(drafts) < MaxRows /\ drafts' = Append(drafts, draft)

(* Every column but the version is written over, whatever the state was.      *)
UpdateDraftState(d, state) == drafts' = [drafts EXCEPT ![d].state = state]

Draft(policy, by) ==
  /\ InsertDraft([policy |-> policy, by |-> by,
                  state |-> IF policy = "human_review" THEN "under_review" ELSE "approved"])
  /\ UNCHANGED <<reviews, deliveries, raced>>
handleCreateDraft(policy, by) == Served /\ Draft(policy, by)

handleReviewDraft(c, d, by, decision) ==
  /\ drafts[d].policy = "human_review"
  /\ drafts[d].state \in {"under_review", "draft"}
  /\ drafts[d].by # by
  /\ Begin(c, [op |-> "review", draft |-> d, by |-> by, decision |-> decision])
  /\ UNCHANGED <<tables, raced>>

InsertReview(c) ==
  LET f == pc[c] IN
  /\ Under(c, "review")
  /\ reviews' = reviews \union {[draft |-> f.draft, by |-> f.by, decision |-> f.decision]}
  /\ Goes(c, [op |-> "reviewed", draft |-> f.draft, decision |-> f.decision])
  /\ UNCHANGED <<drafts, deliveries, raced>>

Review(c) ==
  /\ Under(c, "reviewed")
  /\ UpdateDraftState(pc[c].draft, pc[c].decision)
  /\ Done(c)
  /\ UNCHANGED <<reviews, deliveries, raced>>

----------------------------------------------------------------------------
(* Delivery: by the key, the draft, the deliveries of the draft               *)

handleDeliverDraft(c, d, key) ==
  /\ DeliveriesUnder(key) = {}
  /\ Begin(c, [op |-> "deliver", draft |-> d, key |-> key])
  /\ UNCHANGED <<tables, raced>>

GetDraft(c) ==
  LET f == pc[c] IN
  /\ Under(c, "deliver")
  /\ Goes(c, [op |-> "look", draft |-> f.draft, key |-> f.key, state |-> drafts[f.draft].state])
  /\ UNCHANGED <<tables, raced>>

(* A fault: only a rejected draft is refused.                                 *)
NotRejected(state) == state # "rejected"

Deliverable(state) == state = "approved"

GetDeliveryByDraft(c) ==
  LET f == pc[c] IN
  /\ Under(c, "look")
  /\ IF Deliveries(f.draft) = {} /\ Deliverable(f.state)
     THEN Goes(c, [op |-> "insert", draft |-> f.draft, key |-> f.key])
     ELSE Done(c)
  /\ UNCHANGED <<tables, raced>>

(* Requests that may have looked before the row is there.                     *)
Beside(c) ==
  {d \in Client \ {c} :
     /\ pc[d].op \in {"deliver", "look", "insert"}
     /\ \/ pc[d].draft = pc[c].draft
        \/ pc[c].key # None /\ pc[d].key = pc[c].key}

(* ON CONFLICT DO NOTHING: under a key in use no row comes, and no error.     *)
InsertDelivery(c) ==
  LET f == pc[c] IN
  /\ Under(c, "insert")
  /\ IF DeliveriesUnder(f.key) # {} THEN UNCHANGED deliveries
     ELSE /\ Len(deliveries) < MaxRows
          /\ deliveries' = Append(deliveries, [draft |-> f.draft, key |-> f.key])
  /\ raced' = raced \union {pc[d].draft : d \in Beside(c)}
  /\ Goes(c, [op |-> "delivered", draft |-> f.draft])
  /\ UNCHANGED <<drafts, reviews>>

Deliver(c) ==
  /\ Under(c, "delivered")
  /\ UpdateDraftState(pc[c].draft, "delivered")
  /\ Done(c)
  /\ UNCHANGED <<reviews, deliveries, raced>>

----------------------------------------------------------------------------

Abandon(c) == Dropped(c) /\ UNCHANGED <<tables, raced>>

Next ==
  \/ \E policy \in {"approved_template", "human_review"}, by \in Person : handleCreateDraft(policy, by)
  \/ \E c \in Client :
       \/ \E d \in DOMAIN drafts :
            \/ \E by \in Person, decision \in {"approved", "rejected"} : handleReviewDraft(c, d, by, decision)
            \/ \E key \in Key \union {None} : handleDeliverDraft(c, d, key)
       \/ InsertReview(c) \/ Review(c)
       \/ GetDraft(c) \/ GetDeliveryByDraft(c) \/ InsertDelivery(c) \/ Deliver(c)
       \/ Abandon(c)

Spec == Init /\ [][Next]_vars

----------------------------------------------------------------------------

(* "An unreviewed free-form draft can never deliver": whatever reviews and    *)
(* deliveries run beside each other, a free-form draft that has a delivery    *)
(* was approved by another than its author; and a draft said to be delivered  *)
(* has its one delivery, unless another was under way for it or under its key.*)
DeliveredAsReviewed ==
  /\ \A n \in DOMAIN deliveries :
       LET d == deliveries[n].draft IN
       drafts[d].policy = "human_review" =>
         \E r \in reviews : r.draft = d /\ r.decision = "approved" /\ r.by # drafts[d].by
  /\ \A n, m \in DOMAIN deliveries :
       n # m /\ deliveries[n].key # None => deliveries[n].key # deliveries[m].key
  /\ \A d \in DOMAIN drafts \ raced :
       /\ drafts[d].state = "delivered" => Deliveries(d) # {}
       /\ \A n, m \in Deliveries(d) : n = m

(* "Replaying delivery returns the existing delivery rather than creating a   *)
(* second one": does not hold of two requests at once, each of which finds no *)
(* delivery of the draft and inserts one.                                     *)
DeliveredOnce == \A d \in DOMAIN drafts : \A n, m \in Deliveries(d) : n = m
=============================================================================
