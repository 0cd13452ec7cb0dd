------------------------------ MODULE MCSupply ------------------------------
(* Two requests at a time to each component that keeps goods, works or money. *)
EXTENDS Supply, TLC

CONSTANTS vendor, curator, owner, s1

(* Repairs from their report, and high-risk or standard work that is further. *)
Reported == [request |-> None, estimates |-> <<>>, approvals |-> <<>>, orders |-> <<>>]
Estimated(risk, status, order) ==
  [request   |-> [status |-> status, risk |-> risk, estimate |-> 1],
   estimates |-> <<[by |-> curator, status |-> IF status = "triaged" THEN "pending_approval" ELSE "approved"]>>,
   approvals |-> IF status = "triaged" THEN <<>> ELSE <<[estimate |-> 1, by |-> owner, decision |-> "approved"]>>,
   orders    |-> IF order = "none" THEN <<>>
                 ELSE <<[estimate |-> 1, vendor |-> vendor, risk |-> risk, status |-> order, verifiedBy |-> None]>>]
MCBegun == {Reported} \union {Estimated("high", "triaged", order) : order \in {"none", "assigned"}}
             \union {Estimated(risk, "in_progress", "in_progress") : risk \in {"standard", "high"}}

(* A catalog from nothing, or with an item and two versions to be activated.  *)
Drafted(n) == [number |-> n, status |-> "draft", lines |-> <<1>>]
MCStocked == {[items |-> <<>>, versions |-> <<>>],
              [items |-> <<[sku |-> s1, status |-> "active"]>>, versions |-> <<Drafted(1), Drafted(2)>>]}

(* Each component is asked as often as its longest story needs.               *)
MCMaxRequests == [repair |-> 4, vehicle |-> 5, package |-> 6, finance |-> 5, reports |-> 2]

Symmetry == Permutations(Client) \union Permutations(Person)
=============================================================================
