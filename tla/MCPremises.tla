----------------------------- MODULE MCPremises ------------------------------
(* Two requests at a time to each component that keeps what is true of a      *)
(* property, with small contents of its feeds, amounts and pieces.            *)
EXTENDS Premises, TLC

CONSTANTS f1, f2, u1, u2, s1

(* Two feeds of one property.  The first lists one stay that may move or be   *)
(* cancelled, the second a stay that follows it at once, overlaps it, or is   *)
(* the same stay again.                                                       *)
StayOf(s, e, ambiguous) == [start |-> s, end |-> e, ambiguous |-> ambiguous]
Item(u, stay) == [uid |-> u, stay |-> stay, status |-> "confirmed"]
MCContent ==
  [f \in {f1, f2} |->
     IF f = f1 THEN {{}, {Item(u1, StayOf(1, 3, FALSE))}}
     ELSE {{Item(u1, StayOf(1, 3, TRUE))}, {Item(u2, StayOf(2, 4, FALSE))}, {Item(u2, StayOf(3, 5, FALSE))}}]

(* An onboarding begins with its section filled in.                           *)
MCBegun == {[status |-> "in_progress", sections |-> {s1}, contacts |-> b, version |-> 2] : b \in BOOLEAN}

(* A third of the revenue, and all of it with a minimum.                      *)
MCRule == {[version |-> "v1", points |-> 3333, minimum |-> 0, setup |-> 0],
           [version |-> "v2", points |-> 10000, minimum |-> 500, setup |-> 100]}
Amount(category, amount) == [category |-> category, amount |-> amount]
MCPassThrough == {<<Amount("taxes", 1)>>, <<Amount("taxes", 300), Amount("linen", 7)>>,
                  <<Amount("taxes", 150), Amount("taxes", 150)>>}

(* One piece that expires and one that does not are received; pieces are      *)
(* issued, adjusted and written off one at a time.                            *)
Never == MaxTime + 1
MCMovement ==
  {<<"receive", 1, 1>>, <<"receive", 1, Never>>, <<"issue", -1, Never>>,
   <<"adjustment", -1, Never>>, <<"expiry", -1, Never>>}

(* Each component is asked as often as its longest story needs.               *)
MCMaxRequests == [calendar |-> 5, lifecycle |-> 5, owner |-> 4, contract |-> 5, stock |-> 6]

Symmetry == Permutations(Client)
=============================================================================
