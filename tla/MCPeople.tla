------------------------------ MODULE MCPeople -------------------------------
(* Two requests at a time to each component that deals with people.           *)
EXTENDS People, TLC

(* A window that is open at the start and closes, and one that opens later.   *)
MCWindow == {<<0, 1>>, <<1, 2>>}

(* Hours instead of minutes; one preference is quiet past midnight.           *)
MCPreference == {[consents |-> {"urgent", "marketing"}, start |-> 22, end |-> 6],
                 [consents |-> {"transactional", "urgent"}, start |-> 8, end |-> 9]}

MCField == {[low |-> FALSE, legal |-> FALSE], [low |-> TRUE, legal |-> FALSE], [low |-> FALSE, legal |-> TRUE]}

(* Each component is asked as often as its longest story needs.               *)
MCMaxRequests == [access |-> 4, contact |-> 5, privacy |-> 5, consumer |-> 2, workforce |-> 5,
                  filing |-> 7, assistant |-> 5]

Symmetry == Permutations(Client) \union Permutations(Person) \union Permutations(Tenant)
              \union Permutations(Resource) \union Permutations(Hash)
=============================================================================
