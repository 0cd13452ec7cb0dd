----------------------------- MODULE LeasedWork -----------------------------
(***************************************************************************)
(* What a queue of leased work promises, whatever the leases are made of:  *)
(* an item is worked on in turns, a new turn ends the one before, and only *)
(* the worker whose turn it is settles the item; settled for good means    *)
(* settled for good.                                                       *)
(*                                                                         *)
(* There is no lease, no owner column, no clock and no attempt counter     *)
(* here.  JobQueue and AgentRuns implement this specification with a       *)
(* lease_owner compared in the WHERE clause of every write.                *)
(***************************************************************************)
EXTENDS Naturals

CONSTANTS Items, Workers

VARIABLES
  phase,   \* where each item is
  turn,    \* how many turns each item has had
  grip     \* the item and turn each worker believes it is working on, or <<>>

vars == <<phase, turn, grip>>

Init ==
  /\ phase = [i \in Items |-> "absent"]
  /\ turn = [i \in Items |-> 0]
  /\ grip = [w \in Workers |-> <<>>]

Offer(i) ==
  /\ phase[i] = "absent"
  /\ phase' = [phase EXCEPT ![i] = "open"]
  /\ UNCHANGED <<turn, grip>>

\* A worker starts the next turn, possibly taking the item from another one.
Take(w, i) ==
  /\ grip[w] = <<>>
  /\ phase[i] \in {"open", "parked", "held"}
  /\ phase' = [phase EXCEPT ![i] = "held"]
  /\ turn' = [turn EXCEPT ![i] = @ + 1]
  /\ grip' = [grip EXCEPT ![w] = <<i, turn[i] + 1>>]

\* The worker whose turn it is ends it.
Settle(w, i) ==
  /\ phase[i] = "held"
  /\ grip[w] = <<i, turn[i]>>
  /\ \E p \in {"done", "parked", "dropped"} : phase' = [phase EXCEPT ![i] = p]
  /\ grip' = [grip EXCEPT ![w] = <<>>]
  /\ UNCHANGED turn

\* A worker forgets its work; the item does not notice.
LetGo(w) ==
  /\ grip' = [grip EXCEPT ![w] = <<>>]
  /\ UNCHANGED <<phase, turn>>

\* Held items are taken away from their workers.
Lapse(S) ==
  /\ \A i \in S : phase[i] = "held"
  /\ \E f \in [S -> {"open", "parked", "dropped"}] :
       phase' = [i \in Items |-> IF i \in S THEN f[i] ELSE phase[i]]
  /\ UNCHANGED <<turn, grip>>

\* A parked item is offered again, an item not held is withdrawn.
Reopen(i) ==
  /\ phase[i] = "parked"
  /\ phase' = [phase EXCEPT ![i] = "open"]
  /\ UNCHANGED <<turn, grip>>

Withdraw(i) ==
  /\ phase[i] \in {"open", "parked"}
  /\ phase' = [phase EXCEPT ![i] = "dropped"]
  /\ UNCHANGED <<turn, grip>>

Next ==
  \/ \E i \in Items : Offer(i) \/ Reopen(i) \/ Withdraw(i)
  \/ \E w \in Workers : LetGo(w) \/ \E i \in Items : Take(w, i) \/ Settle(w, i)
  \/ \E S \in SUBSET Items : Lapse(S)

Spec == Init /\ [][Next]_vars

=============================================================================
