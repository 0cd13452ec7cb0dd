-------------------------- MODULE ReliableEffects --------------------------
(***************************************************************************)
(* What idempotent processing and the transactional outbox promise         *)
(* together: of the calls made under one key a single one takes effect,    *)
(* every answer names it, and the event of an effect, and of nothing else, *)
(* is sent at least once or openly given up.                               *)
(*                                                                         *)
(* There are no transactions, row locks, retries or relays here: an effect *)
(* and its event appear in one step.  Durability implements it.            *)
(***************************************************************************)
EXTENDS Naturals

CONSTANTS Calls, KeyOf, BodiesOf, None

VARIABLES
  effects,   \* the calls that took effect
  asked,     \* what a call that took effect or was answered had asked for
  answer,    \* the call whose effect the answer names
  mail,      \* the event of each call
  sent       \* how often that event has reached the sink

vars == <<effects, asked, answer, mail, sent>>

Init ==
  /\ effects = {}
  /\ asked = [c \in Calls |-> None]
  /\ answer = [c \in Calls |-> None]
  /\ mail = [c \in Calls |-> "none"]
  /\ sent = [c \in Calls |-> 0]

\* The first effect under a key.
Happen(c) ==
  /\ asked[c] = None
  /\ \A d \in effects : KeyOf[d] # KeyOf[c]
  /\ effects' = effects \cup {c}
  /\ \E b \in BodiesOf[c] : asked' = [asked EXCEPT ![c] = b]
  /\ answer' = [answer EXCEPT ![c] = c]
  /\ mail' = [mail EXCEPT ![c] = "due"]
  /\ UNCHANGED sent

\* A call is told about an earlier effect, if it asks for the same.
Repeat(c) ==
  /\ asked[c] = None
  /\ \E first \in effects :
       /\ KeyOf[first] = KeyOf[c]
       /\ asked[first] \in BodiesOf[c]
       /\ asked' = [asked EXCEPT ![c] = asked[first]]
       /\ answer' = [answer EXCEPT ![c] = first]
  /\ UNCHANGED <<effects, mail, sent>>

Send(c) ==
  /\ mail[c] = "due"
  /\ sent' = [sent EXCEPT ![c] = @ + 1]
  /\ UNCHANGED <<effects, asked, answer, mail>>

Settle(c) ==
  /\ mail[c] = "due"
  /\ \/ sent[c] > 0 /\ mail' = [mail EXCEPT ![c] = "delivered"]
     \/ mail' = [mail EXCEPT ![c] = "abandoned"]
  /\ UNCHANGED <<effects, asked, answer, sent>>

Next == \E c \in Calls : Happen(c) \/ Repeat(c) \/ Send(c) \/ Settle(c)

Spec == Init /\ [][Next]_vars

=============================================================================
