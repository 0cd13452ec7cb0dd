------------------------------ MODULE Requests ------------------------------
(* The requests an API server has under way, as the services share them: a    *)
(* request takes one step for each thing it reads and one for its transaction,*)
(* and keeps in its frame what it has read so far.  Between two steps of one  *)
(* request any other may take a step.                                         *)
EXTENDS Naturals

CONSTANTS Client,        \* requests served at one time
          MaxRequests    \* bound: requests served in one behaviour

VARIABLES pc,            \* the frame of each request under way
          requests       \* how many have been served

Idle == [op |-> "idle"]

NoRequests == pc = [c \in Client |-> Idle] /\ requests = 0

(* A request whose whole work is one transaction.                             *)
Served == requests < MaxRequests /\ requests' = requests + 1 /\ UNCHANGED pc

Begin(c, frame) ==
  /\ pc[c] = Idle
  /\ requests < MaxRequests
  /\ requests' = requests + 1
  /\ pc' = [pc EXCEPT ![c] = frame]

(* It goes on with what it has read ...                                       *)
Goes(c, frame) == pc' = [pc EXCEPT ![c] = frame] /\ UNCHANGED requests

(* ... until it commits, is refused, or the server dies.                      *)
Done(c) == Goes(c, Idle)
Under(c, op) == pc[c].op = op
Dropped(c) == pc[c] # Idle /\ Done(c)
=============================================================================
