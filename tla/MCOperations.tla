---------------------------- MODULE MCOperations ----------------------------
(* One incident that is about to be scheduled or is under way, or a closed    *)
(* turnover, with a checklist item that requires evidence.                    *)
EXTENDS Operations

CONSTANTS w1, w2

MCStartTickets ==
  {<<[NewTicket(type) EXCEPT !.status = s]>> :
     type \in {TypeTurnover, TypeIncident}, s \in {"scheduled", "evidence_submitted", "cancelled"}}

MCItem == [ticket |-> 1, index |-> 1, status |-> "pending", required |-> TRUE, evidence |-> {}, version |-> 1]
MCStartItems == {<<>>, <<MCItem>>}

MCPayload ==
  {[index |-> 1, status |-> "completed", required |-> r, evidence |-> {}] : r \in BOOLEAN}

(* Both are trained for either: an incident needs an override all the same,   *)
(* since it is of high risk.                                                  *)
MCProfile ==
  [w \in {w1, w2} |-> [adult |-> TRUE, skills |-> {TypeTurnover, TypeIncident}]]

(* One has a window of availability, the other none yet.                      *)
MCStartWorkers ==
  {[w \in {w1, w2} |-> [active |-> TRUE, available |-> w = w1, rested |-> TRUE, writes |-> 0]]}
=============================================================================
