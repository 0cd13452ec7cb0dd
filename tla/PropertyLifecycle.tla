-------------------------- MODULE PropertyLifecycle --------------------------
(* One property (internal/property): the frozen lifecycle of its state, the   *)
(* readiness and the compliance holds that gate its activation, and the       *)
(* record of its transitions.  Its row is updated under its version; its      *)
(* holds are rows of their own, read without a lock and written by id.        *)
EXTENDS Requests, Sequences

CONSTANTS None,
          Kind,          \* kinds of compliance hold
          Initial,       \* initial states asked for
          MaxHolds,      \* bound: rows of property_compliance_holds
          MaxTime        \* bound of the clock

VARIABLES property,      \* the row of properties, None before it is created
          holds,         \* property_compliance_holds
          transitions,   \* property_transitions
          now

lifecycle == <<property, holds, transitions>>

States == {"lead", "qualifying", "onboarding", "remediation", "ready_inactive", "active",
           "paused", "suspended", "offboarding", "archived"}

Leaving == {"offboarding", "archived"}
validTransitions ==
  [s \in States |->
     CASE s = "lead"           -> {"qualifying"} \union Leaving
       [] s = "qualifying"     -> {"onboarding", "lead"} \union Leaving
       [] s = "onboarding"     -> {"remediation", "ready_inactive"} \union Leaving
       [] s = "remediation"    -> {"onboarding", "ready_inactive"} \union Leaving
       [] s = "ready_inactive" -> {"active"} \union Leaving
       [] s = "active"         -> {"paused", "suspended"} \union Leaving
       [] s = "paused"         -> {"active"} \union Leaving
       [] s = "suspended"      -> {"paused"} \union Leaving
       [] s = "offboarding"    -> {"archived"}
       [] s = "archived"       -> {}]

CanTransition(from, to) == to \in validTransitions[from]

LifecycleInit ==
  /\ property = None
  /\ holds = <<>>
  /\ transitions = <<>>
  /\ now = 0

----------------------------------------------------------------------------
(* The statements of the store                                               *)

createProperty(state) == property' = [state |-> state, ready |-> FALSE, version |-> 1]

(* A fault: the row is updated whatever its version.                          *)
UpdateAnyVersion(read, to) ==
  property' = [property EXCEPT !.state = to, !.version = read.version + 1]

updatePropertyState(read, to) ==
  /\ property.version = read.version
  /\ property' = [property EXCEPT !.state = to, !.version = read.version + 1]

setPropertyReadiness(ready) ==
  property' = [property EXCEPT !.ready = ready, !.version = @ + 1]

(* "ready" tells, for the properties below, what the row said meanwhile.      *)
insertTransition(from, to, version) ==
  transitions' = Append(transitions, [from |-> from, to |-> to, version |-> version, ready |-> property.ready])

insertComplianceHold(row) == Len(holds) < MaxHolds /\ holds' = Append(holds, row)

updateComplianceHold(h, row) == holds' = [holds EXCEPT ![h] = row]

----------------------------------------------------------------------------
(* Holds and exceptions                                                      *)

NewComplianceHold(kind, critical) ==
  [kind |-> kind, critical |-> critical, status |-> "open", until |-> 0]

HasValidException(hold) == hold.status = "excepted" /\ now <= hold.until

BlocksActivation(hold) == hold.critical /\ hold.status # "resolved" /\ ~HasValidException(hold)

OpenCriticalHolds == {h \in DOMAIN holds : BlocksActivation(holds[h])}

EvaluateActivation(row) == row.ready /\ OpenCriticalHolds = {}

GrantException(hold) == [hold EXCEPT !.status = "excepted", !.until = now + 1]
Resolve(hold) == [hold EXCEPT !.status = "resolved"]

----------------------------------------------------------------------------
(* The operations of the service                                             *)

CreateProperty(state) ==
  /\ property = None
  /\ createProperty(state)
  /\ UNCHANGED <<holds, transitions, now>>
handleCreateProperty(state) == Served /\ CreateProperty(state)

SetReadiness(ready) ==
  /\ property # None
  /\ setPropertyReadiness(ready)
  /\ UNCHANGED <<holds, transitions, now>>
handleSetReadiness(ready) == Served /\ SetReadiness(ready)

handleTransitionProperty(c, to) ==
  /\ property # None
  /\ Begin(c, [op |-> "transition", to |-> to, row |-> property])
  /\ UNCHANGED <<lifecycle, now>>

(* The holds are read after the row, and the gate looks at both.              *)
CanActivate(c) ==
  LET f == pc[c] IN
  /\ Under(c, "transition")
  /\ CanTransition(f.row.state, f.to)
  /\ f.to = "active" => EvaluateActivation(f.row)
  /\ Goes(c, [f EXCEPT !.op = "move"])
  /\ UNCHANGED <<lifecycle, now>>

TransitionProperty(c) ==
  LET f == pc[c] IN
  /\ Under(c, "move")
  /\ updatePropertyState(f.row, f.to)
  /\ insertTransition(f.row.state, f.to, f.row.version)
  /\ Done(c)
  /\ UNCHANGED <<holds, now>>

AddComplianceHold(kind, critical) ==
  /\ property # None
  /\ insertComplianceHold(NewComplianceHold(kind, critical))
  /\ UNCHANGED <<property, transitions, now>>
handleAddComplianceHold(kind, critical) == Served /\ AddComplianceHold(kind, critical)

handleResolveComplianceHold(c, h) ==
  /\ holds[h].status = "open"
  /\ Begin(c, [op |-> "resolve", hold |-> h, row |-> Resolve(holds[h])])
  /\ UNCHANGED <<lifecycle, now>>

handleGrantComplianceException(c, h) ==
  /\ holds[h].status = "open"
  /\ Begin(c, [op |-> "except", hold |-> h, row |-> GrantException(holds[h])])
  /\ UNCHANGED <<lifecycle, now>>

(* Whoever writes last decides: the row is not looked at again.               *)
ResolveComplianceHold(c) ==
  /\ Under(c, "resolve")
  /\ updateComplianceHold(pc[c].hold, pc[c].row)
  /\ Done(c)
  /\ UNCHANGED <<property, transitions, now>>

GrantComplianceException(c) ==
  /\ Under(c, "except")
  /\ updateComplianceHold(pc[c].hold, pc[c].row)
  /\ Done(c)
  /\ UNCHANGED <<property, transitions, now>>

Tick == now < MaxTime /\ now' = now + 1 /\ UNCHANGED <<lifecycle, pc, requests>>

LifecycleNext ==
  \/ \E s \in Initial : handleCreateProperty(s)
  \/ \E ready \in BOOLEAN : handleSetReadiness(ready)
  \/ \E kind \in Kind, critical \in BOOLEAN : handleAddComplianceHold(kind, critical)
  \/ \E c \in Client :
       \/ \E to \in States : handleTransitionProperty(c, to)
       \/ \E h \in DOMAIN holds : handleResolveComplianceHold(c, h) \/ handleGrantComplianceException(c, h)
       \/ CanActivate(c) \/ TransitionProperty(c) \/ ResolveComplianceHold(c) \/ GrantComplianceException(c)
  \/ Tick

----------------------------------------------------------------------------

(* The record of transitions is a path of the frozen lifecycle that ends in   *)
(* the state of the property, however requests interleave, and a property is  *)
(* not made active once its readiness has been withdrawn (PROP-002).          *)
LifecycleOnRecord ==
  /\ \A n \in DOMAIN transitions :
       LET t == transitions[n] IN
       /\ CanTransition(t.from, t.to)
       /\ t.to = "active" => t.ready
       /\ n > 1 => t.from = transitions[n - 1].to /\ t.version > transitions[n - 1].version
  /\ transitions # <<>> => property.state = transitions[Len(transitions)].to
=============================================================================
