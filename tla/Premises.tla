------------------------------- MODULE Premises -------------------------------
(* The components that keep what is true of one property: its calendar, its   *)
(* lifecycle with the compliance items that may hold it, the onboarding of its*)
(* owner, the owner's contract and the stock of consumables.  They share no   *)
(* table and no request, so a behaviour is one of one of them.                *)
EXTENDS Integers, Sequences, FiniteSets

CONSTANTS None, Client,
          Feed, Uid, Content, MinimumTurnaround,          \* of Calendar
          HoldKind, Initial, Expiry, WarningWindow,       \* of Compliance
          MaxHolds, MaxItems, MaxWarnings,
          Section, Begun, MaxRows,                        \* of Onboarding
          Terms, Rule, Revenue, PassThrough, MaxVersions, \* of Contracts
          Movement, Counted, MaxCounts,                   \* of Inventory
          MaxTime,       \* bound of the clocks
          MaxRequests    \* bound: requests served to each component

VARIABLES part,          \* the component whose behaviour this is
          pc, requests,  \* as in Requests, whichever it is
          feeds, events, exceptions, reservations, conflicts, resolutions, proposals, raced,
          property, holds, transitions, items, warnings, now,
          case, evidence, inspections,
          agreement, versions, acceptances, feeRules, quoted,
          locations, movements, counts, lines, lock, countLock, time

Stays == INSTANCE Calendar WITH Worker <- Client, MaxRequests <- MaxRequests["calendar"]
Home == INSTANCE Compliance WITH Kind <- HoldKind, MaxRequests <- MaxRequests["lifecycle"]
Owner == INSTANCE Onboarding WITH MaxRequests <- MaxRequests["owner"]
Contract == INSTANCE Contracts WITH MaxRequests <- MaxRequests["contract"]
Stock == INSTANCE Inventory WITH now <- time, MaxRequests <- MaxRequests["stock"]

(* What a feed publishes, and the rows kept of it and of a contract; an event *)
(* has the status that was listed, or is no longer listed.                    *)
Stay == [start : Int, end : Int, ambiguous : BOOLEAN]
Listed == [uid : Uid, stay : Stay, status : STRING]
Event == [stay : Stay, status : STRING \union {"no_longer_listed"}]
Reservation == [status : {"active", "cancelled"}, stay : Stay]
Proposal == [status : {"proposed", "cancelled"}, at : Int]

Agreement == [status : {"draft", "accepted"}, current : Nat, version : Nat]

(* An onboarding that was interrupted had no inspection yet.                  *)
Case == [status : {"in_progress", "ready", "activated"}, sections : SUBSET Section, contacts : BOOLEAN, version : Nat]

ASSUME BegunIsInProgress == \A b \in Begun : b \in Case /\ b.status = "in_progress"

(* A property is created in a state of the lifecycle.                         *)
Property == [state : Home!States, ready : BOOLEAN, version : Nat]

ASSUME InitialIsState == Initial \subseteq Home!States

ASSUME ContentIsListed == Content \in [Feed -> SUBSET SUBSET Listed]
ASSUME FeedsAreFinite == IsFiniteSet(Feed) /\ IsFiniteSet(Uid)
ASSUME NoneIsNull ==
  None \notin Event \union Reservation \union Proposal \union Property \union Case \union Agreement \union Client \union Nat

(* Amounts are in minor units.                                                *)
ASSUME AmountsAreMinorUnits ==
  /\ Revenue \subseteq Int
  /\ \A r \in Rule : r.points \in Int /\ r.minimum \in Int /\ r.setup \in Int
  /\ \A p \in PassThrough : p \in Seq([category : STRING, amount : Int])

(* Pieces are counted.                                                        *)
ASSUME PiecesAreCounted ==
  /\ Movement \subseteq STRING \X Int \X Nat
  /\ Counted \subseteq Int
  /\ MaxTime \in Nat

calendar  == <<feeds, events, exceptions, reservations, conflicts, resolutions, proposals, raced>>
lifecycle == <<property, holds, transitions, items, warnings, now>>
owner     == <<case, evidence, inspections>>
contract  == <<agreement, versions, acceptances, feeRules, quoted>>
stock     == <<locations, movements, counts, lines, lock, countLock, time>>
vars == <<part, pc, requests, calendar, lifecycle, owner, contract, stock>>

Init ==
  /\ part \in {"calendar", "lifecycle", "owner", "contract", "stock"}
  /\ Stays!Init
  /\ Home!Init
  /\ Owner!Init
  /\ Contract!Init
  /\ Stock!Init
  /\ part # "calendar" => \A f \in Feed : feeds[f] = None
  /\ part # "owner" => case = None
  /\ part # "stock" => locations = 0

StaysStep == part = "calendar" /\ Stays!Next /\ UNCHANGED <<part, lifecycle, owner, contract, stock>>
HomeStep == part = "lifecycle" /\ Home!Next /\ UNCHANGED <<part, calendar, owner, contract, stock>>
OwnerStep == part = "owner" /\ Owner!Next /\ UNCHANGED <<part, calendar, lifecycle, contract, stock>>
ContractStep == part = "contract" /\ Contract!Next /\ UNCHANGED <<part, calendar, lifecycle, owner, stock>>
StockStep == part = "stock" /\ Stock!Next /\ UNCHANGED <<part, calendar, lifecycle, owner, contract>>

Next == StaysStep \/ HomeStep \/ OwnerStep \/ ContractStep \/ StockStep

Spec == Init /\ [][Next]_vars

----------------------------------------------------------------------------

(* Every stay is what its event says, and work is proposed for it and no other. *)
StaysAreServed == part = "calendar" => Stays!StaysAreServed

(* Double bookings are reported, and a conflict is decided once.              *)
ConflictsSettled == part = "calendar" => Stays!ConflictsSettled

(* The log of transitions is a chain that ends in the state of the property.  *)
LifecycleOnRecord == part = "lifecycle" => Home!LifecycleOnRecord

(* What a scan found expired holds the property.                              *)
HeldOnceScanned == part = "lifecycle" => Home!HeldOnceScanned

(* The status of an onboarding is what its checklist makes it.                *)
StatusTellsChecklist == part = "owner" => Owner!StatusTellsChecklist

(* An accepted version stays as it was accepted, and is the only one.         *)
AcceptedIsFixed == part = "contract" => Contract!AcceptedIsFixed

(* A quote is exact to the minor unit.                                        *)
QuoteIsExact == part = "contract" => Contract!QuoteIsExact

(* No movement but an adjustment takes what is not there, however requests    *)
(* for the last piece race; what a count writes off meanwhile it does not see.*)
StockIsThere == part = "stock" => Stock!StockIsThere
=============================================================================
