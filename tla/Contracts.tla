------------------------------ MODULE Contracts ------------------------------
(* One service agreement (internal/contracts): its immutable versions, the    *)
(* acceptance that fixes one of them, and the versioned fee rules from which  *)
(* quotes are computed.  The agreement is read in three statements (its row,  *)
(* its versions, its acceptance) and written under the version of its row.    *)
EXTENDS Requests, Integers, Sequences

CONSTANTS None,
          Terms,         \* terms of a version, which its content hash stands for
          Rule,          \* fee rules saved: [version, points, minimum, setup]
          Revenue,       \* accommodation revenues quoted for, in minor units
          PassThrough,   \* lists of pass-through amounts: [category, amount]
          MaxVersions    \* bound: rows of service_contract_versions

VARIABLES agreement,     \* the row of service_contracts, None before it is created
          versions,      \* service_contract_versions
          acceptances,   \* contract_acceptances
          feeRules,      \* fee_rules
          quoted         \* the last quote answered and the inputs it was for

tables == <<agreement, versions, acceptances, feeRules>>
vars == <<tables, quoted, pc, requests>>

Init ==
  /\ agreement = None
  /\ versions = <<>>
  /\ acceptances = <<>>
  /\ feeRules = {}
  /\ quoted = None
  /\ NoRequests

----------------------------------------------------------------------------
(* The statements of the store                                               *)

HashTerms(terms) == terms

insertAgreement == agreement' = [status |-> "draft", current |-> 1, version |-> 1]

(* The trigger refuses a version of an agreement that has been accepted.      *)
insertAgreementVersion(number, terms) ==
  /\ Len(versions) < MaxVersions
  /\ agreement # None => agreement.status # "accepted"
  /\ versions' = Append(versions, [number |-> number, hash |-> HashTerms(terms)])

(* A fault: the agreement is marked accepted whatever has been added to it.   *)
StoreAcceptAnyway(read, acceptance) ==
  /\ acceptances' = Append(acceptances, acceptance)
  /\ agreement' = [agreement EXCEPT !.status = "accepted", !.version = read.version + 1]

StoreAccept(read, acceptance) ==
  /\ agreement.version = read.version
  /\ acceptances' = Append(acceptances, acceptance)
  /\ agreement' = [agreement EXCEPT !.status = "accepted", !.version = read.version + 1]

StoreVersion(read, terms) ==
  /\ agreement.version = read.version
  /\ insertAgreementVersion(read.current + 1, terms)
  /\ agreement' = [agreement EXCEPT !.current = read.current + 1, !.version = read.version + 1]

(* Unique in (rule_version, currency, service_tier).                          *)
StoreFeeRule(rule) ==
  /\ \A r \in feeRules : r.version # rule.version
  /\ feeRules' = feeRules \union {rule}

GetFeeRule(version) == {r \in feeRules : r.version = version}

----------------------------------------------------------------------------
(* Agreements                                                                *)

CreateAgreement(terms) ==
  /\ agreement = None
  /\ insertAgreement
  /\ insertAgreementVersion(1, terms)
  /\ UNCHANGED <<acceptances, feeRules, quoted>>
handleCreateAgreement(terms) == Served /\ CreateAgreement(terms)

(* An owner creates it for a property of theirs.                              *)
handleCreatePropertyContract(terms) == Served /\ CreateAgreement(terms)

(* getByID: the row first ...                                                 *)
handleAddVersion(c, terms) ==
  /\ agreement # None
  /\ Begin(c, [op |-> "add", row |-> agreement, terms |-> terms])
  /\ UNCHANGED <<tables, quoted>>

handleAccept(c) ==
  /\ agreement # None
  /\ Begin(c, [op |-> "versions", row |-> agreement])
  /\ UNCHANGED <<tables, quoted>>

(* ... then the versions, of which acceptance takes the last.                 *)
listVersions(c) ==
  /\ Under(c, "versions")
  /\ Goes(c, [op |-> "accept", row |-> pc[c].row, last |-> versions[Len(versions)]])
  /\ UNCHANGED <<tables, quoted>>

AddVersion(c) ==
  /\ Under(c, "add")
  /\ pc[c].row.status # "accepted"
  /\ StoreVersion(pc[c].row, pc[c].terms)
  /\ Done(c)
  /\ UNCHANGED <<acceptances, feeRules, quoted>>

Accept(c) ==
  /\ Under(c, "accept")
  /\ pc[c].row.status # "accepted"
  /\ StoreAccept(pc[c].row, pc[c].last)
  /\ Done(c)
  /\ UNCHANGED <<versions, feeRules, quoted>>

----------------------------------------------------------------------------
(* Fee rules and quotes                                                      *)

ValidateFeeRule(rule) == rule.points \in 0 .. 10000 /\ rule.minimum >= 0 /\ rule.setup >= 0

SaveFeeRule(rule) ==
  /\ ValidateFeeRule(rule)
  /\ StoreFeeRule(rule)
  /\ UNCHANGED <<agreement, versions, acceptances, quoted>>
handleSaveFeeRule(rule) == Served /\ SaveFeeRule(rule)

ProtectedPassThrough(category) == category \in {"taxes", "refundable_deposits", "pass_through_cleaning"}

(* What is collected for others is no base of a fee, unless the owner's       *)
(* contract includes it.                                                      *)
IsExcluded(p, included) == p.amount > 0 /\ ProtectedPassThrough(p.category) /\ p.category \notin included

(* The sum of the first n of them.                                            *)
Excluded(passThroughs, included) ==
  LET excluded[n \in 0 .. Len(passThroughs)] ==
        IF n = 0 THEN 0
        ELSE excluded[n - 1] + IF IsExcluded(passThroughs[n], included) THEN passThroughs[n].amount ELSE 0
  IN excluded[Len(passThroughs)]

ComputeFeeBase(revenue, passThroughs, included) == revenue - Excluded(passThroughs, included)

(* A fault: the percentage of the remainder is dropped.                       *)
PercentageOfWhole(base, points) ==
  IF base <= 0 \/ points <= 0 THEN 0 ELSE (base \div 10000) * points

(* The whole ten thousands apart, so that no product overflows.               *)
percentageOf(base, points) ==
  IF base <= 0 \/ points <= 0 THEN 0
  ELSE (base \div 10000) * points + ((base % 10000) * points) \div 10000

CalculateQuote(revenue, passThroughs, included, rule) ==
  LET base == ComputeFeeBase(revenue, passThroughs, included)
      fee  == percentageOf(base, rule.points)
  IN [revenue |-> revenue, passThroughs |-> passThroughs, included |-> included, rule |-> rule, base |-> base,
      fee |-> IF fee < rule.minimum THEN rule.minimum ELSE fee]

Quote(revenue, passThroughs, included, version) ==
  /\ Excluded(passThroughs, included) <= revenue
  /\ \E rule \in GetFeeRule(version) : quoted' = CalculateQuote(revenue, passThroughs, included, rule)
  /\ UNCHANGED tables
handleQuote(revenue, passThroughs, included, version) == Served /\ Quote(revenue, passThroughs, included, version)

----------------------------------------------------------------------------

Abandon(c) == Dropped(c) /\ UNCHANGED <<tables, quoted>>

Next ==
  \/ \E t \in Terms : handleCreateAgreement(t) \/ handleCreatePropertyContract(t)
  \/ \E rule \in Rule : handleSaveFeeRule(rule)
  \/ \E revenue \in Revenue, p \in PassThrough, v \in {r.version : r \in Rule} :
       \E included \in SUBSET {p[n].category : n \in DOMAIN p} : handleQuote(revenue, p, included, v)
  \/ \E c \in Client :
       \/ \E t \in Terms : handleAddVersion(c, t)
       \/ handleAccept(c)
       \/ listVersions(c) \/ AddVersion(c) \/ Accept(c) \/ Abandon(c)

Spec == Init /\ [][Next]_vars

----------------------------------------------------------------------------

(* "The accepted terms are fixed forever": versions are numbered without a    *)
(* gap, an accepted agreement has one acceptance, and that names the content  *)
(* of the version that is current, however versions and acceptances race.     *)
AcceptedIsFixed ==
  /\ \A n \in DOMAIN versions : versions[n].number = n
  /\ agreement # None => agreement.current = Len(versions)
  /\ Len(acceptances) = (IF agreement # None /\ agreement.status = "accepted" THEN 1 ELSE 0)
  /\ \A a \in DOMAIN acceptances : acceptances[a] = versions[agreement.current]

(* The fee of a quote is the exact floor of the percentage of what is left of *)
(* the revenue without the protected amounts the owner did not opt in to, or  *)
(* the minimum of its rule: computed in two parts it loses nothing (FIN-002). *)
QuoteIsExact ==
  quoted # None =>
    LET base  == quoted.revenue - Excluded(quoted.passThroughs, quoted.included)
        exact == (base * quoted.rule.points) \div 10000
    IN quoted.fee = IF exact >= quoted.rule.minimum THEN exact ELSE quoted.rule.minimum
=============================================================================
