---------------------------- MODULE PremisesProofs ----------------------------
(***************************************************************************)
(* The invariants of the components that keep what is true of a property   *)
(* hold in every reachable state, whatever the requests, the feeds, the    *)
(* amounts and the bounds.  Each rests on an inductive invariant that says *)
(* what a request under way relies on of what it has read.                 *)
(***************************************************************************)
EXTENDS Premises, TableLemmas

\* A behaviour stays with its component: the others take no step.
LEMMA Moves ==
  ASSUME [Next]_vars
  PROVE  /\ part' = part
         /\ part = "calendar" => Stays!Next \/ UNCHANGED <<calendar, pc, requests>>
         /\ part = "lifecycle" => Home!Next \/ UNCHANGED <<lifecycle, pc, requests>>
         /\ part = "owner" => Owner!Next \/ UNCHANGED <<owner, pc, requests>>
         /\ part = "contract" => Contract!Next \/ UNCHANGED <<contract, pc, requests>>
         /\ part = "stock" => Stock!Next \/ UNCHANGED <<stock, pc, requests>>
  BY DEF Next, StaysStep, HomeStep, OwnerStep, ContractStep, StockStep, vars

-----------------------------------------------------------------------------
(* The agreement of an owner, and its quotes *)

\* A row that was read has a version that is past, or the agreement is as it was.
ReadAgreement(row) ==
  /\ agreement # None
  /\ row.version \in Nat /\ row.version <= agreement.version
  /\ row.version = agreement.version => row = agreement

Agreeing(c) ==
  LET f == pc[c] IN
  /\ f.op \in {"idle", "add", "versions", "accept"}
  /\ f.op \in {"add", "versions", "accept"} => ReadAgreement(f.row)
  /\ f.op = "accept" /\ f.row.version = agreement.version => f.last = versions[Len(versions)]

\* An agreement has its versions, and when it is accepted the acceptance of the last.
Accepting ==
  /\ IsTable(versions)
  /\ IsTable(acceptances)
  /\ \A n \in DOMAIN versions : versions[n].number = n
  /\ agreement = None => Len(versions) = 0 /\ Len(acceptances) = 0
  /\ agreement # None => /\ agreement \in Agreement
                         /\ agreement.current = Len(versions)
                         /\ Len(versions) # 0
                         /\ Len(acceptances) = (IF agreement.status = "accepted" THEN 1 ELSE 0)
  /\ \A a \in DOMAIN acceptances : acceptances[a] = versions[Len(versions)]

AcceptedInv ==
  /\ DOMAIN pc = Client
  /\ Accepting
  /\ \A c \in Client : Agreeing(c)

\* A frame may go back to idle, while the agreement stays.
LEMMA AgreeingGoes ==
  ASSUME AcceptedInv, UNCHANGED <<agreement, versions, acceptances>>, NEW c \in Client, NEW frame,
         pc' = [pc EXCEPT ![c] = frame], Agreeing(c)'
  PROVE  AcceptedInv'
  <1>1. Accepting'
    BY DEF AcceptedInv, Accepting
  <1>2. ASSUME NEW d \in Client
        PROVE  Agreeing(d)'
    <2>1. CASE d = c
      BY <2>1
    <2>2. CASE d # c
      <3>1. pc'[d] = pc[d]
        BY <2>2 DEF AcceptedInv
      <3>2. QED
        BY <3>1 DEF AcceptedInv, Agreeing, ReadAgreement
    <2>3. QED
      BY <2>1, <2>2
  <1>3. QED
    BY <1>1, <1>2 DEF AcceptedInv

\* A write raises the version of the agreement: what the others have read is past.
LEMMA AgreeingPast ==
  ASSUME AcceptedInv, NEW c \in Client, pc' = [pc EXCEPT ![c] = Contract!Idle],
         agreement # None, agreement' # None, agreement'.version = agreement.version + 1,
         Accepting'
  PROVE  AcceptedInv'
  <1>1. ASSUME NEW d \in Client
        PROVE  Agreeing(d)'
    <2>1. CASE d = c
      <3>1. pc'[d] = Contract!Idle
        BY <2>1 DEF AcceptedInv
      <3>2. QED
        BY <3>1 DEF Agreeing, Contract!Idle
    <2>2. CASE d # c
      <3>1. pc'[d] = pc[d] /\ Agreeing(d) /\ agreement.version \in Nat
        BY <2>2 DEF AcceptedInv, Accepting, Agreement
      <3>2. QED
        BY <3>1 DEF Agreeing, ReadAgreement
    <2>3. QED
      BY <2>1, <2>2
  <1>2. QED
    BY <1>1 DEF AcceptedInv

LEMMA AcceptedStep ==
  ASSUME AcceptedInv, Contract!Next
  PROVE  AcceptedInv'
  <1>1. ASSUME NEW t \in Terms, Contract!handleCreateAgreement(t) \/ Contract!handleCreatePropertyContract(t)
        PROVE  AcceptedInv'
    <2> DEFINE row == [number |-> 1, hash |-> Contract!HashTerms(t)]
    <2>1. /\ pc' = pc /\ agreement = None
          /\ agreement' = [status |-> "draft", current |-> 1, version |-> 1]
          /\ versions' = Append(versions, row)
          /\ acceptances' = acceptances
      BY <1>1 DEF Contract!handleCreateAgreement, Contract!handleCreatePropertyContract, Contract!Served,
                  Contract!CreateAgreement, Contract!insertAgreement, Contract!insertAgreementVersion
    <2>2. row.number = 1
      OBVIOUS
    <2> HIDE DEF row
    <2>3. /\ IsTable(versions) /\ IsTable(acceptances) /\ Len(versions) = 0 /\ Len(acceptances) = 0
          /\ DOMAIN acceptances = {} /\ DOMAIN versions = {}
      BY <2>1, TableRows DEF AcceptedInv, Accepting
    <2>4. IsTable(versions') /\ Len(versions') = 1 /\ DOMAIN versions' = {1} /\ versions'[1] = row
      <3>1. /\ IsTable(versions') /\ Len(versions') = Len(versions) + 1
            /\ DOMAIN versions' = DOMAIN versions \union {Len(versions) + 1}
            /\ versions'[Len(versions) + 1] = row
        BY <2>1, <2>3, TableInserted
      <3>2. QED
        BY <2>3, <3>1
    <2>5. agreement' \in Agreement /\ agreement' # None
      BY <2>1, NoneIsNull DEF Agreement
    <2>6. Accepting'
      BY <2>1, <2>2, <2>3, <2>4, <2>5 DEF Accepting
    <2>7. \A c \in Client : Agreeing(c)'
      BY <2>1, <2>5 DEF AcceptedInv, Agreeing, ReadAgreement
    <2>8. QED
      BY <2>1, <2>6, <2>7 DEF AcceptedInv
  <1>2. ASSUME NEW rule \in Rule, Contract!handleSaveFeeRule(rule)
        PROVE  AcceptedInv'
    BY <1>2 DEF Contract!handleSaveFeeRule, Contract!Served, Contract!SaveFeeRule,
                AcceptedInv, Accepting, Agreeing, ReadAgreement
  <1>3. ASSUME NEW revenue, NEW p, NEW v, NEW included, Contract!handleQuote(revenue, p, included, v)
        PROVE  AcceptedInv'
    BY <1>3 DEF Contract!handleQuote, Contract!Served, Contract!Quote, Contract!tables,
                AcceptedInv, Accepting, Agreeing, ReadAgreement
  <1>4. ASSUME NEW c \in Client, NEW t \in Terms, Contract!handleAddVersion(c, t)
        PROVE  AcceptedInv'
    <2> DEFINE frame == [op |-> "add", row |-> agreement, terms |-> t]
    <2>1. pc' = [pc EXCEPT ![c] = frame] /\ agreement # None /\ UNCHANGED <<agreement, versions, acceptances>>
      BY <1>4 DEF Contract!handleAddVersion, Contract!Begin, Contract!tables
    <2>2. pc'[c] = frame
      BY <2>1 DEF AcceptedInv
    <2>3. Agreeing(c)'
      BY <2>1, <2>2 DEF Agreeing, ReadAgreement, AcceptedInv, Accepting, Agreement
    <2>4. QED
      BY <2>1, <2>3, AgreeingGoes
  <1>5. ASSUME NEW c \in Client, Contract!handleAccept(c)
        PROVE  AcceptedInv'
    <2> DEFINE frame == [op |-> "versions", row |-> agreement]
    <2>1. pc' = [pc EXCEPT ![c] = frame] /\ agreement # None /\ UNCHANGED <<agreement, versions, acceptances>>
      BY <1>5 DEF Contract!handleAccept, Contract!Begin, Contract!tables
    <2>2. pc'[c] = frame
      BY <2>1 DEF AcceptedInv
    <2>3. Agreeing(c)'
      BY <2>1, <2>2 DEF Agreeing, ReadAgreement, AcceptedInv, Accepting, Agreement
    <2>4. QED
      BY <2>1, <2>3, AgreeingGoes
  <1>6. ASSUME NEW c \in Client, Contract!listVersions(c)
        PROVE  AcceptedInv'
    <2> DEFINE frame == [op |-> "accept", row |-> pc[c].row, last |-> versions[Len(versions)]]
    <2>1. /\ pc' = [pc EXCEPT ![c] = frame] /\ pc[c].op = "versions"
          /\ UNCHANGED <<agreement, versions, acceptances>>
      BY <1>6 DEF Contract!listVersions, Contract!Goes, Contract!Under, Contract!tables
    <2>2. pc'[c] = frame
      BY <2>1 DEF AcceptedInv
    <2>3. Agreeing(c)'
      BY <2>1, <2>2 DEF Agreeing, ReadAgreement, AcceptedInv
    <2>4. QED
      BY <2>1, <2>3, AgreeingGoes
  <1>7. ASSUME NEW c \in Client, Contract!AddVersion(c)
        PROVE  AcceptedInv'
    <2> DEFINE f == pc[c]
               row == [number |-> f.row.current + 1, hash |-> Contract!HashTerms(f.terms)]
    <2>1. /\ f.op = "add" /\ agreement.version = f.row.version
          /\ f.row.status # "accepted"
          /\ pc' = [pc EXCEPT ![c] = Contract!Idle]
          /\ agreement' = [agreement EXCEPT !.current = f.row.current + 1, !.version = f.row.version + 1]
          /\ versions' = Append(versions, row)
          /\ acceptances' = acceptances
      BY <1>7 DEF Contract!AddVersion, Contract!StoreVersion, Contract!insertAgreementVersion, Contract!Under,
                  Contract!Done, Contract!Goes
    <2>2. row.number = f.row.current + 1
      OBVIOUS
    <2> HIDE DEF row
    <2>3. /\ agreement # None /\ f.row = agreement /\ IsTable(versions) /\ IsTable(acceptances)
          /\ agreement.current = Len(versions) /\ agreement.version \in Nat
          /\ agreement.status # "accepted" /\ Len(acceptances) = 0
          /\ agreement \in Agreement
      BY <2>1 DEF AcceptedInv, Agreeing, ReadAgreement, Accepting, Agreement
    <2>4. DOMAIN acceptances = {}
      BY <2>3, TableRows
    <2>5. /\ IsTable(versions') /\ Len(versions') = Len(versions) + 1
          /\ DOMAIN versions' = DOMAIN versions \union {Len(versions) + 1}
          /\ \A n \in DOMAIN versions : versions'[n] = versions[n]
          /\ versions'[Len(versions) + 1] = row
          /\ Len(versions) \in Nat
      BY <2>1, <2>3, TableInserted, TableRows
    <2>6. /\ agreement'.status = agreement.status /\ agreement'.current = Len(versions) + 1
          /\ agreement'.version = agreement.version + 1
      BY <2>1, <2>3 DEF Agreement
    <2>7. agreement' \in Agreement /\ agreement' # None
      <3>1. f.row.current + 1 \in Nat /\ f.row.version + 1 \in Nat
        BY <2>3, <2>5 DEF Agreement
      <3>2. agreement' \in Agreement
        BY <2>1, <2>3, <3>1 DEF Agreement
      <3>3. QED
        BY <3>2, NoneIsNull
    <2>8. \A n \in DOMAIN versions' : versions'[n].number = n
      BY <2>2, <2>3, <2>5 DEF AcceptedInv, Accepting
    <2>9. Accepting'
      BY <2>1, <2>3, <2>4, <2>5, <2>6, <2>7, <2>8 DEF Accepting
    <2>10. QED
      BY <2>1, <2>3, <2>6, <2>7, <2>9, AgreeingPast
  <1>8. ASSUME NEW c \in Client, Contract!Accept(c)
        PROVE  AcceptedInv'
    <2> DEFINE f == pc[c]
    <2>1. /\ f.op = "accept" /\ agreement.version = f.row.version
          /\ f.row.status # "accepted"
          /\ pc' = [pc EXCEPT ![c] = Contract!Idle]
          /\ agreement' = [agreement EXCEPT !.status = "accepted", !.version = f.row.version + 1]
          /\ versions' = versions
          /\ acceptances' = Append(acceptances, f.last)
      BY <1>8 DEF Contract!Accept, Contract!StoreAccept, Contract!Under, Contract!Done, Contract!Goes
    <2>2. /\ agreement # None /\ f.row = agreement /\ IsTable(versions) /\ IsTable(acceptances)
          /\ agreement.version \in Nat /\ f.last = versions[Len(versions)]
          /\ agreement.status # "accepted" /\ Len(acceptances) = 0
          /\ agreement \in Agreement
      BY <2>1 DEF AcceptedInv, Agreeing, ReadAgreement, Accepting, Agreement
    <2>3. DOMAIN acceptances = {}
      BY <2>2, TableRows
    <2>4. IsTable(acceptances') /\ Len(acceptances') = 1 /\ DOMAIN acceptances' = {1} /\ acceptances'[1] = f.last
      <3>1. /\ IsTable(acceptances') /\ Len(acceptances') = Len(acceptances) + 1
            /\ DOMAIN acceptances' = DOMAIN acceptances \union {Len(acceptances) + 1}
            /\ acceptances'[Len(acceptances) + 1] = f.last
        BY <2>1, <2>2, TableInserted
      <3>2. QED
        BY <2>2, <2>3, <3>1
    <2>5. /\ agreement'.status = "accepted" /\ agreement'.current = agreement.current
          /\ agreement'.version = agreement.version + 1
      BY <2>1, <2>2 DEF Agreement
    <2>6. agreement' \in Agreement /\ agreement' # None
      <3>1. f.row.version + 1 \in Nat
        BY <2>2 DEF Agreement
      <3>2. agreement' \in Agreement
        BY <2>1, <2>2, <3>1 DEF Agreement
      <3>3. QED
        BY <3>2, NoneIsNull
    <2>7. Accepting'
      BY <2>1, <2>2, <2>4, <2>5, <2>6 DEF Accepting, AcceptedInv
    <2>8. QED
      BY <2>1, <2>2, <2>5, <2>6, <2>7, AgreeingPast
  <1>9. ASSUME NEW c \in Client, Contract!Abandon(c)
        PROVE  AcceptedInv'
    <2>1. pc' = [pc EXCEPT ![c] = Contract!Idle] /\ UNCHANGED <<agreement, versions, acceptances>>
      BY <1>9 DEF Contract!Abandon, Contract!Dropped, Contract!Done, Contract!Goes, Contract!tables
    <2>2. pc'[c] = Contract!Idle
      BY <2>1 DEF AcceptedInv
    <2>3. Agreeing(c)'
      BY <2>2 DEF Agreeing, Contract!Idle
    <2>4. QED
      BY <2>1, <2>3, AgreeingGoes
  <1>10. QED
    BY <1>1, <1>2, <1>3, <1>4, <1>5, <1>6, <1>7, <1>8, <1>9 DEF Contract!Next

\* "The accepted terms are fixed forever": an accepted agreement has one acceptance, of the
\* version that is current, however versions and acceptances race.
THEOREM AcceptedCorrect == Spec => []AcceptedIsFixed
  <1> DEFINE Inv == part = "contract" => AcceptedInv
  <1>1. Init => Inv
    <2> SUFFICES ASSUME Init
                 PROVE  AcceptedInv
      OBVIOUS
    <2>1. /\ agreement = None /\ versions = <<>> /\ acceptances = <<>>
          /\ pc = [c \in Client |-> Contract!Idle]
      BY DEF Init, Contract!Init, Contract!NoRequests
    <2>2. Accepting
      BY <2>1, EmptyTable DEF Accepting
    <2>3. QED
      BY <2>1, <2>2 DEF AcceptedInv, Agreeing, Contract!Idle
  <1>2. Inv /\ [Next]_vars => Inv'
    <2> SUFFICES ASSUME Inv, [Next]_vars, part' = "contract"
                 PROVE  AcceptedInv'
      OBVIOUS
    <2>1. part = "contract" /\ AcceptedInv
      BY Moves
    <2>2. CASE UNCHANGED <<contract, pc, requests>>
      BY <2>1, <2>2 DEF contract, AcceptedInv, Accepting, Agreeing, ReadAgreement
    <2>3. QED
      BY <2>1, <2>2, AcceptedStep, Moves
  <1>3. Inv => AcceptedIsFixed
    <2> SUFFICES ASSUME AcceptedInv
                 PROVE  Contract!AcceptedIsFixed
      BY DEF AcceptedIsFixed
    <2>1. agreement = None => DOMAIN acceptances = {}
      BY TableRows DEF AcceptedInv, Accepting
    <2>2. QED
      BY <2>1 DEF AcceptedInv, Accepting, Contract!AcceptedIsFixed
  <1>4. QED
    BY <1>1, <1>2, <1>3, PTL DEF Spec

-----------------------------------------------------------------------------
(* The quotes *)

\* The points of a percentage, and the floor of that percentage.
Points == 0 .. 10000
Floor(base, points) == (base * points) \div 10000

\* The percentage of the whole ten thousands and that of the rest are the percentage.
LEMMA Percentage ==
  ASSUME NEW base \in Nat, NEW points \in Points
  PROVE  Contract!percentageOf(base, points) = Floor(base, points)
  <1>0. points \in 0 .. 10000
    BY DEF Points
  <1>1. CASE base = 0 \/ points = 0
    <2>1. base * points = 0
      BY <1>0, <1>1
    <2>2. Contract!percentageOf(base, points) = 0
      BY <1>1 DEF Contract!percentageOf
    <2>3. QED
      BY <2>1, <2>2 DEF Floor
  <1>2. CASE base > 0 /\ points > 0
    <2> DEFINE whole == base \div 10000
               rest  == base % 10000
    <2>1. whole \in Nat /\ rest \in Nat /\ base = 10000 * whole + rest
      OBVIOUS
    <2>2. Contract!percentageOf(base, points) = whole * points + (rest * points) \div 10000
      BY <1>0, <1>2 DEF Contract!percentageOf
    <2> HIDE DEF whole, rest
    <2>3. PICK m \in Int, x \in Int : m = whole * points /\ x = rest * points
      BY <1>0, <2>1
    <2>4. base * points = 10000 * m + x
      <3>1. base * points = (10000 * whole + rest) * points
        BY <2>1
      <3>2. (10000 * whole + rest) * points = 10000 * (whole * points) + rest * points
        BY <1>0, <2>1
      <3>3. QED
        BY <2>3, <3>1, <3>2
    <2>5. (10000 * m + x) \div 10000 = m + x \div 10000
      BY <2>3, SMTT(30)
    <2>6. QED
      BY <2>2, <2>3, <2>4, <2>5 DEF Floor
  <1>3. QED
    <2>1. (base = 0 \/ points = 0) \/ (base > 0 /\ points > 0)
      BY <1>0
    <2>2. QED
      BY <1>1, <1>2, <2>1, Zenon

\* What is excluded of a revenue is a number.
LEMMA ExcludedIsNumber ==
  ASSUME NEW p \in PassThrough, NEW included
  PROVE  Contract!Excluded(p, included) \in Int
  <1> DEFINE L == Len(p)
             counted(n) == IF Contract!IsExcluded(p[n], included) THEN p[n].amount ELSE 0
             weight == [n \in 1 .. L |-> counted(n)]
             excluded == CHOOSE f : f = [n \in 0 .. L |-> IF n = 0 THEN 0 ELSE f[n - 1] + counted(n)]
  <1>1. p \in Seq([category : STRING, amount : Int])
    BY AmountsAreMinorUnits
  <1>2. L \in Nat /\ \A n \in 1 .. L : p[n].amount \in Int
    <2>1. L \in Nat /\ DOMAIN p = 1 .. L /\ \A n \in DOMAIN p : p[n] \in [category : STRING, amount : Int]
      BY <1>1, Rows
    <2> HIDE DEF L
    <2>2. QED
      BY <2>1
  <1>3. weight \in [1 .. L -> Int] /\ \A n \in 1 .. L : weight[n] = counted(n)
    BY <1>2
  <1>4. PICK sum : Runs(sum, weight, L)
    BY <1>2, <1>3, SumRuns
  <1>5. Contract!Excluded(p, included) = excluded[L]
    BY DEF Contract!Excluded
  <1>6. sum = [n \in 0 .. L |-> IF n = 0 THEN 0 ELSE sum[n - 1] + counted(n)]
    <2> HIDE DEF weight, counted
    <2>1. QED
      BY <1>2, <1>3, <1>4 DEF Runs
  <1>7. excluded = [n \in 0 .. L |-> IF n = 0 THEN 0 ELSE excluded[n - 1] + counted(n)]
    <2> HIDE DEF counted
    <2>1. QED
      BY <1>6, Zenon
  <1> HIDE DEF excluded, weight, counted, L
  <1>8. excluded = [n \in 0 .. L |-> IF n = 0 THEN 0 ELSE excluded[n - 1] + weight[n]]
    BY <1>2, <1>3, <1>7
  <1>9. Runs(excluded, weight, L)
    BY <1>2, <1>3, <1>8, AddsUp
  <1>10. QED
    BY <1>2, <1>5, <1>9 DEF Runs

\* The fee of a quote is the exact floor, or the minimum of its rule.
IsExact(quote, excluded) ==
  LET exact == ((quote.revenue - excluded) * quote.rule.points) \div 10000
  IN quote.fee = IF exact >= quote.rule.minimum THEN exact ELSE quote.rule.minimum

\* The rules that are saved are valid, and the last quote was exact.
QuoteInv ==
  /\ \A r \in feeRules : r.points \in Points /\ r.minimum \in Int
  /\ quoted # None => IsExact(quoted, Contract!Excluded(quoted.passThroughs, quoted.included))

LEMMA QuoteStep ==
  ASSUME QuoteInv, Contract!Next
  PROVE  QuoteInv'
  <1>1. ASSUME NEW rule \in Rule, Contract!handleSaveFeeRule(rule)
        PROVE  QuoteInv'
    <2>1. /\ feeRules' = feeRules \union {rule} /\ quoted' = quoted
          /\ rule.points \in Points
      BY <1>1 DEF Points, Contract!handleSaveFeeRule, Contract!SaveFeeRule, Contract!ValidateFeeRule, Contract!StoreFeeRule
    <2>2. rule.minimum \in Int
      BY AmountsAreMinorUnits
    <2>3. QED
      BY <2>1, <2>2 DEF QuoteInv
  <1>2. ASSUME NEW revenue \in Revenue, NEW passThroughs \in PassThrough, NEW v, NEW included,
               Contract!handleQuote(revenue, passThroughs, included, v)
        PROVE  QuoteInv'
    <2>1. PICK rule \in feeRules : /\ quoted' = Contract!CalculateQuote(revenue, passThroughs, included, rule)
                                   /\ Contract!Excluded(passThroughs, included) <= revenue
                                   /\ feeRules' = feeRules
      BY <1>2 DEF Contract!handleQuote, Contract!Quote, Contract!GetFeeRule, Contract!tables
    <2> DEFINE base == revenue - Contract!Excluded(passThroughs, included)
               fee == Contract!percentageOf(base, rule.points)
    <2>2. rule.points \in Points /\ rule.minimum \in Int /\ revenue \in Int
      <3>1. rule.points \in Points /\ rule.minimum \in Int
        BY DEF QuoteInv
      <3>2. revenue \in Int
        BY AmountsAreMinorUnits
      <3>3. QED
        BY <3>1, <3>2
    <2>3. base \in Nat
      BY <2>1, <2>2, ExcludedIsNumber
    <2>4. /\ quoted'.revenue = revenue /\ quoted'.passThroughs = passThroughs /\ quoted'.included = included
          /\ quoted'.rule = rule
          /\ quoted'.fee = IF fee < rule.minimum THEN rule.minimum ELSE fee
      BY <2>1 DEF Contract!CalculateQuote, Contract!ComputeFeeBase
    <2> HIDE DEF base, fee
    <2>5. fee = (base * rule.points) \div 10000 /\ fee \in Int
      <3>1. PICK b \in Nat, p \in Points : b = base /\ p = rule.points
        <4>1. base \in Nat /\ rule.points \in Points
          BY <2>2, <2>3 DEF Points
        <4>2. QED
          BY <4>1, SMTT(30)
      <3>2. Contract!percentageOf(b, p) = (b * p) \div 10000
        <4>1. Contract!percentageOf(b, p) = Floor(b, p)
          BY Percentage
        <4>2. QED
          BY <4>1 DEF Floor
      <3>3. b * p \in Int
        BY DEF Points
      <3>4. QED
        BY <3>1, <3>2, <3>3 DEF fee
    <2>6. IsExact(quoted', Contract!Excluded(passThroughs, included))
      <3>1. fee < rule.minimum <=> ~(fee >= rule.minimum)
        BY <2>2, <2>5
      <3>2. fee = ((revenue - Contract!Excluded(passThroughs, included)) * rule.points) \div 10000
        BY <2>5 DEF base
      <3>3. QED
        BY <2>4, <3>1, <3>2 DEF IsExact
    <2>7. QED
      BY <2>1, <2>4, <2>6 DEF QuoteInv
  <1>3. ASSUME UNCHANGED <<feeRules, quoted>>
        PROVE  QuoteInv'
    BY <1>3 DEF QuoteInv
  <1>4. QED
    BY <1>1, <1>2, <1>3
       DEF Contract!Next, Contract!handleCreateAgreement, Contract!handleCreatePropertyContract,
           Contract!CreateAgreement, Contract!handleAddVersion, Contract!handleAccept, Contract!listVersions,
           Contract!AddVersion, Contract!Accept, Contract!Abandon, Contract!tables

\* The fee of a quote is the exact floor of the percentage of what is left of the revenue, or the
\* minimum of its rule: computing it in two parts loses nothing.
THEOREM QuoteCorrect == Spec => []QuoteIsExact
  <1> DEFINE Inv == part = "contract" => QuoteInv
  <1>1. Init => Inv
    BY DEF Init, Contract!Init, QuoteInv
  <1>2. Inv /\ [Next]_vars => Inv'
    <2> SUFFICES ASSUME Inv, [Next]_vars, part' = "contract"
                 PROVE  QuoteInv'
      OBVIOUS
    <2>1. part = "contract" /\ QuoteInv
      BY Moves
    <2>2. CASE UNCHANGED <<contract, pc, requests>>
      BY <2>1, <2>2 DEF contract, QuoteInv
    <2>3. QED
      BY <2>1, <2>2, QuoteStep, Moves
  <1>3. Inv => QuoteIsExact
    BY DEF QuoteInv, IsExact, QuoteIsExact, Contract!QuoteIsExact
  <1>4. QED
    BY <1>1, <1>2, <1>3, PTL DEF Spec

-----------------------------------------------------------------------------
(* The onboarding of an owner *)

\* A case that was read has a version that is past, or the case is as it was.
ReadCase(row) ==
  /\ case # None
  /\ row \in Case
  /\ row.version <= case.version
  /\ row.version = case.version => row = case

Steps == {"section", "contacts", "record", "inspect", "activate"}

Asked(request) ==
  /\ request[1] \in Steps
  /\ request[1] = "section" => request[2] \in Section
  /\ request[1] = "record" => request[2] \in Owner!EvidenceKind

\* What a request has read of the case goes together, if nothing was written since.
Onboards(c) ==
  LET f == pc[c] IN
  /\ f.op \in {"idle", "evidence", "inspections"} \union Steps
  /\ f.op # "idle" => Asked(f.request)
  /\ f.op \in {"evidence", "inspections"} => ReadCase(f.row)
  /\ f.op = "inspections" /\ f.row.version = case.version => f.kinds = Owner!KindsOf(evidence)
  /\ f.op \in Steps =>
       /\ f.request[1] = f.op
       /\ f.case = [row |-> f.case.row, kinds |-> f.case.kinds, inspected |-> f.case.inspected]
       /\ ReadCase(f.case.row)
       /\ f.case.row.version = case.version =>
            f.case.kinds = Owner!KindsOf(evidence) /\ f.case.inspected = (inspections > 0)

Onboarding ==
  /\ IsTable(evidence)
  /\ inspections \in Nat
  /\ case # None => case \in Case
  /\ Owner!StatusTellsChecklist

OwnerInv ==
  /\ DOMAIN pc = Client
  /\ Onboarding
  /\ \A c \in Client : Onboards(c)

\* A request goes on while the case stays.
LEMMA OnboardsGoes ==
  ASSUME OwnerInv, UNCHANGED <<case, evidence, inspections>>, NEW c \in Client, NEW frame,
         pc' = [pc EXCEPT ![c] = frame], Onboards(c)'
  PROVE  OwnerInv'
  <1>1. Onboarding'
    BY DEF OwnerInv, Onboarding, Owner!StatusTellsChecklist, Owner!KindsOf
  <1>2. ASSUME NEW d \in Client
        PROVE  Onboards(d)'
    <2>1. CASE d = c
      BY <2>1
    <2>2. CASE d # c
      <3>1. pc'[d] = pc[d]
        BY <2>2 DEF OwnerInv
      <3>2. QED
        BY <3>1 DEF OwnerInv, Onboards, ReadCase, Owner!KindsOf
    <2>3. QED
      BY <2>1, <2>2
  <1>3. QED
    BY <1>1, <1>2 DEF OwnerInv

\* A write raises the version of the case: what the others have read is past.
LEMMA OnboardsPast ==
  ASSUME OwnerInv, NEW c \in Client, pc' = [pc EXCEPT ![c] = Owner!Idle],
         case # None, case' # None, case'.version = case.version + 1, Onboarding'
  PROVE  OwnerInv'
  <1>1. case.version \in Nat
    BY DEF OwnerInv, Onboarding, Case
  <1>2. ASSUME NEW row, ReadCase(row)
        PROVE  ReadCase(row)' /\ row.version # case'.version
    <2>1. row.version \in Nat /\ row.version <= case.version
      BY <1>2 DEF ReadCase, Case
    <2>2. QED
      BY <1>1, <1>2, <2>1 DEF ReadCase
  <1>3. ASSUME NEW d \in Client
        PROVE  Onboards(d)'
    <2>1. CASE d = c
      <3>1. pc'[d] = Owner!Idle
        BY <2>1 DEF OwnerInv
      <3>2. QED
        BY <3>1 DEF Onboards, Owner!Idle, Steps
    <2>2. CASE d # c
      <3>1. pc'[d] = pc[d] /\ Onboards(d)
        BY <2>2 DEF OwnerInv
      <3>2. QED
        BY <1>2, <3>1 DEF Onboards
    <2>3. QED
      BY <2>1, <2>2
  <1>4. QED
    BY <1>3 DEF OwnerInv

\* The case is stored with the status that its checklist then has.
LEMMA CaseStored ==
  ASSUME OwnerInv, NEW c \in Client, pc[c].op \in Steps, pc' = [pc EXCEPT ![c] = Owner!Idle],
         NEW kinds, NEW inspected, NEW row \in Case,
         row.version = pc[c].case.row.version,
         Owner!Store([row |-> pc[c].case.row, kinds |-> kinds, inspected |-> inspected], row),
         IsTable(evidence'), inspections' \in Nat,
         pc[c].case.row = case => kinds = Owner!KindsOf(evidence)' /\ inspected = (inspections' > 0)
  PROVE  OwnerInv'
  <1> DEFINE status == Owner!RecomputeStatus([row |-> row, kinds |-> kinds, inspected |-> inspected])
  <1>1. /\ case.version = pc[c].case.row.version
        /\ case' = [[row EXCEPT !.status = status] EXCEPT !.version = pc[c].case.row.version + 1]
    <2> DEFINE read == [row |-> pc[c].case.row, kinds |-> kinds, inspected |-> inspected]
    <2>1. read.row = pc[c].case.row
      OBVIOUS
    <2>2. [read EXCEPT !.row = row] = [row |-> row, kinds |-> kinds, inspected |-> inspected]
      OBVIOUS
    <2>3. Owner!Store(read, row)
      OBVIOUS
    <2> HIDE DEF read
    <2>4. case.version = read.row.version
          /\ case' = [[row EXCEPT !.status = Owner!RecomputeStatus([read EXCEPT !.row = row])]
                        EXCEPT !.version = read.row.version + 1]
      BY <2>3 DEF Owner!Store, Owner!updateCase
    <2>5. QED
      BY <2>1, <2>2, <2>4
  <1>2. case # None /\ case \in Case /\ pc[c].case.row = case
    BY <1>1 DEF OwnerInv, Onboarding, Onboards, ReadCase, Steps
  <1>3. status \in {"ready", "in_progress"}
    BY DEF Owner!RecomputeStatus
  <1>4. /\ case'.status = status /\ case'.sections = row.sections /\ case'.contacts = row.contacts
        /\ case'.version = case.version + 1
        /\ case' \in Case
    <2> HIDE DEF status
    <2>1. row.version + 1 \in Nat
      BY DEF Case
    <2>2. QED
      BY <1>1, <1>2, <1>3, <2>1 DEF Case
  <1>5. case' # None
    BY <1>4, NoneIsNull
  <1>6. status = Owner!RecomputeStatus([row |-> case', kinds |-> kinds, inspected |-> inspected])
    BY <1>4 DEF Owner!RecomputeStatus, Owner!AllStepsComplete, Owner!ActivationHolds
  <1>7. Owner!StatusTellsChecklist'
    <2> HIDE DEF status
    <2>1. kinds = Owner!KindsOf(evidence)' /\ inspected = (inspections' > 0)
      BY <1>2
    <2>2. case'.status = Owner!RecomputeStatus([row |-> case', kinds |-> Owner!KindsOf(evidence)',
                                                inspected |-> inspections' > 0])
      BY <1>4, <1>6, <2>1
    <2>3. case'.status # "activated"
      BY <1>3, <1>4
    <2>4. QED
      BY <2>2, <2>3 DEF Owner!StatusTellsChecklist, Owner!RecomputeStatus, Owner!AllStepsComplete,
                        Owner!ActivationHolds, Owner!KindsOf
  <1>8. Onboarding'
    BY <1>4, <1>7 DEF Onboarding
  <1>9. QED
    BY <1>2, <1>4, <1>5, <1>8, OnboardsPast

LEMMA OwnerStepped ==
  ASSUME OwnerInv, Owner!Next
  PROVE  OwnerInv'
  <1>1. ASSUME Owner!handleStartCase \/ Owner!handleStartOwnerOnboarding
        PROVE  OwnerInv'
    <2>1. /\ pc' = pc /\ case = None /\ UNCHANGED <<evidence, inspections>>
          /\ case' = [status |-> "in_progress", sections |-> {}, contacts |-> FALSE, version |-> 1]
      BY <1>1 DEF Owner!handleStartCase, Owner!handleStartOwnerOnboarding, Owner!Served, Owner!StartCase,
                  Owner!CreateCase, Owner!NewCase
    <2>2. case' \in Case
      BY <2>1 DEF Case
    <2>3. Owner!StatusTellsChecklist'
      BY <2>1 DEF Owner!StatusTellsChecklist, Owner!RecomputeStatus, Owner!AllStepsComplete
    <2>4. \A c \in Client : pc[c].op = "idle"
      BY <2>1 DEF OwnerInv, Onboards, ReadCase
    <2>5. QED
      BY <2>1, <2>2, <2>3, <2>4 DEF OwnerInv, Onboarding, Onboards, Steps
  <1>2. ASSUME NEW c \in Client, NEW request, Asked(request), Owner!getByID(c, request)
        PROVE  OwnerInv'
    <2> DEFINE frame == [op |-> "evidence", row |-> case, request |-> request]
    <2>1. pc' = [pc EXCEPT ![c] = frame] /\ case # None /\ UNCHANGED <<case, evidence, inspections>>
      BY <1>2 DEF Owner!getByID, Owner!Begin, Owner!tables
    <2>2. pc'[c] = frame
      BY <2>1 DEF OwnerInv
    <2>3. ReadCase(case)'
      BY <2>1 DEF OwnerInv, Onboarding, ReadCase, Case
    <2>4. Onboards(c)'
      BY <1>2, <2>1, <2>2, <2>3 DEF Onboards, Asked, Steps
    <2>5. QED
      BY <2>1, <2>4, OnboardsGoes
  <1>3. ASSUME NEW c \in Client, Owner!listEvidence(c)
        PROVE  OwnerInv'
    <2> DEFINE frame == [op |-> "inspections", row |-> pc[c].row, request |-> pc[c].request,
                         kinds |-> Owner!KindsOf(evidence)]
    <2>1. pc' = [pc EXCEPT ![c] = frame] /\ pc[c].op = "evidence" /\ UNCHANGED <<case, evidence, inspections>>
      BY <1>3 DEF Owner!listEvidence, Owner!Under, Owner!Goes, Owner!tables
    <2>2. pc'[c] = frame
      BY <2>1 DEF OwnerInv
    <2>3. Asked(pc[c].request) /\ ReadCase(pc[c].row)
      BY <2>1 DEF OwnerInv, Onboards
    <2>4. Onboards(c)'
      BY <2>1, <2>2, <2>3 DEF Onboards, Asked, ReadCase, Steps, Owner!KindsOf
    <2>5. QED
      BY <2>1, <2>4, OnboardsGoes
  <1>4. ASSUME NEW c \in Client, Owner!listInspections(c)
        PROVE  OwnerInv'
    <2> DEFINE f == pc[c]
               read == [row |-> f.row, kinds |-> f.kinds, inspected |-> inspections > 0]
               frame == [op |-> f.request[1], request |-> f.request, case |-> read]
    <2>1. pc' = [pc EXCEPT ![c] = frame] /\ f.op = "inspections" /\ UNCHANGED <<case, evidence, inspections>>
      BY <1>4 DEF Owner!listInspections, Owner!Under, Owner!Goes, Owner!tables
    <2>2. pc'[c] = frame
      BY <2>1 DEF OwnerInv
    <2>3. Asked(f.request) /\ ReadCase(f.row) /\ f.request[1] \in Steps
      BY <2>1 DEF OwnerInv, Onboards, Asked
    <2>4. f.row.version = case.version => f.kinds = Owner!KindsOf(evidence)
      BY <2>1 DEF OwnerInv, Onboards
    <2>5. read.row = f.row /\ read.kinds = f.kinds /\ read.inspected = (inspections > 0)
      OBVIOUS
    <2>6. read = [row |-> read.row, kinds |-> read.kinds, inspected |-> read.inspected]
      OBVIOUS
    <2>7. /\ frame.op = f.request[1] /\ frame.request = f.request /\ frame.case = read
      OBVIOUS
    <2> HIDE DEF frame, read
    <2>8. Onboards(c)'
      BY <2>1, <2>2, <2>3, <2>4, <2>5, <2>6, <2>7 DEF Onboards, Asked, ReadCase, Steps, Owner!KindsOf
    <2>9. QED
      BY <2>1, <2>8, OnboardsGoes
  <1>5. ASSUME NEW c \in Client, Owner!SaveSection(c)
        PROVE  OwnerInv'
    <2> DEFINE f == pc[c]
               row == Owner!ApplySection(f.case.row, f.request[2], f.request[3])
    <2>1. /\ f.op = "section" /\ Owner!Store(f.case, row) /\ pc' = [pc EXCEPT ![c] = Owner!Idle]
          /\ UNCHANGED <<evidence, inspections>>
      BY <1>5 DEF Owner!SaveSection, Owner!Under, Owner!Done, Owner!Goes
    <2>2. /\ f.op \in Steps /\ f.request[2] \in Section /\ f.case.row \in Case
          /\ f.case = [row |-> f.case.row, kinds |-> f.case.kinds, inspected |-> f.case.inspected]
          /\ f.case.row = case => f.case.kinds = Owner!KindsOf(evidence) /\ f.case.inspected = (inspections > 0)
      BY <2>1 DEF OwnerInv, Onboards, Asked, ReadCase, Steps
    <2>3. row \in Case /\ row.version = f.case.row.version
      BY <2>2 DEF Owner!ApplySection, Case
    <2>4. IsTable(evidence') /\ inspections' \in Nat
      BY <2>1 DEF OwnerInv, Onboarding
    <2>5. Owner!KindsOf(evidence)' = Owner!KindsOf(evidence)
      BY <2>1 DEF Owner!KindsOf
    <2> HIDE DEF row
    <2>6. Owner!Store([row |-> f.case.row, kinds |-> f.case.kinds, inspected |-> f.case.inspected], row)
      BY <2>1, <2>2
    <2>7. QED
      BY <2>1, <2>2, <2>3, <2>4, <2>5, <2>6, CaseStored
  <1>6. ASSUME NEW c \in Client, Owner!SaveContacts(c)
        PROVE  OwnerInv'
    <2> DEFINE f == pc[c]
               row == [f.case.row EXCEPT !.contacts = TRUE]
    <2>1. /\ f.op = "contacts" /\ Owner!Store(f.case, row) /\ pc' = [pc EXCEPT ![c] = Owner!Idle]
          /\ UNCHANGED <<evidence, inspections>>
      BY <1>6 DEF Owner!SaveContacts, Owner!Under, Owner!Done, Owner!Goes
    <2>2. /\ f.op \in Steps /\ f.case.row \in Case
          /\ f.case = [row |-> f.case.row, kinds |-> f.case.kinds, inspected |-> f.case.inspected]
          /\ f.case.row = case => f.case.kinds = Owner!KindsOf(evidence) /\ f.case.inspected = (inspections > 0)
      BY <2>1 DEF OwnerInv, Onboards, Asked, ReadCase, Steps
    <2>3. row \in Case /\ row.version = f.case.row.version
      BY <2>2 DEF Case
    <2>4. IsTable(evidence') /\ inspections' \in Nat
      BY <2>1 DEF OwnerInv, Onboarding
    <2>5. Owner!KindsOf(evidence)' = Owner!KindsOf(evidence)
      BY <2>1 DEF Owner!KindsOf
    <2> HIDE DEF row
    <2>6. Owner!Store([row |-> f.case.row, kinds |-> f.case.kinds, inspected |-> f.case.inspected], row)
      BY <2>1, <2>2
    <2>7. QED
      BY <2>1, <2>2, <2>3, <2>4, <2>5, <2>6, CaseStored
  <1>7. ASSUME NEW c \in Client, Owner!RecordEvidence(c)
        PROVE  OwnerInv'
    <2> DEFINE f == pc[c]
               kind == f.request[2]
               kinds == f.case.kinds \union {kind}
    <2>1. /\ f.op = "record" /\ Owner!Store([f.case EXCEPT !.kinds = @ \union {kind}], f.case.row)
          /\ pc' = [pc EXCEPT ![c] = Owner!Idle]
          /\ evidence' = Append(evidence, kind) /\ inspections' = inspections
      BY <1>7 DEF Owner!RecordEvidence, Owner!InsertEvidence, Owner!Under, Owner!Done, Owner!Goes
    <2>2. /\ f.op \in Steps /\ f.case.row \in Case
          /\ f.case = [row |-> f.case.row, kinds |-> f.case.kinds, inspected |-> f.case.inspected]
          /\ f.case.row = case => f.case.kinds = Owner!KindsOf(evidence) /\ f.case.inspected = (inspections > 0)
      BY <2>1 DEF OwnerInv, Onboards, Asked, ReadCase, Steps
    <2>3. IsTable(evidence) /\ inspections' \in Nat
      BY <2>1 DEF OwnerInv, Onboarding
    <2>4. /\ IsTable(evidence') /\ DOMAIN evidence' = DOMAIN evidence \union {Len(evidence) + 1}
          /\ Len(evidence) + 1 \notin DOMAIN evidence
          /\ \A n \in DOMAIN evidence : evidence'[n] = evidence[n]
          /\ evidence'[Len(evidence) + 1] = kind
      BY <2>1, <2>3, TableInserted
    <2>5. Owner!KindsOf(evidence)' = Owner!KindsOf(evidence) \union {kind}
      BY <2>4 DEF Owner!KindsOf
    <2>6. [f.case EXCEPT !.kinds = @ \union {kind}]
            = [row |-> f.case.row, kinds |-> kinds, inspected |-> f.case.inspected]
      BY <2>2
    <2>7. f.case.row = case => kinds = Owner!KindsOf(evidence)' /\ f.case.inspected = (inspections' > 0)
      BY <2>1, <2>2, <2>5
    <2>8. Owner!Store([row |-> f.case.row, kinds |-> kinds, inspected |-> f.case.inspected], f.case.row)
      BY <2>1, <2>6
    <2> HIDE DEF kinds
    <2>9. QED
      BY <2>1, <2>2, <2>3, <2>4, <2>7, <2>8, CaseStored
  <1>8. ASSUME NEW c \in Client, Owner!RecordInspection(c)
        PROVE  OwnerInv'
    <2> DEFINE f == pc[c]
    <2>1. /\ f.op = "inspect" /\ Owner!Store([f.case EXCEPT !.inspected = TRUE], f.case.row)
          /\ pc' = [pc EXCEPT ![c] = Owner!Idle]
          /\ evidence' = evidence /\ inspections' = inspections + 1
      BY <1>8 DEF Owner!RecordInspection, Owner!InsertInspection, Owner!Under, Owner!Done, Owner!Goes
    <2>2. /\ f.op \in Steps /\ f.case.row \in Case
          /\ f.case = [row |-> f.case.row, kinds |-> f.case.kinds, inspected |-> f.case.inspected]
          /\ f.case.row = case => f.case.kinds = Owner!KindsOf(evidence)
      BY <2>1 DEF OwnerInv, Onboards, Asked, ReadCase, Steps
    <2>3. IsTable(evidence') /\ inspections' \in Nat /\ inspections' > 0
      BY <2>1 DEF OwnerInv, Onboarding
    <2>4. Owner!KindsOf(evidence)' = Owner!KindsOf(evidence)
      BY <2>1 DEF Owner!KindsOf
    <2>5. [f.case EXCEPT !.inspected = TRUE] = [row |-> f.case.row, kinds |-> f.case.kinds, inspected |-> TRUE]
      <3>1. PICK yes : yes = TRUE
        BY Zenon
      <3>2. [f.case EXCEPT !.inspected = yes]
              = [row |-> f.case.row, kinds |-> f.case.kinds, inspected |-> yes]
        <4> HIDE <3>1
        <4>1. QED
          BY <2>2
      <3>3. QED
        BY <3>1, <3>2, Zenon
    <2>6. Owner!Store([row |-> f.case.row, kinds |-> f.case.kinds, inspected |-> TRUE], f.case.row)
      BY <2>1, <2>5
    <2>7. f.case.row = case => f.case.kinds = Owner!KindsOf(evidence)' /\ TRUE = (inspections' > 0)
      BY <2>2, <2>3, <2>4
    <2>8. QED
      BY <2>1, <2>2, <2>3, <2>6, <2>7, CaseStored
  <1>9. ASSUME NEW c \in Client, Owner!Activate(c)
        PROVE  OwnerInv'
    <2> DEFINE f == pc[c]
               row == f.case.row
    <2>1. /\ f.op = "activate" /\ Owner!CanActivateCase(f.case) /\ case.version = row.version
          /\ case' = [[row EXCEPT !.status = "activated"] EXCEPT !.version = row.version + 1]
          /\ pc' = [pc EXCEPT ![c] = Owner!Idle]
          /\ evidence' = evidence /\ inspections' = inspections
      BY <1>9 DEF Owner!Activate, Owner!updateCase, Owner!Under, Owner!Done, Owner!Goes
    <2>2. /\ row = case /\ case # None /\ case \in Case
          /\ f.case = [row |-> row, kinds |-> f.case.kinds, inspected |-> f.case.inspected]
          /\ f.case.kinds = Owner!KindsOf(evidence) /\ f.case.inspected = (inspections > 0)
      BY <2>1 DEF OwnerInv, Onboarding, Onboards, ReadCase, Steps
    <2> HIDE DEF row
    <2>3. /\ case'.status = "activated" /\ case'.sections = case.sections /\ case'.contacts = case.contacts
          /\ case'.version = case.version + 1
          /\ case' \in Case
      <3>1. row.version + 1 \in Nat
        BY <2>2 DEF Case
      <3>2. QED
        BY <2>1, <2>2, <3>1 DEF Case
    <2>4. case' # None
      BY <2>3, NoneIsNull
    <2>5. Owner!StatusTellsChecklist'
      BY <2>1, <2>2, <2>3 DEF Owner!StatusTellsChecklist, Owner!CanActivateCase, Owner!AllStepsComplete,
                              Owner!ActivationHolds, Owner!KindsOf, row
    <2>6. Onboarding'
      BY <2>1, <2>3, <2>5 DEF OwnerInv, Onboarding
    <2>7. QED
      BY <2>1, <2>2, <2>3, <2>4, <2>6, OnboardsPast
  <1>10. ASSUME NEW c \in Client, Owner!Abandon(c)
         PROVE  OwnerInv'
    <2>1. pc' = [pc EXCEPT ![c] = Owner!Idle] /\ UNCHANGED <<case, evidence, inspections>>
      BY <1>10 DEF Owner!Abandon, Owner!Dropped, Owner!Done, Owner!Goes, Owner!tables
    <2>2. pc'[c] = Owner!Idle
      BY <2>1 DEF OwnerInv
    <2>3. Onboards(c)'
      BY <2>2 DEF Onboards, Owner!Idle, Steps
    <2>4. QED
      BY <2>1, <2>3, OnboardsGoes
  <1>11. ASSUME NEW c \in Client, NEW s \in Section, NEW filled, Owner!handleSaveSection(c, s, filled)
         PROVE  OwnerInv'
    <2>1. Asked(<<"section", s, filled>>)
      BY DEF Asked, Steps
    <2>2. QED
      BY <1>2, <1>11, <2>1 DEF Owner!handleSaveSection
  <1>12. ASSUME NEW c \in Client, NEW kind \in Owner!EvidenceKind, Owner!handleRecordEvidence(c, kind)
         PROVE  OwnerInv'
    <2>1. Asked(<<"record", kind>>)
      BY DEF Asked, Steps
    <2>2. QED
      BY <1>2, <1>12, <2>1 DEF Owner!handleRecordEvidence
  <1>13. ASSUME NEW c \in Client,
                Owner!handleSaveContacts(c) \/ Owner!handleRecordInspection(c)
                  \/ Owner!handleRecordPropertyInspection(c) \/ Owner!handleActivate(c)
         PROVE  OwnerInv'
    <2>1. Asked(<<"contacts">>) /\ Asked(<<"inspect">>) /\ Asked(<<"activate">>)
      BY DEF Asked, Steps
    <2>2. QED
      BY <1>2, <1>13, <2>1 DEF Owner!handleSaveContacts, Owner!handleRecordInspection,
                               Owner!handleRecordPropertyInspection, Owner!handleActivate
  <1>14. QED
    BY <1>1, <1>3, <1>4, <1>5, <1>6, <1>7, <1>8, <1>9, <1>10, <1>11, <1>12, <1>13 DEF Owner!Next

\* The status of a case is what its rows say, however the requests that read it in three
\* statements interleave: it is ready when nothing is missing and activated only then.
THEOREM OnboardingCorrect == Spec => []StatusTellsChecklist
  <1> DEFINE Inv == part = "owner" => OwnerInv
  <1>1. Init => Inv
    <2> SUFFICES ASSUME Init
                 PROVE  OwnerInv
      OBVIOUS
    <2>1. /\ case \in Begun \union {None} /\ inspections = 0
          /\ evidence \in {<<>>, <<"legal", "document">>, <<"legal", "safety">>}
          /\ pc = [c \in Client |-> Owner!Idle]
      BY DEF Init, Owner!Init, Owner!NoRequests
    <2>2. IsTable(evidence)
      <3>1. IsTable(<<>>)
        BY EmptyTable
      <3>2. <<"legal", "document">> \in Seq({"legal", "document"}) /\ <<"legal", "safety">> \in Seq({"legal", "safety"})
        OBVIOUS
      <3>3. IsTable(<<"legal", "document">>) /\ IsTable(<<"legal", "safety">>)
        BY <3>2, TableOf
      <3>4. QED
        BY <2>1, <3>1, <3>3
    <2>3. case # None => case \in Case /\ case.status = "in_progress"
      BY <2>1, BegunIsInProgress
    <2>4. Owner!StatusTellsChecklist
      <3> DEFINE seen == inspections > 0
                 read == [row |-> case, kinds |-> Owner!KindsOf(evidence), inspected |-> seen]
      <3>0. ~seen
        BY <2>1
      <3>1. ~read.inspected
        <4> HIDE DEF seen
        <4>1. QED
          BY <3>0
      <3>2. Owner!RecomputeStatus(read) = "in_progress"
        BY <3>1 DEF Owner!RecomputeStatus, Owner!AllStepsComplete
      <3> HIDE DEF read, seen
      <3>3. QED
        BY <2>1, <2>3, <3>2 DEF Owner!StatusTellsChecklist, read, seen
    <2>5. \A c \in Client : Onboards(c)
      BY <2>1 DEF Onboards, Owner!Idle, Steps
    <2>6. QED
      BY <2>1, <2>2, <2>3, <2>4, <2>5 DEF OwnerInv, Onboarding
  <1>2. Inv /\ [Next]_vars => Inv'
    <2> SUFFICES ASSUME Inv, [Next]_vars, part' = "owner"
                 PROVE  OwnerInv'
      OBVIOUS
    <2>1. part = "owner" /\ OwnerInv
      BY Moves
    <2>2. CASE UNCHANGED <<owner, pc, requests>>
      BY <2>1, <2>2 DEF owner, OwnerInv, Onboarding, Onboards, ReadCase, Owner!StatusTellsChecklist, Owner!KindsOf
    <2>3. QED
      BY <2>1, <2>2, OwnerStepped, Moves
  <1>3. Inv => StatusTellsChecklist
    BY DEF OwnerInv, Onboarding, StatusTellsChecklist
  <1>4. QED
    BY <1>1, <1>2, <1>3, PTL DEF Spec

-----------------------------------------------------------------------------
(* The lifecycle of a property, and the items that may hold it *)

\* The record of transitions: a path of the lifecycle that ends in the state of the property.
Recorded ==
  /\ IsTable(transitions)
  /\ property = None => Len(transitions) = 0
  /\ property # None => property \in Property
  /\ \A n \in DOMAIN transitions :
       /\ Home!CanTransition(transitions[n].from, transitions[n].to)
       /\ transitions[n].to = "active" => transitions[n].ready
       /\ transitions[n].version \in Nat
       /\ n > 1 => /\ transitions[n].from = transitions[n - 1].to
                   /\ transitions[n].version > transitions[n - 1].version
       /\ transitions[n].version < property.version
  /\ Len(transitions) # 0 => property.state = transitions[Len(transitions)].to

HoldFields == {"kind", "critical", "status", "until"}
ItemFields == {"kind", "critical", "expiry", "status", "hold"}

\* An item names a critical hold of its kind, if any.
IsItem(row, H) ==
  /\ ItemFields \subseteq DOMAIN row
  /\ row.hold # None => /\ row.hold \in DOMAIN H
                        /\ H[row.hold].kind = row.kind
                        /\ H[row.hold].critical = TRUE

\* What was read of the n-th of items I and the h-th of holds H is as it was, but for its status.
ReadItem(row, n, H, I) ==
  /\ n \in DOMAIN I
  /\ IsItem(row, H)
  /\ row.kind = I[n].kind /\ row.critical = I[n].critical /\ row.expiry = I[n].expiry

ReadHold(row, h, H) ==
  /\ h \in DOMAIN H
  /\ HoldFields \subseteq DOMAIN row
  /\ row.kind = H[h].kind /\ row.critical = H[h].critical

\* What was read of a property P has a version that is past, or is P.
ReadProperty(row, P) ==
  /\ P # None
  /\ row \in Property
  /\ row.version <= P.version
  /\ row.version = P.version => row = P

OnFile ==
  /\ IsTable(holds)
  /\ IsTable(items)
  /\ \A h \in DOMAIN holds : HoldFields \subseteq DOMAIN holds[h]
  /\ \A n \in DOMAIN items : IsItem(items[n], holds)

Scanning == {"scan", "held", "link", "raise", "warn", "issue"}

IsHeld(kind, H) == \E h \in DOMAIN H : H[h].kind = kind /\ H[h].critical = TRUE
IsDue(row, at) == row.critical = TRUE /\ Home!IsExpired(row, at)

\* An item that was due is held, or the scan has it before it.
Scans(f, H, I) ==
  /\ {"op", "left", "at", "failed", "due"} \subseteq DOMAIN f
  /\ \A i \in f.left : ReadItem(i.row, i.n, H, I)
  /\ f.op # "scan" => {"n", "row"} \subseteq DOMAIN f /\ ReadItem(f.row, f.n, H, I)
  /\ f.due \subseteq DOMAIN I
  /\ f.failed \in BOOLEAN
  /\ f.failed = FALSE => \A n \in f.due :
                           \/ IsHeld(I[n].kind, H)
                           \/ \E i \in f.left : i.n = n /\ IsDue(i.row, f.at)
                           \/ f.op \in {"held", "raise"} /\ f.n = n /\ IsDue(f.row, f.at)

\* A request to move the property has found that it may be moved.
Moving(f, P) ==
  /\ {"op", "to", "row"} \subseteq DOMAIN f
  /\ f.to \in Home!States
  /\ ReadProperty(f.row, P)
  /\ f.op = "move" => /\ Home!CanTransition(f.row.state, f.to)
                      /\ f.to = "active" => f.row.ready

Fits(f, P, H, I) ==
  /\ f.op \in {"idle", "transition", "move", "resolve", "except", "renew", "release"} \union Scanning
  /\ f.op \in {"transition", "move"} => Moving(f, P)
  /\ f.op \in {"resolve", "except"} => ReadHold(f.row, f.hold, H)
  /\ f.op = "renew" => ReadItem(f.row, f.item, H, I)
  /\ f.op = "release" => f.hold \in DOMAIN H
  /\ f.op \in Scanning => Scans(f, H, I)

HomeInv ==
  /\ DOMAIN pc = Client
  /\ Recorded
  /\ OnFile
  /\ \A c \in Client : Fits(pc[c], property, holds, items)

\* A write raises the version of the property, and leaves of a hold and of an item what it is.
PropertyKept ==
  \/ property' = property
  \/ property = None
  \/ property' # None /\ property'.version = property.version + 1

HoldsKept ==
  /\ DOMAIN holds \subseteq DOMAIN holds'
  /\ \A h \in DOMAIN holds : holds'[h].kind = holds[h].kind /\ holds'[h].critical = holds[h].critical

ItemsKept ==
  /\ DOMAIN items \subseteq DOMAIN items'
  /\ \A n \in DOMAIN items : /\ items'[n].kind = items[n].kind
                             /\ items'[n].critical = items[n].critical
                             /\ items'[n].expiry = items[n].expiry

LEMMA ItemStays ==
  ASSUME HoldsKept, NEW row, IsItem(row, holds)
  PROVE  IsItem(row, holds')
  BY DEF HoldsKept, IsItem

LEMMA ReadItemStays ==
  ASSUME HoldsKept, ItemsKept, NEW row, NEW n, ReadItem(row, n, holds, items)
  PROVE  ReadItem(row, n, holds', items')
  <1>1. IsItem(row, holds')
    BY ItemStays DEF ReadItem
  <1>2. QED
    BY <1>1 DEF ReadItem, ItemsKept

LEMMA FitsStays ==
  ASSUME Recorded, PropertyKept, HoldsKept, ItemsKept, NEW f, Fits(f, property, holds, items)
  PROVE  Fits(f, property', holds', items')
  <1>1. f.op \in {"transition", "move"} => Moving(f, property')
    <2>1. SUFFICES ASSUME ReadProperty(f.row, property)
                   PROVE  ReadProperty(f.row, property')
      BY DEF Fits, Moving
    <2>2. property # None /\ property.version \in Nat /\ f.row.version \in Nat
      BY <2>1 DEF ReadProperty, Recorded, Property
    <2>3. QED
      BY <2>1, <2>2 DEF ReadProperty, PropertyKept
  <1>2. f.op \in {"resolve", "except"} => ReadHold(f.row, f.hold, holds')
    BY DEF Fits, ReadHold, HoldsKept
  <1>3. f.op = "renew" => ReadItem(f.row, f.item, holds', items')
    BY ReadItemStays DEF Fits
  <1>4. f.op = "release" => f.hold \in DOMAIN holds'
    BY DEF Fits, HoldsKept
  <1>5. f.op \in Scanning => Scans(f, holds', items')
    <2> SUFFICES ASSUME Scans(f, holds, items)
                 PROVE  Scans(f, holds', items')
      BY DEF Fits
    <2>1. \A i \in f.left : ReadItem(i.row, i.n, holds', items')
      BY ReadItemStays DEF Scans
    <2>2. f.op # "scan" => ReadItem(f.row, f.n, holds', items')
      BY ReadItemStays DEF Scans
    <2>3. \A n \in f.due : IsHeld(items[n].kind, holds) => IsHeld(items'[n].kind, holds')
      BY DEF Scans, IsHeld, HoldsKept, ItemsKept
    <2>4. QED
      BY <2>1, <2>2, <2>3 DEF Scans, ItemsKept
  <1>6. QED
    BY <1>1, <1>2, <1>3, <1>4, <1>5 DEF Fits

\* A request goes on with a frame that fits.
LEMMA HomeGoes ==
  ASSUME HomeInv, PropertyKept, HoldsKept, ItemsKept, Recorded', OnFile',
         NEW c \in Client, NEW frame, pc' = [pc EXCEPT ![c] = frame],
         Fits(frame, property', holds', items')
  PROVE  HomeInv'
  <1>1. ASSUME NEW d \in Client
        PROVE  Fits(pc'[d], property', holds', items')
    <2>1. CASE d = c
      <3>1. pc'[d] = frame
        BY <2>1 DEF HomeInv
      <3>2. QED
        BY <3>1
    <2>2. CASE d # c
      <3>1. pc'[d] = pc[d]
        BY <2>2 DEF HomeInv
      <3>2. QED
        BY <3>1, FitsStays DEF HomeInv
    <2>3. QED
      BY <2>1, <2>2
  <1>2. QED
    BY <1>1 DEF HomeInv

\* And where only its frame changes.
LEMMA HomeReads ==
  ASSUME HomeInv, UNCHANGED <<property, holds, transitions, items>>,
         NEW c \in Client, NEW frame, pc' = [pc EXCEPT ![c] = frame],
         Fits(frame, property, holds, items)
  PROVE  HomeInv'
  <1>1. PropertyKept /\ HoldsKept /\ ItemsKept
    BY DEF PropertyKept, HoldsKept, ItemsKept
  <1>2. Recorded'
    BY DEF HomeInv, Recorded
  <1>3. OnFile'
    BY DEF HomeInv, OnFile
  <1>4. QED
    BY <1>1, <1>2, <1>3, HomeGoes

\* A request that is served at once leaves the frames.
LEMMA HomeServed ==
  ASSUME HomeInv, PropertyKept, HoldsKept, ItemsKept, Recorded', OnFile', pc' = pc
  PROVE  HomeInv'
  BY FitsStays DEF HomeInv

\* The statements on the holds and the items.
LEMMA HoldPut ==
  ASSUME OnFile, NEW row, HoldFields \subseteq DOMAIN row, holds' = Append(holds, row), items' = items
  PROVE  /\ HoldsKept /\ ItemsKept /\ OnFile'
         /\ Len(holds') = Len(holds) + 1
         /\ Len(holds') \in DOMAIN holds' /\ holds'[Len(holds')] = row
  <1>1. /\ IsTable(holds') /\ Len(holds') = Len(holds) + 1
        /\ DOMAIN holds' = DOMAIN holds \union {Len(holds) + 1}
        /\ \A h \in DOMAIN holds : holds'[h] = holds[h]
        /\ holds'[Len(holds) + 1] = row
    BY TableInserted DEF OnFile
  <1>2. HoldsKept /\ ItemsKept
    BY <1>1 DEF HoldsKept, ItemsKept
  <1>3. OnFile'
    <2>1. \A n \in DOMAIN items' : IsItem(items'[n], holds')
      BY <1>2, ItemStays DEF OnFile
    <2>2. \A h \in DOMAIN holds' : HoldFields \subseteq DOMAIN holds'[h]
      BY <1>1 DEF OnFile
    <2>3. QED
      BY <1>1, <2>1, <2>2 DEF OnFile
  <1>4. QED
    BY <1>1, <1>2, <1>3

LEMMA HoldWritten ==
  ASSUME OnFile, NEW h, NEW row, ReadHold(row, h, holds), holds' = [holds EXCEPT ![h] = row], items' = items
  PROVE  HoldsKept /\ ItemsKept /\ OnFile'
  <1>1. h \in DOMAIN holds
    BY DEF ReadHold
  <1>2. /\ IsTable(holds') /\ DOMAIN holds' = DOMAIN holds
        /\ \A n \in DOMAIN holds : holds'[n] = IF n = h THEN row ELSE holds[n]
    BY <1>1, TableUpdated DEF OnFile
  <1>3. HoldsKept /\ ItemsKept
    BY <1>2 DEF HoldsKept, ItemsKept, ReadHold
  <1>4. \A n \in DOMAIN items' : IsItem(items'[n], holds')
    BY <1>3, ItemStays DEF OnFile
  <1>5. \A n \in DOMAIN holds' : HoldFields \subseteq DOMAIN holds'[n]
    BY <1>2 DEF OnFile, ReadHold
  <1>6. QED
    BY <1>2, <1>3, <1>4, <1>5 DEF OnFile

LEMMA ItemWritten ==
  ASSUME OnFile, NEW n, NEW row, ReadItem(row, n, holds, items), items' = [items EXCEPT ![n] = row], holds' = holds
  PROVE  HoldsKept /\ ItemsKept /\ OnFile'
  <1>1. n \in DOMAIN items
    BY DEF ReadItem
  <1>2. /\ IsTable(items') /\ DOMAIN items' = DOMAIN items
        /\ \A m \in DOMAIN items : items'[m] = IF m = n THEN row ELSE items[m]
    BY <1>1, TableUpdated DEF OnFile
  <1>3. HoldsKept /\ ItemsKept
    BY <1>2 DEF HoldsKept, ItemsKept, ReadItem
  <1>4. \A m \in DOMAIN items' : IsItem(items'[m], holds)
    BY <1>2 DEF OnFile, ReadItem
  <1>5. QED
    BY <1>2, <1>3, <1>4 DEF OnFile

LEMMA SameProperty ==
  ASSUME UNCHANGED <<property, transitions>>, Recorded
  PROVE  PropertyKept /\ Recorded'
  BY DEF PropertyKept, Recorded

\* The operations on a property and its holds.
LEMMA LifecycleStep ==
  ASSUME HomeInv, Home!LifecycleNext, UNCHANGED <<items, warnings>>
  PROVE  HomeInv'
  <1> USE DEF Home!Under, Home!Goes, Home!Done, Home!Begin
  <1>0. Recorded /\ OnFile /\ DOMAIN pc = Client
    BY DEF HomeInv
  <1>1. ASSUME NEW s \in Initial, Home!handleCreateProperty(s)
        PROVE  HomeInv'
    <2>1. /\ pc' = pc /\ property = None /\ holds' = holds /\ items' = items /\ transitions' = transitions
          /\ property' = [state |-> s, ready |-> FALSE, version |-> 1]
      BY <1>1 DEF Home!handleCreateProperty, Home!Served, Home!CreateProperty, Home!createProperty
    <2>2. property' \in Property
      BY <2>1, InitialIsState DEF Property
    <2>3. property' # None
      BY <2>2, NoneIsNull
    <2>4. DOMAIN transitions = {} /\ Len(transitions) = 0 /\ IsTable(transitions)
      BY <1>0, <2>1, TableRows DEF Recorded
    <2>5. Recorded'
      BY <2>1, <2>2, <2>3, <2>4 DEF Recorded
    <2>6. PropertyKept /\ HoldsKept /\ ItemsKept
      BY <2>1 DEF PropertyKept, HoldsKept, ItemsKept
    <2>7. OnFile'
      BY <1>0, <2>1 DEF OnFile
    <2>8. QED
      BY <2>1, <2>5, <2>6, <2>7, HomeServed
  <1>2. ASSUME NEW ready \in BOOLEAN, Home!handleSetReadiness(ready)
        PROVE  HomeInv'
    <2>1. /\ pc' = pc /\ property # None /\ holds' = holds /\ items' = items /\ transitions' = transitions
          /\ property' = [property EXCEPT !.ready = ready, !.version = @ + 1]
      BY <1>2 DEF Home!handleSetReadiness, Home!Served, Home!SetReadiness, Home!setPropertyReadiness
    <2>2. property \in Property
      BY <1>0, <2>1 DEF Recorded
    <2>3. property'.version = property.version + 1 /\ property'.state = property.state /\ property' \in Property
      <3>1. property.version + 1 \in Nat
        BY <2>2 DEF Property
      <3>2. property'.version = property.version + 1 /\ property'.state = property.state
        BY <2>1, <2>2 DEF Property
      <3>3. property' \in Property
        BY <2>1, <2>2, <3>1 DEF Property
      <3>4. QED
        BY <3>2, <3>3
    <2>4. property' # None /\ property.version \in Nat
      BY <2>2, <2>3, NoneIsNull DEF Property
    <2>5. Recorded'
      BY <1>0, <2>1, <2>3, <2>4 DEF Recorded
    <2>6. PropertyKept /\ HoldsKept /\ ItemsKept
      BY <2>1, <2>3, <2>4 DEF PropertyKept, HoldsKept, ItemsKept
    <2>7. OnFile'
      BY <1>0, <2>1 DEF OnFile
    <2>8. QED
      BY <2>1, <2>5, <2>6, <2>7, HomeServed
  <1>3. ASSUME NEW kind, NEW critical, Home!handleAddComplianceHold(kind, critical)
        PROVE  HomeInv'
    <2> DEFINE row == Home!NewComplianceHold(kind, critical)
    <2>1. pc' = pc /\ holds' = Append(holds, row) /\ items' = items /\ UNCHANGED <<property, transitions>>
      BY <1>3 DEF Home!handleAddComplianceHold, Home!Served, Home!AddComplianceHold, Home!insertComplianceHold
    <2>2. HoldFields \subseteq DOMAIN row
      BY DEF HoldFields, Home!NewComplianceHold
    <2> HIDE DEF row
    <2>3. QED
      BY <1>0, <2>1, <2>2, HoldPut, SameProperty, HomeServed
  <1>4. ASSUME NEW c \in Client, NEW to \in Home!States, Home!handleTransitionProperty(c, to)
        PROVE  HomeInv'
    <2> DEFINE frame == [op |-> "transition", to |-> to, row |-> property]
    <2>1. pc' = [pc EXCEPT ![c] = frame] /\ property # None /\ UNCHANGED <<property, holds, transitions, items>>
      BY <1>4 DEF Home!handleTransitionProperty, Home!lifecycle
    <2>2. ReadProperty(property, property)
      BY <1>0, <2>1 DEF ReadProperty, Recorded, Property
    <2>3. Fits(frame, property, holds, items)
      BY <2>2 DEF Fits, Moving, Scanning
    <2>4. QED
      BY <2>1, <2>3, HomeReads
  <1>5. ASSUME NEW c \in Client, NEW h \in DOMAIN holds, Home!handleResolveComplianceHold(c, h)
        PROVE  HomeInv'
    <2> DEFINE frame == [op |-> "resolve", hold |-> h, row |-> Home!Resolve(holds[h])]
    <2>1. pc' = [pc EXCEPT ![c] = frame] /\ UNCHANGED <<property, holds, transitions, items>>
      BY <1>5 DEF Home!handleResolveComplianceHold, Home!lifecycle
    <2>2. ReadHold(Home!Resolve(holds[h]), h, holds)
      BY <1>0 DEF ReadHold, OnFile, HoldFields, Home!Resolve
    <2>3. Fits(frame, property, holds, items)
      BY <2>2 DEF Fits, Scanning
    <2>4. QED
      BY <2>1, <2>3, HomeReads
  <1>6. ASSUME NEW c \in Client, NEW h \in DOMAIN holds, Home!handleGrantComplianceException(c, h)
        PROVE  HomeInv'
    <2> DEFINE frame == [op |-> "except", hold |-> h, row |-> Home!GrantException(holds[h])]
    <2>1. pc' = [pc EXCEPT ![c] = frame] /\ UNCHANGED <<property, holds, transitions, items>>
      BY <1>6 DEF Home!handleGrantComplianceException, Home!lifecycle
    <2>2. ReadHold(Home!GrantException(holds[h]), h, holds)
      BY <1>0 DEF ReadHold, OnFile, HoldFields, Home!GrantException
    <2>3. Fits(frame, property, holds, items)
      BY <2>2 DEF Fits, Scanning
    <2>4. QED
      BY <2>1, <2>3, HomeReads
  <1>7. ASSUME NEW c \in Client, Home!CanActivate(c)
        PROVE  HomeInv'
    <2> DEFINE f == pc[c]
               frame == [f EXCEPT !.op = "move"]
    <2>1. /\ pc' = [pc EXCEPT ![c] = frame] /\ f.op = "transition" /\ UNCHANGED <<property, holds, transitions, items>>
          /\ Home!CanTransition(f.row.state, f.to)
          /\ f.to = "active" => f.row.ready
      BY <1>7 DEF Home!CanActivate, Home!lifecycle, Home!EvaluateActivation
    <2>2. Moving(f, property)
      BY <2>1 DEF HomeInv, Fits
    <2>3. frame.op = "move" /\ frame.to = f.to /\ frame.row = f.row /\ DOMAIN frame = DOMAIN f
      BY <2>2 DEF Moving
    <2> HIDE DEF frame
    <2>4. Fits(frame, property, holds, items)
      BY <2>1, <2>2, <2>3 DEF Fits, Moving, Scanning
    <2>5. QED
      BY <2>1, <2>4, HomeReads
  <1>8. ASSUME NEW c \in Client, Home!TransitionProperty(c)
        PROVE  HomeInv'
    <2> DEFINE f == pc[c]
               row == [from |-> f.row.state, to |-> f.to, version |-> f.row.version, ready |-> property.ready]
    <2>1. /\ f.op = "move" /\ property.version = f.row.version
          /\ pc' = [pc EXCEPT ![c] = Home!Idle]
          /\ property' = [property EXCEPT !.state = f.to, !.version = f.row.version + 1]
          /\ transitions' = Append(transitions, row) /\ holds' = holds /\ items' = items
      BY <1>8 DEF Home!TransitionProperty, Home!updatePropertyState, Home!insertTransition
    <2>2. Moving(f, property)
      BY <2>1 DEF HomeInv, Fits
    <2>3. /\ f.row = property /\ property # None /\ property \in Property /\ f.to \in Home!States
          /\ property.version \in Nat
          /\ Home!CanTransition(property.state, f.to)
          /\ f.to = "active" => property.ready
      BY <2>1, <2>2 DEF Moving, ReadProperty, Property
    <2>4. /\ property'.version = property.version + 1 /\ property'.state = f.to /\ property' \in Property
      <3>1. f.row.version + 1 \in Nat
        BY <2>3
      <3>2. property'.version = property.version + 1 /\ property'.state = f.to
        BY <2>1, <2>3 DEF Property
      <3>3. property' \in Property
        BY <2>1, <2>3, <3>1 DEF Property
      <3>4. QED
        BY <3>2, <3>3
    <2>5. property' # None
      BY <2>4, NoneIsNull
    <2>6. /\ row.from = property.state /\ row.to = f.to /\ row.version = property.version /\ row.ready = property.ready
      BY <2>3
    <2> HIDE DEF row
    <2>7. IsTable(transitions) /\ Len(transitions) \in Nat /\ DOMAIN transitions = 1 .. Len(transitions)
      BY <1>0, TableRows DEF Recorded
    <2>8. /\ IsTable(transitions') /\ Len(transitions') = Len(transitions) + 1
          /\ DOMAIN transitions' = DOMAIN transitions \union {Len(transitions) + 1}
          /\ \A n \in DOMAIN transitions : transitions'[n] = transitions[n]
          /\ transitions'[Len(transitions) + 1] = row
      BY <2>1, <2>7, TableInserted
    <2>9. ASSUME NEW n \in DOMAIN transitions'
          PROVE  /\ Home!CanTransition(transitions'[n].from, transitions'[n].to)
                 /\ transitions'[n].to = "active" => transitions'[n].ready
                 /\ transitions'[n].version \in Nat
                 /\ n > 1 => /\ transitions'[n].from = transitions'[n - 1].to
                             /\ transitions'[n].version > transitions'[n - 1].version
                 /\ transitions'[n].version < property'.version
      <3>1. CASE n = Len(transitions) + 1
        <4>1. /\ Home!CanTransition(transitions'[n].from, transitions'[n].to)
              /\ transitions'[n].to = "active" => transitions'[n].ready
              /\ transitions'[n].version \in Nat
              /\ transitions'[n].version < property'.version
          BY <2>3, <2>4, <2>6, <2>8, <3>1
        <4>2. ASSUME n > 1
              PROVE  /\ transitions'[n].from = transitions'[n - 1].to
                     /\ transitions'[n].version > transitions'[n - 1].version
          <5>1. n - 1 = Len(transitions) /\ n - 1 \in DOMAIN transitions /\ Len(transitions) # 0
            BY <2>7, <3>1, <4>2
          <5>2. property.state = transitions[n - 1].to /\ transitions[n - 1].version < property.version
                /\ transitions[n - 1].version \in Nat
            BY <1>0, <5>1 DEF Recorded
          <5>3. QED
            BY <2>3, <2>6, <2>8, <3>1, <5>1, <5>2
        <4>3. QED
          BY <4>1, <4>2
      <3>2. CASE n # Len(transitions) + 1
        <4>1. n \in DOMAIN transitions /\ transitions'[n] = transitions[n]
          BY <2>8, <3>2
        <4>2. n > 1 => n - 1 \in DOMAIN transitions
          BY <2>7, <4>1
        <4>3. /\ Home!CanTransition(transitions[n].from, transitions[n].to)
              /\ transitions[n].to = "active" => transitions[n].ready
              /\ transitions[n].version \in Nat
              /\ n > 1 => /\ transitions[n].from = transitions[n - 1].to
                          /\ transitions[n].version > transitions[n - 1].version
              /\ transitions[n].version < property.version
          BY <1>0, <4>1 DEF Recorded
        <4>4. QED
          BY <2>3, <2>4, <2>8, <4>1, <4>2, <4>3
      <3>3. QED
        BY <3>1, <3>2
    <2>10. property'.state = transitions'[Len(transitions')].to
      BY <2>4, <2>6, <2>8
    <2>11. Recorded'
      BY <2>4, <2>5, <2>8, <2>9, <2>10 DEF Recorded
    <2>12. PropertyKept /\ HoldsKept /\ ItemsKept
      BY <2>1, <2>4, <2>5 DEF PropertyKept, HoldsKept, ItemsKept
    <2>13. OnFile'
      BY <1>0, <2>1 DEF OnFile
    <2>14. Fits(Home!Idle, property', holds', items')
      BY DEF Fits, Home!Idle, Scanning
    <2>15. QED
      BY <2>1, <2>11, <2>12, <2>13, <2>14, HomeGoes
  <1>9. ASSUME NEW c \in Client, Home!ResolveComplianceHold(c) \/ Home!GrantComplianceException(c)
        PROVE  HomeInv'
    <2> DEFINE f == pc[c]
    <2>1. /\ f.op \in {"resolve", "except"} /\ holds' = [holds EXCEPT ![f.hold] = f.row] /\ items' = items
          /\ pc' = [pc EXCEPT ![c] = Home!Idle] /\ UNCHANGED <<property, transitions>>
      BY <1>9 DEF Home!ResolveComplianceHold, Home!GrantComplianceException, Home!updateComplianceHold
    <2>2. ReadHold(f.row, f.hold, holds)
      BY <2>1 DEF HomeInv, Fits
    <2>3. HoldsKept /\ ItemsKept /\ OnFile' /\ PropertyKept /\ Recorded'
      BY <1>0, <2>1, <2>2, HoldWritten, SameProperty
    <2>4. Fits(Home!Idle, property', holds', items')
      BY DEF Fits, Home!Idle, Scanning
    <2>5. QED
      BY <2>1, <2>3, <2>4, HomeGoes
  <1>10. ASSUME Home!Tick
         PROVE  HomeInv'
    BY <1>10 DEF Home!Tick, Home!lifecycle, HomeInv, Recorded, OnFile
  <1>11. QED
    BY <1>1, <1>2, <1>3, <1>4, <1>5, <1>6, <1>7, <1>8, <1>9, <1>10 DEF Home!LifecycleNext

\* A request that ends.
LEMMA HomeEnds ==
  ASSUME HomeInv, UNCHANGED <<property, holds, transitions, items>>, NEW c \in Client,
         pc' = [pc EXCEPT ![c] = Home!Idle]
  PROVE  HomeInv'
  <1>1. Fits(Home!Idle, property, holds, items)
    BY DEF Fits, Home!Idle, Scanning
  <1>2. QED
    BY <1>1, HomeReads

\* A scan keeps what is before it while it looks after one item.
LEMMA KeepsScanning ==
  ASSUME NEW f, NEW g, NEW H, NEW I, Scans(f, H, I), f.op \in Scanning \ {"scan"},
         {"op", "n", "row", "left", "at", "failed", "due"} \subseteq DOMAIN g,
         g.op \in Scanning, g.left = f.left, g.at = f.at, g.failed = f.failed, g.due = f.due, g.n = f.n,
         ReadItem(g.row, f.n, H, I),
         f.op \in {"held", "raise"} /\ IsDue(f.row, f.at) =>
           IsHeld(I[f.n].kind, H) \/ (g.op \in {"held", "raise"} /\ IsDue(g.row, f.at))
  PROVE  Scans(g, H, I)
  <1>1. \A i \in g.left : ReadItem(i.row, i.n, H, I)
    BY DEF Scans
  <1>2. g.op # "scan" => ReadItem(g.row, g.n, H, I)
    OBVIOUS
  <1>3. g.due \subseteq DOMAIN I /\ g.failed \in BOOLEAN
    BY DEF Scans
  <1>4. ASSUME g.failed = FALSE, NEW n \in g.due
        PROVE  \/ IsHeld(I[n].kind, H)
               \/ \E i \in g.left : i.n = n /\ IsDue(i.row, g.at)
               \/ g.op \in {"held", "raise"} /\ g.n = n /\ IsDue(g.row, g.at)
    <2>1. \/ IsHeld(I[n].kind, H)
          \/ \E i \in f.left : i.n = n /\ IsDue(i.row, f.at)
          \/ f.op \in {"held", "raise"} /\ f.n = n /\ IsDue(f.row, f.at)
      BY <1>4 DEF Scans
    <2>2. QED
      BY <2>1
  <1>5. QED
    BY <1>1, <1>2, <1>3, <1>4 DEF Scans, Scanning

\* And goes on to the next item, when this one is held or need not be, or after a failure.
LEMMA ScansOn ==
  ASSUME NEW f, NEW g, NEW H, NEW I, Scans(f, H, I), f.op \in Scanning \ {"scan"},
         {"op", "left", "at", "failed", "due"} \subseteq DOMAIN g,
         g.op = "scan", g.left = f.left, g.at = f.at, g.failed \in BOOLEAN, g.due = f.due,
         g.failed = FALSE => f.failed = FALSE /\ f.op \notin {"held", "raise"}
  PROVE  Scans(g, H, I)
  BY DEF Scans

LEMMA ItemOf ==
  ASSUME NEW row, NEW n, NEW H, NEW I, ReadItem(row, n, H, I), NEW status
  PROVE  /\ ReadItem([row EXCEPT !.status = status], n, H, I)
         /\ [row EXCEPT !.status = status].critical = row.critical
         /\ [row EXCEPT !.status = status].expiry = row.expiry
         /\ [row EXCEPT !.status = status].kind = row.kind
         /\ [row EXCEPT !.status = status].hold = row.hold
         /\ DOMAIN [row EXCEPT !.status = status] = DOMAIN row
  BY DEF ReadItem, IsItem, ItemFields

LEMMA ExpiredItem ==
  ASSUME NEW row, NEW n, NEW H, NEW I, ReadItem(row, n, H, I)
  PROVE  /\ ReadItem(Home!Expire(row), n, H, I)
         /\ Home!Expire(row).critical = row.critical
         /\ Home!Expire(row).expiry = row.expiry
         /\ Home!Expire(row).kind = row.kind
         /\ DOMAIN Home!Expire(row) = DOMAIN row
  <1>1. CASE row.status = "active"
    BY <1>1, ItemOf DEF Home!Expire
  <1>2. CASE row.status # "active"
    BY <1>2 DEF Home!Expire
  <1>3. QED
    BY <1>1, <1>2

\* The hold of its kind becomes that of an item.
LEMMA ItemNamed ==
  ASSUME NEW row, NEW n, NEW H, NEW I, ReadItem(row, n, H, I), NEW h \in DOMAIN H, H[h].kind = row.kind,
         H[h].critical = TRUE
  PROVE  ReadItem([row EXCEPT !.hold = h], n, H, I)
  BY DEF ReadItem, IsItem, ItemFields

\* The operations on the items, and the scan.
LEMMA ComplianceStep ==
  ASSUME HomeInv, Home!ComplianceNext
  PROVE  HomeInv'
  <1> USE DEF Home!Under, Home!Goes, Home!Done, Home!Begin
  <1>0. Recorded /\ OnFile /\ DOMAIN pc = Client
    BY DEF HomeInv
  <1>1. ASSUME NEW kind, NEW critical, NEW expiry, Home!handleCreateItem(kind, critical, expiry)
        PROVE  HomeInv'
    <2> DEFINE row == Home!NewComplianceItem(kind, critical, expiry)
    <2>1. pc' = pc /\ items' = Append(items, row) /\ holds' = holds /\ UNCHANGED <<property, transitions>>
      BY <1>1 DEF Home!handleCreateItem, Home!Served, Home!CreateItem, Home!InsertItem, Home!lifecycle
    <2>2. IsItem(row, holds)
      BY DEF IsItem, ItemFields, Home!NewComplianceItem
    <2> HIDE DEF row
    <2>3. /\ IsTable(items') /\ DOMAIN items' = DOMAIN items \union {Len(items) + 1}
          /\ \A n \in DOMAIN items : items'[n] = items[n]
          /\ items'[Len(items) + 1] = row
      BY <1>0, <2>1, TableInserted DEF OnFile
    <2>4. HoldsKept /\ ItemsKept
      BY <2>1, <2>3 DEF HoldsKept, ItemsKept
    <2>5. \A n \in DOMAIN items' : IsItem(items'[n], holds)
      BY <1>0, <2>2, <2>3 DEF OnFile
    <2>6. OnFile'
      BY <1>0, <2>1, <2>3, <2>5 DEF OnFile
    <2>7. QED
      BY <1>0, <2>1, <2>4, <2>6, SameProperty, HomeServed
  <1>2. ASSUME NEW w, Home!handleAcknowledgeWarning(w)
        PROVE  HomeInv'
    BY <1>2 DEF Home!handleAcknowledgeWarning, Home!Served, Home!AcknowledgeWarning, Home!lifecycle,
                HomeInv, Recorded, OnFile
  <1>3. ASSUME NEW c \in Client, NEW n \in DOMAIN items, Home!handleRenewItem(c, n)
        PROVE  HomeInv'
    <2> DEFINE frame == [op |-> "renew", item |-> n, row |-> items[n]]
    <2>1. pc' = [pc EXCEPT ![c] = frame] /\ UNCHANGED <<property, holds, transitions, items>>
      BY <1>3 DEF Home!handleRenewItem, Home!lifecycle, Home!compliance
    <2>2. ReadItem(items[n], n, holds, items)
      BY <1>0 DEF ReadItem, OnFile
    <2>3. Fits(frame, property, holds, items)
      BY <2>2 DEF Fits, Scanning
    <2>4. QED
      BY <2>1, <2>3, HomeReads
  <1>4. ASSUME NEW c \in Client, Home!RenewItem(c)
        PROVE  HomeInv'
    <2> DEFINE f == pc[c]
               frame == IF f.row.hold = None THEN Home!Idle ELSE [op |-> "release", hold |-> f.row.hold]
    <2>1. /\ f.op = "renew" /\ items' = [items EXCEPT ![f.item] = [f.row EXCEPT !.status = "renewed"]]
          /\ holds' = holds /\ UNCHANGED <<property, transitions>>
          /\ pc' = [pc EXCEPT ![c] = frame]
      BY <1>4 DEF Home!RenewItem, Home!UpdateItem, Home!Renew, Home!lifecycle
    <2>2. ReadItem(f.row, f.item, holds, items)
      BY <2>1 DEF HomeInv, Fits
    <2>3. HoldsKept /\ ItemsKept /\ OnFile' /\ PropertyKept /\ Recorded'
      <3>1. PICK row : row = [f.row EXCEPT !.status = "renewed"]
        OBVIOUS
      <3>2. ReadItem(row, f.item, holds, items)
        BY <2>2, <3>1, ItemOf
      <3>3. items' = [items EXCEPT ![f.item] = row]
        BY <2>1, <3>1
      <3>4. QED
        BY <1>0, <2>1, <3>2, <3>3, ItemWritten, SameProperty
    <2>4. Fits(frame, property', holds', items')
      BY <2>1, <2>2 DEF Fits, Home!Idle, Scanning, ReadItem, IsItem
    <2>5. QED
      BY <2>1, <2>3, <2>4, HomeGoes
  <1>5. ASSUME NEW c \in Client, Home!resolveHoldDirect(c)
        PROVE  HomeInv'
    <2> DEFINE h == pc[c].hold
    <2>1. /\ pc[c].op = "release" /\ items' = items /\ UNCHANGED <<property, transitions>>
          /\ holds' = IF holds[h].status = "open" THEN [holds EXCEPT ![h] = Home!Resolve(holds[h])] ELSE holds
          /\ pc' = [pc EXCEPT ![c] = Home!Idle]
      BY <1>5 DEF Home!resolveHoldDirect, Home!compliance
    <2>2. h \in DOMAIN holds
      BY <2>1 DEF HomeInv, Fits
    <2>3. ReadHold(Home!Resolve(holds[h]), h, holds)
      BY <1>0, <2>2 DEF ReadHold, OnFile, HoldFields, Home!Resolve
    <2>4. CASE holds' = [holds EXCEPT ![h] = Home!Resolve(holds[h])]
      <3>1. HoldsKept /\ ItemsKept /\ OnFile' /\ PropertyKept /\ Recorded'
        BY <1>0, <2>1, <2>3, <2>4, HoldWritten, SameProperty
      <3>2. Fits(Home!Idle, property', holds', items')
        BY DEF Fits, Home!Idle, Scanning
      <3>3. QED
        BY <2>1, <3>1, <3>2, HomeGoes
    <2>5. CASE holds' = holds
      BY <2>1, <2>5, HomeEnds
    <2>6. QED
      BY <2>1, <2>4, <2>5
  <1>6. ASSUME NEW c \in Client, Home!handleScanExpiry(c)
        PROVE  HomeInv'
    <2> DEFINE due == {n \in DOMAIN items : /\ items[n].critical
                                            /\ items[n].status \in {"active", "expired"}
                                            /\ Home!IsExpired(items[n], now)}
               frame == [op |-> "scan", left |-> Home!ListScannableItems, at |-> now, failed |-> FALSE, due |-> due]
    <2>1. pc' = [pc EXCEPT ![c] = frame] /\ UNCHANGED <<property, holds, transitions, items>>
      BY <1>6 DEF Home!handleScanExpiry, Home!lifecycle, Home!compliance
    <2>2. \A i \in Home!ListScannableItems : ReadItem(i.row, i.n, holds, items)
      BY <1>0 DEF ReadItem, OnFile, Home!ListScannableItems
    <2>3. \A n \in due : \E i \in Home!ListScannableItems : i.n = n /\ IsDue(i.row, now)
      <3> SUFFICES ASSUME NEW n \in due
                   PROVE  \E i \in Home!ListScannableItems : i.n = n /\ IsDue(i.row, now)
        OBVIOUS
      <3> DEFINE i == [n |-> n, row |-> items[n]]
      <3>1. i \in Home!ListScannableItems
        BY DEF Home!ListScannableItems
      <3>2. IsDue(items[n], now)
        BY DEF IsDue
      <3>3. QED
        BY <3>1, <3>2
    <2>4. due \subseteq DOMAIN items
      OBVIOUS
    <2> HIDE DEF due
    <2>5. Scans(frame, holds, items)
      BY <2>2, <2>3, <2>4 DEF Scans
    <2>6. Fits(frame, property, holds, items)
      BY <2>5 DEF Fits, Scanning
    <2>7. QED
      BY <2>1, <2>6, HomeReads
  <1>7. ASSUME NEW c \in Client, Home!ScanExpired(c)
        PROVE  HomeInv'
    <2>1. PICK i \in pc[c].left :
            LET row == IF Home!IsExpired(i.row, pc[c].at) THEN Home!Expire(i.row) ELSE i.row IN
            /\ IF row = i.row THEN items' = items ELSE items' = [items EXCEPT ![i.n] = row]
            /\ pc' = [pc EXCEPT ![c] = [op |-> "held", n |-> i.n, row |-> row, left |-> pc[c].left \ {i},
                                        at |-> pc[c].at, failed |-> pc[c].failed, due |-> pc[c].due]]
            /\ UNCHANGED <<property, transitions, holds>> /\ pc[c].op = "scan"
      BY <1>7 DEF Home!ScanExpired, Home!UpdateItem, Home!lifecycle
    <2> DEFINE f == pc[c]
               row == IF Home!IsExpired(i.row, f.at) THEN Home!Expire(i.row) ELSE i.row
               frame == [op |-> "held", n |-> i.n, row |-> row, left |-> f.left \ {i},
                         at |-> f.at, failed |-> f.failed, due |-> f.due]
    <2>2. /\ items' = items \/ items' = [items EXCEPT ![i.n] = row]
          /\ pc' = [pc EXCEPT ![c] = frame] /\ UNCHANGED <<property, transitions, holds>>
      BY <2>1
    <2>3. Scans(f, holds, items) /\ ReadItem(i.row, i.n, holds, items)
      BY <2>1 DEF HomeInv, Fits, Scanning, Scans
    <2>4. /\ ReadItem(row, i.n, holds, items)
          /\ row.critical = i.row.critical /\ row.expiry = i.row.expiry
      BY <2>3, ExpiredItem
    <2>5. HoldsKept /\ ItemsKept /\ OnFile'
      <3>1. CASE items' = items
        BY <1>0, <2>2, <3>1 DEF HoldsKept, ItemsKept, OnFile
      <3>2. CASE items' = [items EXCEPT ![i.n] = row]
        <4> HIDE DEF row
        <4>1. QED
          BY <1>0, <2>2, <2>4, <3>2, ItemWritten
      <3>3. QED
        BY <2>2, <3>1, <3>2
    <2>6. IsDue(i.row, f.at) => IsDue(row, f.at)
      BY <2>4 DEF IsDue, Home!IsExpired
    <2> HIDE DEF row
    <2>7. /\ frame.op = "held" /\ frame.n = i.n /\ frame.row = row /\ frame.left = f.left \ {i}
          /\ frame.at = f.at /\ frame.failed = f.failed /\ frame.due = f.due
          /\ {"op", "left", "at", "failed", "due", "n", "row"} \subseteq DOMAIN frame
      OBVIOUS
    <2> HIDE DEF frame
    <2>8. Scans(frame, holds, items)
      <3>1. ASSUME frame.failed = FALSE, NEW n \in frame.due
            PROVE  \/ IsHeld(items[n].kind, holds)
                   \/ \E j \in frame.left : j.n = n /\ IsDue(j.row, frame.at)
                   \/ frame.op \in {"held", "raise"} /\ frame.n = n /\ IsDue(frame.row, frame.at)
        <4>1. IsHeld(items[n].kind, holds) \/ \E j \in f.left : j.n = n /\ IsDue(j.row, f.at)
          BY <2>1, <2>3, <2>7, <3>1 DEF Scans
        <4>2. QED
          BY <2>6, <2>7, <4>1
      <3>2. QED
        BY <2>3, <2>4, <2>7, <3>1 DEF Scans
    <2>9. Fits(frame, property, holds, items)
      BY <2>7, <2>8 DEF Fits, Scanning
    <2>10. PropertyKept /\ Recorded'
      BY <1>0, <2>2, SameProperty
    <2>11. Fits(frame, property', holds', items')
      BY <1>0, <2>5, <2>9, <2>10, FitsStays
    <2>12. QED
      BY <2>2, <2>5, <2>10, <2>11, HomeGoes
  <1>8. ASSUME NEW c \in Client, Home!AlreadyHeld(c)
        PROVE  HomeInv'
    <2> DEFINE f == pc[c]
               raise == Home!IsExpired(f.row, f.at) /\ f.row.critical
    <2>1. f.op = "held" /\ UNCHANGED <<property, holds, transitions, items>>
      BY <1>8 DEF Home!AlreadyHeld, Home!lifecycle, Home!compliance
    <2>2. Scans(f, holds, items) /\ f.op \in Scanning \ {"scan"} /\ ReadItem(f.row, f.n, holds, items)
          /\ {"op", "n", "row", "left", "at", "failed", "due"} \subseteq DOMAIN f
      BY <2>1 DEF HomeInv, Fits, Scanning, Scans
    <2>3. ASSUME NEW first \in Home!Holding(f.row.kind), f.row.hold # first,
                 pc' = [pc EXCEPT ![c] = Home!Keeping(c, "link", [f.row EXCEPT !.hold = first])]
          PROVE  HomeInv'
      <3> DEFINE row == [f.row EXCEPT !.hold = first]
                 frame == [f EXCEPT !.op = "link", !.row = row]
      <3>1. /\ first \in DOMAIN holds /\ holds[first].kind = f.row.kind /\ holds[first].critical = TRUE
        BY <2>3 DEF Home!Holding
      <3>2. ReadItem(row, f.n, holds, items)
        BY <2>2, <3>1, ItemNamed
      <3> HIDE DEF row
      <3>3. /\ frame.op = "link" /\ frame.row = row /\ frame.left = f.left /\ frame.at = f.at
            /\ frame.failed = f.failed /\ frame.due = f.due /\ frame.n = f.n
            /\ DOMAIN frame = DOMAIN f
        BY <2>2
      <3>4. IsHeld(items[f.n].kind, holds)
        BY <2>2, <3>1 DEF IsHeld, ReadItem
      <3>5. pc' = [pc EXCEPT ![c] = frame]
        BY <2>3 DEF Home!Keeping, row
      <3> HIDE DEF frame
      <3>6. Scans(frame, holds, items)
        BY <2>2, <3>2, <3>3, <3>4, KeepsScanning DEF Scanning
      <3>7. Fits(frame, property, holds, items)
        BY <3>3, <3>6 DEF Fits, Scanning
      <3>8. QED
        BY <2>1, <3>5, <3>7, HomeReads
    <2>4. ASSUME NEW op \in {"warn", "raise"}, pc' = [pc EXCEPT ![c] = Home!Keeping(c, op, f.row)],
                 op = "warn" /\ IsDue(f.row, f.at) => IsHeld(items[f.n].kind, holds)
          PROVE  HomeInv'
      <3> DEFINE frame == [f EXCEPT !.op = op, !.row = f.row]
      <3>1. /\ frame.op = op /\ frame.row = f.row /\ frame.left = f.left /\ frame.at = f.at
            /\ frame.failed = f.failed /\ frame.due = f.due /\ frame.n = f.n
            /\ DOMAIN frame = DOMAIN f
        BY <2>2
      <3>2. pc' = [pc EXCEPT ![c] = frame]
        BY <2>4 DEF Home!Keeping
      <3> HIDE DEF frame
      <3>3. Scans(frame, holds, items)
        BY <2>2, <2>4, <3>1, KeepsScanning DEF Scanning
      <3>4. Fits(frame, property, holds, items)
        BY <2>4, <3>1, <3>3 DEF Fits, Scanning
      <3>5. QED
        BY <2>1, <3>2, <3>4, HomeReads
    <2>5. ASSUME NEW first \in Home!Holding(f.row.kind)
          PROVE  IsHeld(items[f.n].kind, holds)
      BY <2>2, <2>5 DEF IsHeld, ReadItem, Home!Holding
    <2>6. CASE \E first \in Home!Holding(f.row.kind) :
                 pc' = [pc EXCEPT ![c] = IF f.row.hold # first THEN Home!Keeping(c, "link", [f.row EXCEPT !.hold = first])
                                         ELSE Home!Keeping(c, "warn", f.row)]
      <3>1. PICK first \in Home!Holding(f.row.kind) :
              pc' = [pc EXCEPT ![c] = IF f.row.hold # first THEN Home!Keeping(c, "link", [f.row EXCEPT !.hold = first])
                                      ELSE Home!Keeping(c, "warn", f.row)]
        BY <2>6
      <3>2. CASE f.row.hold # first
        BY <2>3, <3>1, <3>2
      <3>3. CASE f.row.hold = first
        BY <2>4, <2>5, <3>1, <3>3
      <3>4. QED
        BY <3>2, <3>3
    <2>7. CASE pc' = [pc EXCEPT ![c] = Home!Keeping(c, IF raise THEN "raise" ELSE "warn", f.row)]
      <3>1. CASE raise
        BY <2>4, <2>7, <3>1
      <3>2. CASE ~raise
        <4>1. ~IsDue(f.row, f.at)
          BY <3>2 DEF IsDue
        <4>2. QED
          BY <2>4, <2>7, <3>2, <4>1
      <3>3. QED
        BY <3>1, <3>2
    <2>8. QED
      BY <1>8, <2>6, <2>7 DEF Home!AlreadyHeld
  <1>9. ASSUME NEW c \in Client, Home!LinkHold(c)
        PROVE  HomeInv'
    <2> DEFINE f == pc[c]
               frame == [f EXCEPT !.op = "warn"]
    <2>1. /\ f.op = "link" /\ items' = [items EXCEPT ![f.n] = f.row] /\ holds' = holds
          /\ UNCHANGED <<property, transitions>> /\ pc' = [pc EXCEPT ![c] = frame]
      BY <1>9 DEF Home!LinkHold, Home!UpdateItem, Home!lifecycle
    <2>2. Scans(f, holds, items) /\ f.op \in Scanning \ {"scan"} /\ ReadItem(f.row, f.n, holds, items)
          /\ {"op", "n", "row", "left", "at", "failed", "due"} \subseteq DOMAIN f
      BY <2>1 DEF HomeInv, Fits, Scanning, Scans
    <2>3. HoldsKept /\ ItemsKept /\ OnFile' /\ PropertyKept /\ Recorded'
      BY <1>0, <2>1, <2>2, ItemWritten, SameProperty
    <2>4. /\ frame.op = "warn" /\ frame.row = f.row /\ frame.left = f.left /\ frame.at = f.at
          /\ frame.failed = f.failed /\ frame.due = f.due /\ frame.n = f.n
          /\ DOMAIN frame = DOMAIN f
      BY <2>2
    <2> HIDE DEF frame
    <2>5. Scans(frame, holds, items)
      BY <2>1, <2>2, <2>4, KeepsScanning DEF Scanning
    <2>6. Fits(frame, property, holds, items)
      BY <2>4, <2>5 DEF Fits, Scanning
    <2>7. Fits(frame, property', holds', items')
      BY <1>0, <2>3, <2>6, FitsStays
    <2>8. QED
      BY <2>1, <2>3, <2>7, HomeGoes
  <1>10. ASSUME NEW c \in Client, Home!createCriticalHold(c)
         PROVE  HomeInv'
    <2> DEFINE f == pc[c]
               hold == Home!NewComplianceHold(f.row.kind, TRUE)
               row == [Home!Expire(f.row) EXCEPT !.hold = Len(holds')]
    <2>1. /\ f.op = "raise" /\ holds' = Append(holds, hold) /\ items' = items
          /\ UNCHANGED <<property, transitions>>
          /\ pc' = [pc EXCEPT ![c] = Home!Keeping(c, "link", row)]
      BY <1>10 DEF Home!createCriticalHold, Home!insertComplianceHold, Home!compliance
    <2>2. Scans(f, holds, items) /\ f.op \in Scanning \ {"scan"}
          /\ {"op", "n", "row", "left", "at", "failed", "due"} \subseteq DOMAIN f
      BY <2>1 DEF HomeInv, Fits, Scanning, Scans
    <2>3. HoldFields \subseteq DOMAIN hold /\ hold.kind = f.row.kind /\ hold.critical = TRUE
      BY DEF HoldFields, Home!NewComplianceHold
    <2> HIDE DEF hold
    <2>4. /\ HoldsKept /\ ItemsKept /\ OnFile' /\ PropertyKept /\ Recorded'
          /\ Len(holds') \in DOMAIN holds' /\ holds'[Len(holds')] = hold
      BY <1>0, <2>1, <2>3, HoldPut, SameProperty
    <2>5. Fits(f, property', holds', items')
      BY <1>0, <2>4, FitsStays DEF HomeInv
    <2>6. Scans(f, holds', items') /\ ReadItem(f.row, f.n, holds', items')
      BY <2>2, <2>5 DEF Fits, Scans
    <2>7. ReadItem(row, f.n, holds', items')
      <3>1. /\ ReadItem(Home!Expire(f.row), f.n, holds', items')
            /\ Home!Expire(f.row).kind = f.row.kind
        BY <2>6, ExpiredItem
      <3>2. QED
        BY <2>3, <2>4, <3>1, ItemNamed
    <2>8. IsHeld(items'[f.n].kind, holds')
      BY <2>3, <2>4, <2>6 DEF IsHeld, ReadItem
    <2>9. PICK frame : frame = [f EXCEPT !.op = "link", !.row = row]
      OBVIOUS
    <2>10. pc' = [pc EXCEPT ![c] = frame]
      BY <2>1, <2>9 DEF Home!Keeping
    <2> HIDE DEF row
    <2>11. /\ frame.op = "link" /\ frame.row = row /\ frame.left = f.left /\ frame.at = f.at
           /\ frame.failed = f.failed /\ frame.due = f.due /\ frame.n = f.n
           /\ DOMAIN frame = DOMAIN f
      BY <2>2, <2>9
    <2>12. Scans(frame, holds', items')
      BY <2>2, <2>6, <2>7, <2>8, <2>11, KeepsScanning DEF Scanning
    <2>13. Fits(frame, property', holds', items')
      BY <2>11, <2>12 DEF Fits, Scanning
    <2>14. QED
      BY <2>4, <2>10, <2>13, HomeGoes
  <1>11. ASSUME NEW c \in Client, Home!SkipItem(c)
         PROVE  HomeInv'
    <2> DEFINE f == pc[c]
               frame == [op |-> "scan", left |-> f.left, at |-> f.at, failed |-> TRUE, due |-> f.due]
    <2>1. /\ f.op \in {"held", "raise"} /\ UNCHANGED <<property, holds, transitions, items>>
          /\ pc' = [pc EXCEPT ![c] = frame]
      <3>1. PICK yes : yes = TRUE
        BY Zenon
      <3>2. [Home!NextItem(c) EXCEPT !.failed = yes]
              = [op |-> "scan", left |-> f.left, at |-> f.at, failed |-> yes, due |-> f.due]
        <4> HIDE <3>1
        <4>1. QED
          BY DEF Home!NextItem
      <3>3. [Home!NextItem(c) EXCEPT !.failed = TRUE] = frame
        BY <3>1, <3>2, Zenon
      <3>4. QED
        BY <1>11, <3>3 DEF Home!SkipItem, Home!lifecycle, Home!compliance
    <2>2. Scans(f, holds, items) /\ f.op \in Scanning \ {"scan"}
      BY <2>1 DEF HomeInv, Fits, Scanning
    <2>3. Scans(frame, holds, items)
      BY <2>2, ScansOn
    <2>4. Fits(frame, property, holds, items)
      BY <2>3 DEF Fits, Scanning
    <2>5. QED
      BY <2>1, <2>4, HomeReads
  <1>12. ASSUME NEW c \in Client, Home!FindWarning(c)
         PROVE  HomeInv'
    <2> DEFINE f == pc[c]
               next == [op |-> "scan", left |-> f.left, at |-> f.at, failed |-> f.failed, due |-> f.due]
               issue(days) == [op |-> "issue", n |-> f.n, row |-> f.row, left |-> f.left, at |-> f.at,
                               failed |-> f.failed, due |-> f.due, days |-> days]
    <2>1. /\ f.op = "warn" /\ UNCHANGED <<property, holds, transitions, items>>
          /\ pc' = [pc EXCEPT ![c] = next] \/ (\E days : pc' = [pc EXCEPT ![c] = issue(days)])
      BY <1>12 DEF Home!FindWarning, Home!NextItem, Home!lifecycle, Home!compliance
    <2>2. Scans(f, holds, items) /\ f.op \in Scanning \ {"scan"} /\ f.failed \in BOOLEAN
          /\ ReadItem(f.row, f.n, holds, items)
      BY <2>1 DEF HomeInv, Fits, Scanning, Scans
    <2>3. CASE pc' = [pc EXCEPT ![c] = next]
      <3>1. Scans(next, holds, items)
        BY <2>1, <2>2, ScansOn
      <3>2. Fits(next, property, holds, items)
        BY <3>1 DEF Fits, Scanning
      <3>3. QED
        BY <2>1, <2>3, <3>2, HomeReads
    <2>4. ASSUME NEW days, pc' = [pc EXCEPT ![c] = issue(days)]
          PROVE  HomeInv'
      <3>1. Scans(issue(days), holds, items)
        BY <2>1, <2>2, KeepsScanning DEF Scanning
      <3>2. Fits(issue(days), property, holds, items)
        BY <3>1 DEF Fits, Scanning
      <3>3. QED
        BY <2>1, <2>4, <3>2, HomeReads
    <2>5. QED
      BY <2>1, <2>3, <2>4
  <1>13. ASSUME NEW c \in Client, Home!IssueWarning(c)
         PROVE  HomeInv'
    <2> DEFINE f == pc[c]
               frame == [f EXCEPT !.op = "warn"]
    <2>1. /\ f.op = "issue" /\ UNCHANGED <<property, holds, transitions, items>> /\ pc' = [pc EXCEPT ![c] = frame]
      BY <1>13 DEF Home!IssueWarning, Home!lifecycle
    <2>2. Scans(f, holds, items) /\ f.op \in Scanning \ {"scan"} /\ ReadItem(f.row, f.n, holds, items)
          /\ {"op", "n", "row", "left", "at", "failed", "due"} \subseteq DOMAIN f
      BY <2>1 DEF HomeInv, Fits, Scanning, Scans
    <2>3. /\ frame.op = "warn" /\ frame.row = f.row /\ frame.left = f.left /\ frame.at = f.at
          /\ frame.failed = f.failed /\ frame.due = f.due /\ frame.n = f.n
          /\ DOMAIN frame = DOMAIN f
      BY <2>2
    <2> HIDE DEF frame
    <2>4. Scans(frame, holds, items)
      BY <2>1, <2>2, <2>3, KeepsScanning DEF Scanning
    <2>5. Fits(frame, property, holds, items)
      BY <2>3, <2>4 DEF Fits, Scanning
    <2>6. QED
      BY <2>1, <2>5, HomeReads
  <1>14. ASSUME NEW c \in Client, Home!ScanEnds(c) \/ Home!Abandon(c)
         PROVE  HomeInv'
    <2>1. pc' = [pc EXCEPT ![c] = Home!Idle] /\ UNCHANGED <<property, holds, transitions, items>>
      BY <1>14 DEF Home!ScanEnds, Home!Abandon, Home!Dropped, Home!lifecycle, Home!compliance
    <2>2. QED
      BY <2>1, HomeEnds
  <1>15. QED
    BY <1>1, <1>2, <1>3, <1>4, <1>5, <1>6, <1>7, <1>8, <1>9, <1>10, <1>11, <1>12, <1>13, <1>14
       DEF Home!ComplianceNext

\* Inductive, whatever the requests and the scans do.
LEMMA HomeKept == Spec => [](part = "lifecycle" => HomeInv)
  <1> DEFINE Inv == part = "lifecycle" => HomeInv
  <1>1. Init => Inv
    <2> SUFFICES ASSUME Init
                 PROVE  HomeInv
      OBVIOUS
    <2>1. /\ property = None /\ holds = <<>> /\ transitions = <<>> /\ items = <<>>
          /\ pc = [c \in Client |-> Home!Idle]
      BY DEF Init, Home!Init, Home!LifecycleInit, Home!NoRequests
    <2>2. Recorded /\ OnFile
      BY <2>1, EmptyTable DEF Recorded, OnFile
    <2>3. \A c \in Client : Fits(pc[c], property, holds, items)
      BY <2>1 DEF Fits, Home!Idle, Scanning
    <2>4. QED
      BY <2>1, <2>2, <2>3 DEF HomeInv
  <1>2. Inv /\ [Next]_vars => Inv'
    <2> SUFFICES ASSUME Inv, [Next]_vars, part' = "lifecycle"
                 PROVE  HomeInv'
      OBVIOUS
    <2>1. part = "lifecycle" /\ HomeInv
      BY Moves
    <2>2. CASE UNCHANGED <<lifecycle, pc, requests>>
      BY <2>1, <2>2 DEF lifecycle, HomeInv, Recorded, OnFile
    <2>3. CASE Home!Next
      BY <2>1, <2>3, LifecycleStep, ComplianceStep DEF Home!Next, Home!compliance
    <2>4. QED
      BY <2>1, <2>2, <2>3, Moves
  <1>3. QED
    BY <1>1, <1>2, PTL DEF Spec

\* "The transitions of a property are on record": a path of the lifecycle, in the order of the
\* versions, that ends in its state; it becomes active only while it is ready.
THEOREM LifecycleCorrect == Spec => []LifecycleOnRecord
  <1>1. (part = "lifecycle" => HomeInv) => LifecycleOnRecord
    <2> SUFFICES ASSUME HomeInv
                 PROVE  Home!LifecycleOnRecord
      BY DEF LifecycleOnRecord
    <2>1. transitions # <<>> => Len(transitions) # 0
      BY EmptySeq, EmptyTable, TableRows DEF HomeInv, Recorded, IsTable
    <2>2. QED
      BY <2>1 DEF HomeInv, Recorded, Home!LifecycleOnRecord
  <1>2. QED
    BY <1>1, HomeKept, PTL

\* What a scan found expired holds the property, also when an earlier scan expired it and died:
\* a scan that got through leaves a critical hold of the kind of each such item.
THEOREM ComplianceCorrect == Spec => []HeldOnceScanned
  <1>1. (part = "lifecycle" => HomeInv) => HeldOnceScanned
    <2> SUFFICES ASSUME HomeInv
                 PROVE  Home!HeldOnceScanned
      BY DEF HeldOnceScanned
    <2>1. \A n \in DOMAIN items :
            items[n].hold # None => holds[items[n].hold].kind = items[n].kind /\ holds[items[n].hold].critical
      BY DEF HomeInv, OnFile, IsItem
    <2>2. ASSUME NEW c \in Client, pc[c].op = "scan", pc[c].left = {}, ~pc[c].failed
          PROVE  \A n \in pc[c].due : \E h \in DOMAIN holds : holds[h].kind = items[n].kind /\ holds[h].critical
      <3>1. Scans(pc[c], holds, items)
        BY <2>2 DEF HomeInv, Fits, Scanning
      <3>2. pc[c].failed = FALSE
        BY <2>2, <3>1 DEF Scans
      <3>3. QED
        BY <2>2, <3>1, <3>2 DEF Scans, IsHeld
    <2>3. QED
      BY <2>1, <2>2 DEF Home!HeldOnceScanned, Home!Under
  <1>2. QED
    BY <1>1, HomeKept, PTL

-----------------------------------------------------------------------------
(* What the movements add up to *)

MovementRow ==
  [type : STRING \union {"adjustment"}, quantity : Int, expires : Nat, at : 0 .. MaxTime, seen : Nat,
   count : Nat \union {None}]

IsLedger(M) == M \in Seq(MovementRow)

Weight(M, S, n) == IF n \in S THEN M[n].quantity ELSE 0

LEMMA LedgerRows ==
  ASSUME NEW M, IsLedger(M)
  PROVE  /\ Len(M) \in Nat /\ DOMAIN M = 1 .. Len(M)
         /\ \A n \in DOMAIN M : /\ M[n] \in MovementRow
                                /\ M[n].quantity \in Int
                                /\ M[n].expires \in Nat
                                /\ M[n].at \in 0 .. MaxTime
                                /\ M[n].seen \in Nat
  <1>1. /\ Len(M) \in Nat /\ DOMAIN M = 1 .. Len(M)
        /\ \A n \in DOMAIN M : M[n] \in MovementRow
    BY Rows DEF IsLedger
  <1>2. QED
    BY <1>1 DEF MovementRow

\* A sum of movements runs through numbers.
LEMMA SumOfRuns ==
  ASSUME NEW M, IsLedger(M), NEW S
  PROVE  \E sum, weight : /\ Runs(sum, weight, Len(M))
                          /\ \A n \in DOMAIN M : weight[n] = Weight(M, S, n)
                          /\ Stock!SumOf(M, S) = sum[Len(M)]
  <1> DEFINE L == Len(M)
             weight == [n \in 1 .. L |-> Weight(M, S, n)]
             total == CHOOSE f : f = [n \in 0 .. L |-> IF n = 0 THEN 0
                                                       ELSE f[n - 1] + IF n \in S THEN M[n].quantity ELSE 0]
  <1>1. L \in Nat /\ DOMAIN M = 1 .. L /\ \A n \in 1 .. L : M[n].quantity \in Int
    BY LedgerRows
  <1>2. weight \in [1 .. L -> Int] /\ \A n \in 1 .. L : weight[n] = IF n \in S THEN M[n].quantity ELSE 0
    <2> HIDE DEF L
    <2>1. QED
      BY <1>1 DEF Weight
  <1>3. \A n \in DOMAIN M : weight[n] = Weight(M, S, n)
    BY <1>1
  <1> HIDE DEF weight
  <1>4. PICK sum : Runs(sum, weight, L)
    BY <1>1, <1>2, SumRuns
  <1>5. Stock!SumOf(M, S) = total[L]
    BY DEF Stock!SumOf
  <1>6. sum = [n \in 0 .. L |-> IF n = 0 THEN 0 ELSE sum[n - 1] + IF n \in S THEN M[n].quantity ELSE 0]
    BY <1>1, <1>2, <1>4 DEF Runs
  <1>7. total = [n \in 0 .. L |-> IF n = 0 THEN 0 ELSE total[n - 1] + IF n \in S THEN M[n].quantity ELSE 0]
    BY <1>6, Zenon
  <1> HIDE DEF total, L
  <1>8. total = [n \in 0 .. L |-> IF n = 0 THEN 0 ELSE total[n - 1] + weight[n]]
    BY <1>1, <1>2, <1>7
  <1>9. Runs(total, weight, L)
    BY <1>1, <1>2, <1>8, AddsUp
  <1>10. QED
    BY <1>3, <1>5, <1>9 DEF L

LEMMA SumOfIsNumber ==
  ASSUME NEW M, IsLedger(M), NEW S
  PROVE  Stock!SumOf(M, S) \in Int
  <1>1. PICK sum, weight : Runs(sum, weight, Len(M)) /\ Stock!SumOf(M, S) = sum[Len(M)]
    BY SumOfRuns
  <1>2. QED
    BY <1>1, LedgerRows DEF Runs

\* The movements of T in N weigh no less than those of S in M.
Outweighs(M, S, N, T) ==
  /\ Len(M) <= Len(N)
  /\ \A n \in 1 .. Len(M) : Weight(M, S, n) <= Weight(N, T, n)
  /\ \A n \in Len(M) + 1 .. Len(N) : 0 <= Weight(N, T, n)

LEMMA Outweighed ==
  ASSUME NEW M, NEW N, NEW S, NEW T, IsLedger(M), IsLedger(N), Outweighs(M, S, N, T)
  PROVE  Stock!SumOf(M, S) <= Stock!SumOf(N, T)
  <1>1. PICK f, v : /\ Runs(f, v, Len(M)) /\ Stock!SumOf(M, S) = f[Len(M)]
                    /\ \A n \in DOMAIN M : v[n] = Weight(M, S, n)
    BY SumOfRuns
  <1>2. PICK g, w : /\ Runs(g, w, Len(N)) /\ Stock!SumOf(N, T) = g[Len(N)]
                    /\ \A n \in DOMAIN N : w[n] = Weight(N, T, n)
    BY SumOfRuns
  <1>3. Len(M) \in Nat /\ Len(N) \in Nat /\ DOMAIN M = 1 .. Len(M) /\ DOMAIN N = 1 .. Len(N) /\ Len(M) <= Len(N)
    BY LedgerRows DEF Outweighs
  <1>4. /\ \A n \in 1 .. Len(M) : v[n] <= w[n]
        /\ \A n \in Len(M) + 1 .. Len(N) : 0 <= w[n]
    BY <1>1, <1>2, <1>3 DEF Outweighs
  <1>5. f[Len(M)] <= g[Len(N)]
    BY <1>1, <1>2, <1>3, <1>4, SumGrows
  <1>6. QED
    BY <1>1, <1>2, <1>5

\* One more movement adds its weight.
LEMMA SumNext ==
  ASSUME NEW M, NEW row \in MovementRow, IsLedger(M), NEW S
  PROVE  /\ IsLedger(Append(M, row))
         /\ Stock!SumOf(Append(M, row), S) =
              Stock!SumOf(M, S) + IF Len(M) + 1 \in S THEN row.quantity ELSE 0
  <1> DEFINE N == Append(M, row)
             L == Len(M)
  <1>1. /\ IsLedger(N) /\ Len(N) = L + 1 /\ L \in Nat /\ DOMAIN M = 1 .. L /\ DOMAIN N = 1 .. L + 1
        /\ \A n \in 1 .. L : N[n] = M[n]
        /\ N[L + 1] = row
    <2>1. /\ N \in Seq(MovementRow) /\ Len(N) = L + 1
          /\ DOMAIN N = DOMAIN M \union {L + 1}
          /\ \A n \in DOMAIN M : N[n] = M[n]
          /\ N[L + 1] = row
      BY Inserted DEF IsLedger
    <2>2. L \in Nat /\ DOMAIN M = 1 .. L
      BY LedgerRows
    <2> HIDE DEF N, L
    <2>3. QED
      BY <2>1, <2>2 DEF IsLedger
  <1> HIDE DEF N, L
  <1>2. PICK f, v : /\ Runs(f, v, L) /\ Stock!SumOf(M, S) = f[L]
                    /\ \A n \in 1 .. L : v[n] = Weight(M, S, n)
    BY <1>1, SumOfRuns DEF L
  <1>3. PICK g, w : /\ Runs(g, w, L + 1) /\ Stock!SumOf(N, S) = g[L + 1]
                    /\ \A n \in 1 .. L + 1 : w[n] = Weight(N, S, n)
    BY <1>1, SumOfRuns
  <1> DEFINE h == [n \in 0 .. L |-> g[n]]
  <1>4. Runs(h, v, L)
    <2>1. \A n \in 1 .. L : v[n] = w[n]
      BY <1>1, <1>2, <1>3 DEF Weight
    <2>2. QED
      BY <1>1, <1>2, <1>3, <2>1 DEF Runs
  <1>5. h[L] = g[L]
    BY <1>1
  <1> HIDE DEF h
  <1>6. \A n \in 1 .. L : v[n] <= v[n]
    BY <1>1, <1>2 DEF Runs
  <1>7. f[L] <= h[L]
    BY <1>1, <1>2, <1>4, <1>6, SumGrows
  <1>8. h[L] <= f[L]
    BY <1>1, <1>2, <1>4, <1>6, SumGrows
  <1>9. f[L] \in Int /\ g[L] \in Int /\ g[L + 1] = g[L] + w[L + 1]
    BY <1>1, <1>2, <1>3 DEF Runs
  <1>10. w[L + 1] = IF L + 1 \in S THEN row.quantity ELSE 0
    BY <1>1, <1>3 DEF Weight
  <1>11. QED
    BY <1>1, <1>2, <1>3, <1>5, <1>7, <1>8, <1>9, <1>10 DEF N, L

-----------------------------------------------------------------------------
(* How the ledger grows *)

Extends(M, N) ==
  /\ IsLedger(M) /\ IsLedger(N)
  /\ Len(M) <= Len(N)
  /\ \A n \in DOMAIN M : N[n] = M[n]

\* What a reconciliation appends.
IsVariance(row) == row.type = "adjustment" /\ row.count # None

Grown(M, N) ==
  /\ Extends(M, N)
  /\ \A n \in DOMAIN N : n \notin DOMAIN M => IsVariance(N[n])

\* What there is of the ledger, and what may be issued of it at a time, to who saw its first
\* movements; and what there was of both, a movement included, when it was posted.
Seen(M, seen) == DOMAIN M \ Stock!WrittenOff(M, seen)
SeenEffective(M, at, seen) == Seen(M, seen) \intersect Stock!Effective(M, at)
Taken(M, n) == Stock!Before(M, n) \union {n}
Drawn(M, n) == (Stock!Before(M, n) \intersect Stock!Effective(M, M[n].at)) \union {n}
Present(M, seen) == Stock!SumOf(M, Seen(M, seen))
Issuable(M, at, seen) == Stock!SumOf(M, SeenEffective(M, at, seen))
Left(M, n) == Stock!SumOf(M, Taken(M, n))
Issued(M, n) == Stock!SumOf(M, Drawn(M, n))

LEMMA Totals ==
  ASSUME NEW M, IsLedger(M)
  PROVE  /\ \A seen : Present(M, seen) \in Int
         /\ \A at, seen : Issuable(M, at, seen) \in Int
         /\ \A n : Left(M, n) \in Int
         /\ \A n : Issued(M, n) \in Int
  BY SumOfIsNumber DEF Present, Issuable, Left, Issued

\* What counts write off later was there when the balance was checked.
LEMMA GrownPresent ==
  ASSUME NEW M, NEW N, NEW at, NEW seen \in 0 .. Len(M), Grown(M, N)
  PROVE  Present(M, seen) <= Present(N, seen) /\ Issuable(M, at, seen) <= Issuable(N, at, seen)
  <1>1. /\ IsLedger(M) /\ IsLedger(N) /\ Len(M) \in Nat /\ Len(N) \in Nat
        /\ DOMAIN M = 1 .. Len(M) /\ DOMAIN N = 1 .. Len(N)
        /\ Len(M) <= Len(N) /\ \A n \in DOMAIN M : N[n] = M[n]
        /\ \A n \in DOMAIN N : N[n].quantity \in Int
    BY LedgerRows DEF Grown, Extends
  <1>2. \A n \in 1 .. Len(M) : n \in Seen(M, seen) <=> n \in Seen(N, seen)
    BY <1>1 DEF Seen, Stock!WrittenOff
  <1>3. \A n \in 1 .. Len(M) : n \in SeenEffective(M, at, seen) <=> n \in SeenEffective(N, at, seen)
    BY <1>1, <1>2 DEF SeenEffective, Stock!Effective
  <1>4. \A n \in Len(M) + 1 .. Len(N) : n \in Seen(N, seen) => 0 <= N[n].quantity
    BY <1>1 DEF Grown, IsVariance, Seen, Stock!WrittenOff
  <1>5. Outweighs(M, Seen(M, seen), N, Seen(N, seen))
    BY <1>1, <1>2, <1>4 DEF Outweighs, Weight
  <1>6. Outweighs(M, SeenEffective(M, at, seen), N, SeenEffective(N, at, seen))
    <2>1. \A n \in Len(M) + 1 .. Len(N) : n \in SeenEffective(N, at, seen) => 0 <= N[n].quantity
      BY <1>4 DEF SeenEffective
    <2>2. QED
      BY <1>1, <1>3, <2>1 DEF Outweighs, Weight
  <1>7. QED
    BY <1>1, <1>5, <1>6, Outweighed DEF Present, Issuable

\* What there was when a movement was posted does not change with what follows.
LEMMA IssuedStays ==
  ASSUME NEW M, NEW N, Extends(M, N), NEW n \in DOMAIN M
  PROVE  Left(M, n) <= Left(N, n) /\ Issued(M, n) <= Issued(N, n)
  <1>1. /\ IsLedger(M) /\ IsLedger(N) /\ Len(M) \in Nat /\ Len(N) \in Nat
        /\ DOMAIN M = 1 .. Len(M) /\ DOMAIN N = 1 .. Len(N)
        /\ Len(M) <= Len(N) /\ \A k \in DOMAIN M : N[k] = M[k]
        /\ \A k \in DOMAIN N : N[k].quantity \in Int
    BY LedgerRows DEF Extends
  <1>2. \A k \in 1 .. Len(M) : k \in Stock!Before(M, n) <=> k \in Stock!Before(N, n)
    BY <1>1 DEF Stock!Before, Stock!WrittenOff
  <1>3. \A k \in Len(M) + 1 .. Len(N) : k \notin Taken(N, n) /\ k \notin Drawn(N, n)
    BY <1>1 DEF Taken, Drawn, Stock!Before
  <1>4. Outweighs(M, Taken(M, n), N, Taken(N, n))
    <2>1. \A k \in 1 .. Len(M) : k \in Taken(M, n) <=> k \in Taken(N, n)
      BY <1>2 DEF Taken
    <2>2. QED
      BY <1>1, <1>3, <2>1 DEF Outweighs, Weight
  <1>5. Outweighs(M, Drawn(M, n), N, Drawn(N, n))
    <2>1. \A k \in 1 .. Len(M) : k \in Drawn(M, n) <=> k \in Drawn(N, n)
      BY <1>1, <1>2 DEF Drawn, Stock!Effective
    <2>2. QED
      BY <1>1, <1>3, <2>1 DEF Outweighs, Weight
  <1>6. QED
    BY <1>1, <1>4, <1>5, Outweighed DEF Left, Issued

\* One movement more.
LEMMA Moved ==
  ASSUME NEW M, IsLedger(M), NEW row \in MovementRow
  PROVE  LET N == Append(M, row)
             L == Len(M)
         IN /\ Extends(M, N)
            /\ DOMAIN N = DOMAIN M \union {L + 1}
            /\ N[L + 1] = row
            /\ Present(M, row.seen) + row.quantity <= Left(N, L + 1)
            /\ Issuable(M, row.at, row.seen) + row.quantity <= Issued(N, L + 1)
  <1> DEFINE N == Append(M, row)
             L == Len(M)
  <1>1. /\ IsLedger(N) /\ Len(N) = L + 1 /\ L \in Nat /\ DOMAIN M = 1 .. L /\ DOMAIN N = 1 .. L + 1
        /\ \A n \in 1 .. L : N[n] = M[n]
        /\ N[L + 1] = row
    <2>1. /\ N \in Seq(MovementRow) /\ Len(N) = L + 1
          /\ DOMAIN N = DOMAIN M \union {L + 1}
          /\ \A n \in DOMAIN M : N[n] = M[n]
          /\ N[L + 1] = row
      BY Inserted DEF IsLedger
    <2>2. L \in Nat /\ DOMAIN M = 1 .. L
      BY LedgerRows
    <2> HIDE DEF N, L
    <2>3. QED
      BY <2>1, <2>2 DEF IsLedger
  <1>2. \A S : Stock!SumOf(N, S) = Stock!SumOf(M, S) + IF L + 1 \in S THEN row.quantity ELSE 0
    BY SumNext
  <1>3. \A S, T : (\A n \in 1 .. L : n \in S <=> n \in T) => Stock!SumOf(M, S) <= Stock!SumOf(M, T)
    <2> SUFFICES ASSUME NEW S, NEW T, \A n \in 1 .. L : n \in S <=> n \in T
                 PROVE  Stock!SumOf(M, S) <= Stock!SumOf(M, T)
      OBVIOUS
    <2>1. Outweighs(M, S, M, T)
      BY <1>1, LedgerRows DEF Outweighs, Weight
    <2>2. QED
      BY <2>1, Outweighed
  <1> HIDE DEF N, L
  <1>4. Extends(M, N)
    BY <1>1 DEF Extends, L
  <1>5. DOMAIN N = DOMAIN M \union {L + 1}
    BY <1>1
  <1>6. /\ row.quantity \in Int
        /\ \A S : Stock!SumOf(M, S) \in Int
    BY SumOfIsNumber DEF MovementRow
  <1>7. \A n \in 1 .. L : n \in Seen(M, row.seen) <=> n \in Stock!Before(N, L + 1)
    BY <1>1 DEF Seen, Stock!Before, Stock!WrittenOff
  <1>8. Stock!SumOf(M, Seen(M, row.seen)) <= Stock!SumOf(M, Taken(N, L + 1))
    <2>1. \A n \in 1 .. L : n \in Seen(M, row.seen) <=> n \in Taken(N, L + 1)
      BY <1>1, <1>7 DEF Taken
    <2>2. QED
      BY <1>3, <2>1
  <1>9. Stock!SumOf(M, SeenEffective(M, row.at, row.seen)) <= Stock!SumOf(M, Drawn(N, L + 1))
    <2>1. \A n \in 1 .. L : n \in SeenEffective(M, row.at, row.seen) <=> n \in Drawn(N, L + 1)
      BY <1>1, <1>7 DEF SeenEffective, Drawn, Stock!Effective
    <2>2. QED
      BY <1>3, <2>1
  <1>10. L + 1 \in Taken(N, L + 1) /\ L + 1 \in Drawn(N, L + 1)
    BY DEF Taken, Drawn
  <1>11. /\ Stock!SumOf(N, Taken(N, L + 1)) = Stock!SumOf(M, Taken(N, L + 1)) + row.quantity
         /\ Stock!SumOf(N, Drawn(N, L + 1)) = Stock!SumOf(M, Drawn(N, L + 1)) + row.quantity
    BY <1>2, <1>10
  <1>12. Present(M, row.seen) + row.quantity <= Left(N, L + 1)
    BY <1>6, <1>8, <1>11 DEF Present, Left
  <1>13. Issuable(M, row.at, row.seen) + row.quantity <= Issued(N, L + 1)
    BY <1>6, <1>9, <1>11 DEF Issuable, Issued
  <1>14. QED
    BY <1>1, <1>4, <1>5, <1>12, <1>13 DEF N, L

\* What has the same numbers has the same length.
LEMMA SameLength ==
  ASSUME NEW a \in Nat, NEW b \in Nat, 1 .. a = 1 .. b
  PROVE  a = b
  <1>1. CASE a < b
    <2>1. b \in 1 .. b /\ b \notin 1 .. a
      BY <1>1
    <2>2. QED
      BY <2>1
  <1>2. CASE b < a
    <2>1. a \in 1 .. a /\ a \notin 1 .. b
      BY <1>2
    <2>2. QED
      BY <2>1
  <1>3. QED
    BY <1>1, <1>2

Line == [expected : Int, counted : Int, variance : Int]

\* A reconciliation appends adjustments and nothing else.
LEMMA ReconciledGrows ==
  ASSUME IsLedger(movements), NEW count \in Nat, NEW at \in 0 .. MaxTime, NEW read \in Seq(Line)
  PROVE  Grown(movements, Stock!Adjusted(count, at, read))
  <1> DEFINE L == Len(read)
             S == {x \in Seq(MovementRow) : Grown(movements, x)}
             row == [n \in 1 .. L |-> Stock!Adjustment(count, at, read[n])]
             step == [p \in (1 .. L) \X S |-> IF read[p[1]].variance = 0 THEN p[2] ELSE Append(p[2], row[p[1]])]
             total == CHOOSE f : f = [n \in 0 .. L |-> IF n = 0 THEN movements
                                                       ELSE IF read[n].variance = 0 THEN f[n - 1]
                                                       ELSE Append(f[n - 1], Stock!Adjustment(count, at, read[n]))]
  <1>1. L \in Nat /\ DOMAIN read = 1 .. L /\ \A n \in 1 .. L : read[n] \in Line
    BY Rows
  <1>2. \A n \in 1 .. L : row[n] \in MovementRow /\ IsVariance(row[n])
    <2> SUFFICES ASSUME NEW n \in 1 .. L
                 PROVE  row[n] \in MovementRow /\ IsVariance(row[n])
      OBVIOUS
    <2>1. read[n].variance \in Int
      BY <1>1 DEF Line
    <2>2. Stock!Never \in Nat
      BY PiecesAreCounted DEF Stock!Never
    <2>3. count # None
      BY NoneIsNull
    <2> HIDE DEF L
    <2>4. row[n] = [type |-> "adjustment", quantity |-> read[n].variance, expires |-> Stock!Never,
                    at |-> at, seen |-> 0, count |-> count]
      BY DEF Stock!Adjustment
    <2> HIDE DEF row
    <2>5. QED
      BY <2>1, <2>2, <2>3, <2>4 DEF MovementRow, IsVariance
  <1>3. movements \in S
    <2>1. Grown(movements, movements)
      BY LedgerRows DEF Grown, Extends
    <2>2. QED
      BY <2>1 DEF IsLedger
  <1>4. ASSUME NEW n \in 1 .. L, NEW x \in S
        PROVE  Append(x, row[n]) \in S
    <2>1. row[n] \in MovementRow /\ IsVariance(row[n])
      BY <1>2
    <2>2. x \in Seq(MovementRow) /\ Grown(movements, x)
      OBVIOUS
    <2>3. PICK r : r = row[n]
      OBVIOUS
    <2>4. /\ Append(x, r) \in Seq(MovementRow) /\ Len(Append(x, r)) = Len(x) + 1
          /\ DOMAIN Append(x, r) = DOMAIN x \union {Len(x) + 1}
          /\ \A k \in DOMAIN x : Append(x, r)[k] = x[k]
          /\ Append(x, r)[Len(x) + 1] = r
      BY <2>1, <2>2, <2>3, Inserted
    <2>5. /\ Len(x) \in Nat /\ DOMAIN x = 1 .. Len(x) /\ Len(movements) \in Nat
          /\ DOMAIN movements = 1 .. Len(movements) /\ Len(movements) <= Len(x)
      BY <2>2, LedgerRows DEF Grown, Extends
    <2> HIDE DEF row
    <2>6. Grown(movements, Append(x, r))
      BY <2>1, <2>2, <2>3, <2>4, <2>5 DEF Grown, Extends, IsLedger
    <2>7. QED
      BY <2>3, <2>4, <2>6
  <1>5. \A n \in 1 .. L, x \in S : step[<<n, x>>] = IF read[n].variance = 0 THEN x ELSE Append(x, row[n])
    <2> HIDE DEF row, S, L
    <2>1. QED
      OBVIOUS
  <1>6. \A n \in 1 .. L : row[n] = Stock!Adjustment(count, at, read[n])
    OBVIOUS
  <1>7. Stock!Adjusted(count, at, read) = total[L]
    BY DEF Stock!Adjusted
  <1> HIDE DEF step, S, L, row
  <1>8. IsStep(step, movements, L, S)
    BY <1>1, <1>3, <1>4, <1>5 DEF IsStep
  <1>9. PICK f : Repeats(f, step, movements, L, S)
    BY <1>8, Repeated
  <1>10. f = [n \in 0 .. L |-> IF n = 0 THEN movements
                               ELSE IF read[n].variance = 0 THEN f[n - 1]
                               ELSE Append(f[n - 1], Stock!Adjustment(count, at, read[n]))]
    <2>1. f \in [0 .. L -> S] /\ f[0] = movements /\ \A n \in 1 .. L : f[n] = step[<<n, f[n - 1]>>]
      BY <1>9 DEF Repeats
    <2>2. \A n \in 1 .. L : n - 1 \in 0 .. L /\ f[n - 1] \in S
      BY <1>1, <2>1
    <2>3. \A n \in 1 .. L : f[n] = IF read[n].variance = 0 THEN f[n - 1]
                                   ELSE Append(f[n - 1], Stock!Adjustment(count, at, read[n]))
      BY <1>5, <1>6, <2>1, <2>2
    <2>4. \A n \in 0 .. L : n = 0 \/ n \in 1 .. L
      BY <1>1
    <2>5. QED
      BY <2>1, <2>3, <2>4
  <1>11. total = [n \in 0 .. L |-> IF n = 0 THEN movements
                                   ELSE IF read[n].variance = 0 THEN total[n - 1]
                                   ELSE Append(total[n - 1], Stock!Adjustment(count, at, read[n]))]
    BY <1>10, Zenon
  <1> HIDE DEF total
  <1> DEFINE Held == {n \in Nat : n <= L => total[n] \in S}
  <1>12. 0 \in Held
    <2>1. total[0] = movements
      BY <1>1, <1>11
    <2>2. QED
      BY <1>3, <2>1
  <1>13. ASSUME NEW n \in Nat, n \in Held
         PROVE  n + 1 \in Held
    <2> SUFFICES ASSUME n + 1 <= L
                 PROVE  total[n + 1] \in S
      OBVIOUS
    <2>1. n + 1 \in 1 .. L /\ n + 1 \in 0 .. L /\ n + 1 # 0 /\ n + 1 - 1 = n /\ total[n] \in S
      BY <1>1, <1>13
    <2>2. total[n + 1] = IF read[n + 1].variance = 0 THEN total[n]
                         ELSE Append(total[n], Stock!Adjustment(count, at, read[n + 1]))
      <3>1. PICK m : m = n + 1
        OBVIOUS
      <3>2. total[m] = IF m = 0 THEN movements
                       ELSE IF read[m].variance = 0 THEN total[m - 1]
                       ELSE Append(total[m - 1], Stock!Adjustment(count, at, read[m]))
        <4>1. m \in 0 .. L
          BY <2>1, <3>1
        <4>2. QED
          BY <1>11, <4>1, Zenon
      <3>3. QED
        BY <2>1, <3>1, <3>2
    <2>3. QED
      BY <1>4, <1>6, <2>1, <2>2
  <1> HIDE DEF Held
  <1>14. L \in Held
    BY <1>1, <1>12, <1>13, Numbers
  <1>15. total[L] \in S
    BY <1>1, <1>14 DEF Held
  <1>16. QED
    BY <1>7, <1>15 DEF S

-----------------------------------------------------------------------------
(* Requests race for the stock *)

\* A movement that was asked for.
IsMovement(f) ==
  /\ f = [op |-> f.op, type |-> f.type, quantity |-> f.quantity, expires |-> f.expires, at |-> f.at,
          seen |-> f.seen]
  /\ f.type \in STRING \union {"adjustment"}
  /\ f.quantity \in Int
  /\ f.expires \in Nat
  /\ f.at \in 0 .. MaxTime
  /\ f.seen \in Nat

\* Once it holds the location, what was checked of the ledger M stays true of it.
Checked(c, f, L, M) ==
  /\ L = c
  /\ f.seen \in 0 .. Len(M)
  /\ ~Stock!Explained(f.type) => Present(M, f.seen) + f.quantity >= 0
  /\ f.op = "insert" /\ Stock!Issues(f.type) => Issuable(M, f.at, f.seen) + f.quantity >= 0

\* What a request has read, while L is the lock, M the ledger and C the counts.
StockFits(c, f, L, M, C) ==
  /\ f.op \in {"idle", "lock", "effective", "insert", "expect", "line", "upsert", "review", "lines", "reconcile"}
  /\ f.op \in {"lock", "effective", "insert"} => IsMovement(f)
  /\ f.op \in {"effective", "insert"} => Checked(c, f, L, M)
  /\ f.op \in {"expect", "line", "upsert", "review", "lines", "reconcile"} => f.count \in DOMAIN C
  /\ f.op = "expect" => f.counted \in Int
  /\ f.op \in {"line", "upsert"} => f.line \in Line
  /\ f.op \in {"lines", "reconcile"} => f.at \in 0 .. MaxTime
  /\ f.op = "reconcile" => f.lines \in Seq(Line)

Counting ==
  /\ IsTable(counts)
  /\ lines \in Seq(Seq(Line))
  /\ DOMAIN lines = DOMAIN counts
  /\ time \in 0 .. MaxTime

Balanced(M) ==
  /\ IsLedger(M)
  /\ \A n \in DOMAIN M : ~Stock!Explained(M[n].type) => Left(M, n) >= 0
  /\ \A n \in DOMAIN M : Stock!Issues(M[n].type) => Issued(M, n) >= 0

StockInv ==
  /\ DOMAIN pc = Client
  /\ Counting
  /\ Balanced(movements)
  /\ \A c \in Client : StockFits(c, pc[c], lock, movements, counts)

LEMMA GrownSelf ==
  ASSUME NEW M, IsLedger(M)
  PROVE  Grown(M, M)
  BY LedgerRows DEF Grown, Extends

\* What was checked of a ledger is true of it when it has grown.
LEMMA StockFitsStays ==
  ASSUME NEW c, NEW f, NEW L, NEW M, NEW C, NEW L2, NEW N, NEW D, StockFits(c, f, L, M, C),
         DOMAIN C \subseteq DOMAIN D,
         L = c => L2 = c /\ Grown(M, N)
  PROVE  StockFits(c, f, L2, N, D)
  <1>1. CASE f.op \in {"effective", "insert"}
    <2>1. IsMovement(f) /\ Checked(c, f, L, M)
      BY <1>1 DEF StockFits
    <2>2. L2 = c /\ Grown(M, N) /\ IsLedger(M) /\ IsLedger(N)
      BY <2>1 DEF Checked, Grown, Extends
    <2>3. /\ Present(M, f.seen) \in Int /\ Present(N, f.seen) \in Int
          /\ Issuable(M, f.at, f.seen) \in Int /\ Issuable(N, f.at, f.seen) \in Int
      BY <2>2, Totals
    <2>4. Present(M, f.seen) <= Present(N, f.seen) /\ Issuable(M, f.at, f.seen) <= Issuable(N, f.at, f.seen)
      BY <2>1, <2>2, GrownPresent DEF Checked
    <2>5. f.quantity \in Int /\ Len(M) \in Nat /\ Len(N) \in Nat /\ Len(M) <= Len(N)
      BY <2>1, <2>2, LedgerRows DEF IsMovement, Grown, Extends
    <2>6. Checked(c, f, L2, N)
      BY <2>1, <2>2, <2>3, <2>4, <2>5 DEF Checked
    <2>7. QED
      BY <1>1, <2>1, <2>6 DEF StockFits
  <1>2. CASE f.op \notin {"effective", "insert"}
    BY <1>2 DEF StockFits
  <1>3. QED
    BY <1>1, <1>2

LEMMA StockGoes ==
  ASSUME StockInv, NEW c \in Client, NEW frame, pc' = [pc EXCEPT ![c] = frame],
         Counting', Balanced(movements'), DOMAIN counts \subseteq DOMAIN counts',
         \A d \in Client : d # c /\ lock = d => lock' = d /\ Grown(movements, movements'),
         StockFits(c, frame, lock', movements', counts')
  PROVE  StockInv'
  <1>1. ASSUME NEW d \in Client
        PROVE  StockFits(d, pc'[d], lock', movements', counts')
    <2>1. CASE d = c
      BY <2>1 DEF StockInv
    <2>2. CASE d # c
      <3>1. pc'[d] = pc[d] /\ StockFits(d, pc[d], lock, movements, counts)
        BY <2>2 DEF StockInv
      <3>2. lock = d => lock' = d /\ Grown(movements, movements')
        BY <2>2
      <3>3. PICK L2, N, D : L2 = lock' /\ N = movements' /\ D = counts'
        OBVIOUS
      <3>4. StockFits(d, pc[d], L2, N, D)
        BY <3>1, <3>2, <3>3, StockFitsStays
      <3>5. QED
        BY <3>1, <3>3, <3>4
    <2>3. QED
      BY <2>1, <2>2
  <1>2. DOMAIN pc' = Client
    BY DEF StockInv
  <1>3. QED
    BY <1>1, <1>2 DEF StockInv

\* A request goes on, and nothing is written.
LEMMA StockReads ==
  ASSUME StockInv, NEW c \in Client, NEW frame, pc' = [pc EXCEPT ![c] = frame],
         UNCHANGED <<movements, counts, lines, time>>,
         \A d \in Client : d # c /\ lock = d => lock' = d,
         StockFits(c, frame, lock', movements, counts)
  PROVE  StockInv'
  <1>1. Counting' /\ Balanced(movements')
    BY DEF StockInv, Counting
  <1>2. Grown(movements, movements')
    BY GrownSelf DEF StockInv, Balanced
  <1>3. QED
    BY <1>1, <1>2, StockGoes

\* A request ends, and others keep their locks.
LEMMA StockEnds ==
  ASSUME StockInv, NEW c \in Client, Stock!Done(c), Counting', Balanced(movements'),
         DOMAIN counts \subseteq DOMAIN counts',
         lock = c \/ Grown(movements, movements')
  PROVE  StockInv'
  <1>1. pc' = [pc EXCEPT ![c] = Stock!Idle] /\ lock' = IF lock = c THEN None ELSE lock
    BY DEF Stock!Done
  <1>2. \A d \in Client : d # c /\ lock = d => lock' = d /\ Grown(movements, movements')
    BY <1>1
  <1>3. StockFits(c, Stock!Idle, lock', movements', counts')
    BY DEF StockFits, Stock!Idle
  <1>4. QED
    BY <1>1, <1>2, <1>3, StockGoes

\* The ledger with one movement that was checked.
LEMMA StillBalanced ==
  ASSUME NEW c, NEW f, NEW L, NEW M, Balanced(M), IsMovement(f), f.op = "insert", Checked(c, f, L, M)
  PROVE  Balanced(Append(M, [type |-> f.type, quantity |-> f.quantity, expires |-> f.expires,
                             at |-> f.at, seen |-> f.seen, count |-> None]))
  <1> DEFINE row == [type |-> f.type, quantity |-> f.quantity, expires |-> f.expires, at |-> f.at,
                     seen |-> f.seen, count |-> None]
             N == Append(M, row)
             n == Len(M) + 1
  <1>1. row \in MovementRow
    BY DEF IsMovement, MovementRow
  <1>2. row.type = f.type /\ row.quantity = f.quantity /\ row.at = f.at /\ row.seen = f.seen /\ f.quantity \in Int
    BY DEF IsMovement
  <1> HIDE DEF row
  <1>3. /\ Extends(M, N) /\ DOMAIN N = DOMAIN M \union {n} /\ N[n] = row
        /\ Present(M, f.seen) + f.quantity <= Left(N, n)
        /\ Issuable(M, f.at, f.seen) + f.quantity <= Issued(N, n)
    BY <1>1, <1>2, Moved DEF Balanced
  <1> HIDE DEF N, n
  <1>4. IsLedger(M) /\ IsLedger(N)
    BY <1>3 DEF Extends
  <1>5. /\ Present(M, f.seen) \in Int /\ Issuable(M, f.at, f.seen) \in Int
        /\ \A k : Left(N, k) \in Int /\ Left(M, k) \in Int /\ Issued(N, k) \in Int /\ Issued(M, k) \in Int
    BY <1>4, Totals
  <1>6. ASSUME NEW k \in DOMAIN M
        PROVE  N[k] = M[k] /\ Left(M, k) <= Left(N, k) /\ Issued(M, k) <= Issued(N, k)
    BY <1>3, IssuedStays DEF Extends
  <1>7. ASSUME NEW k \in DOMAIN N, ~Stock!Explained(N[k].type)
        PROVE  Left(N, k) >= 0
    <2>1. CASE k \in DOMAIN M
      BY <1>5, <1>6, <1>7, <2>1 DEF Balanced
    <2>2. CASE k = n
      BY <1>2, <1>3, <1>5, <1>7, <2>2 DEF Checked
    <2>3. QED
      BY <1>3, <2>1, <2>2
  <1>8. ASSUME NEW k \in DOMAIN N, Stock!Issues(N[k].type)
        PROVE  Issued(N, k) >= 0
    <2>1. CASE k \in DOMAIN M
      BY <1>5, <1>6, <1>8, <2>1 DEF Balanced
    <2>2. CASE k = n
      BY <1>2, <1>3, <1>5, <1>8, <2>2 DEF Checked
    <2>3. QED
      BY <1>3, <2>1, <2>2
  <1>9. Balanced(N)
    BY <1>4, <1>7, <1>8 DEF Balanced
  <1>10. QED
    BY <1>9 DEF N, row

\* The ledger with the variances of a count.
LEMMA GrownBalanced ==
  ASSUME NEW M, NEW N, Balanced(M), Grown(M, N)
  PROVE  Balanced(N)
  <1>1. Extends(M, N) /\ IsLedger(M) /\ IsLedger(N)
    BY DEF Grown, Extends
  <1>2. \A k : Left(N, k) \in Int /\ Left(M, k) \in Int /\ Issued(N, k) \in Int /\ Issued(M, k) \in Int
    BY <1>1, Totals
  <1>3. \A k \in DOMAIN N : k \notin DOMAIN M => Stock!Explained(N[k].type) /\ ~Stock!Issues(N[k].type)
    BY DEF Grown, IsVariance, Stock!Explained, Stock!Issues
  <1>4. ASSUME NEW k \in DOMAIN M
        PROVE  N[k] = M[k] /\ Left(M, k) <= Left(N, k) /\ Issued(M, k) <= Issued(N, k)
    BY <1>1, IssuedStays DEF Extends
  <1>5. \A k \in DOMAIN N : ~Stock!Explained(N[k].type) => Left(N, k) >= 0
    BY <1>2, <1>3, <1>4 DEF Balanced
  <1>6. \A k \in DOMAIN N : Stock!Issues(N[k].type) => Issued(N, k) >= 0
    BY <1>2, <1>3, <1>4 DEF Balanced
  <1>7. QED
    BY <1>1, <1>5, <1>6 DEF Balanced

\* Nothing was written off since when the balance is checked, and no less may be issued than is
\* effective.
LEMMA BalanceIsPresent ==
  ASSUME NEW M, IsLedger(M), NEW at, NEW seen
  PROVE  /\ Stock!SumOf(M, DOMAIN M) <= Present(M, Len(M))
         /\ Stock!SumOf(M, Stock!Effective(M, at)) <= Issuable(M, at, seen)
  <1>1. Len(M) \in Nat /\ DOMAIN M = 1 .. Len(M) /\ \A n \in DOMAIN M : M[n].quantity \in Int
    BY LedgerRows
  <1>2. Outweighs(M, DOMAIN M, M, Seen(M, Len(M)))
    BY <1>1 DEF Outweighs, Weight, Seen, Stock!WrittenOff
  <1>3. Outweighs(M, Stock!Effective(M, at), M, SeenEffective(M, at, seen))
    BY <1>1 DEF Outweighs, Weight, SeenEffective, Seen, Stock!WrittenOff, Stock!Effective
  <1>4. QED
    BY <1>2, <1>3, Outweighed DEF Present, Issuable

\* The first line of a count is rewritten.
LEMMA LineWritten ==
  ASSUME NEW s \in Seq(Line), NEW counted \in Int, NEW variance \in Int
  PROVE  [s EXCEPT ![1].counted = counted, ![1].variance = variance] \in Seq(Line)
  <1> DEFINE r == [s EXCEPT ![1].counted = counted]
             t == [r EXCEPT ![1].variance = variance]
  <1>1. Len(s) \in Nat /\ DOMAIN s = 1 .. Len(s) /\ s \in [1 .. Len(s) -> Line]
    BY LenProperties
  <1>2. r \in [1 .. Len(s) -> Line]
    BY <1>1 DEF Line
  <1>3. t \in [1 .. Len(s) -> Line]
    <2> HIDE DEF r
    <2>1. QED
      BY <1>2 DEF Line
  <1>4. t \in Seq(Line)
    BY <1>1, <1>3, SeqDef, ZenonT(30)
  <1>5. QED
    BY <1>4

LEMMA StockStepped ==
  ASSUME StockInv, Stock!Next
  PROVE  StockInv'
  <1>0. /\ DOMAIN pc = Client /\ Counting /\ Balanced(movements)
        /\ IsLedger(movements) /\ Len(counts) \in Nat /\ DOMAIN counts = 1 .. Len(counts)
    BY TableRows DEF StockInv, Counting, Balanced
  <1>1. ASSUME Stock!handleCreateLocation \/ Stock!handleCreateCount \/ Stock!Tick
        PROVE  StockInv'
    <2>1. pc' = pc /\ lock' = lock /\ movements' = movements
      BY <1>1 DEF Stock!handleCreateLocation, Stock!handleCreateCount, Stock!Tick, Stock!Served,
                  Stock!CreateLocation, Stock!CreateCount, Stock!tables
    <2>2. Counting' /\ DOMAIN counts \subseteq DOMAIN counts'
      <3>1. CASE Stock!handleCreateCount
        <4>1. counts' = Append(counts, "draft") /\ lines' = Append(lines, <<>>) /\ time' = time
          BY <3>1 DEF Stock!handleCreateCount, Stock!CreateCount, Stock!InsertCount, Stock!Served
        <4>2. IsTable(counts') /\ DOMAIN counts' = DOMAIN counts \union {Len(counts) + 1}
          BY <1>0, <4>1, TableInserted DEF Counting
        <4>3. <<>> \in Seq(Line)
          BY Empty
        <4>4. lines' \in Seq(Seq(Line)) /\ DOMAIN lines' = DOMAIN lines \union {Len(lines) + 1}
          BY <1>0, <4>1, <4>3, Inserted DEF Counting
        <4>5. Len(lines) \in Nat /\ DOMAIN lines = 1 .. Len(lines) /\ DOMAIN lines = DOMAIN counts
          <5>1. lines \in Seq(Seq(Line)) /\ DOMAIN lines = DOMAIN counts
            BY <1>0 DEF Counting
          <5>2. QED
            BY <5>1, LenProperties
        <4>6. Len(lines) = Len(counts)
          BY <1>0, <4>5, SameLength
        <4>7. QED
          BY <1>0, <4>1, <4>2, <4>4, <4>5, <4>6 DEF Counting
      <3>2. CASE Stock!handleCreateLocation \/ Stock!Tick
        <4>1. UNCHANGED <<counts, lines>> /\ time' \in 0 .. MaxTime
          BY <1>0, <3>2, PiecesAreCounted
             DEF Stock!handleCreateLocation, Stock!CreateLocation, Stock!Tick, Stock!Served, Stock!tables, Counting
        <4>2. QED
          BY <1>0, <4>1 DEF Counting
      <3>3. QED
        BY <1>1, <3>1, <3>2
    <2>3. ASSUME NEW d \in Client
          PROVE  StockFits(d, pc[d], lock, movements, counts')
      <3>1. StockFits(d, pc[d], lock, movements, counts)
        BY DEF StockInv
      <3>2. PICK D : D = counts'
        OBVIOUS
      <3>3. StockFits(d, pc[d], lock, movements, D)
        BY <1>0, <2>2, <3>1, <3>2, GrownSelf, StockFitsStays
      <3>4. QED
        BY <3>2, <3>3
    <2>4. QED
      BY <1>0, <2>1, <2>2, <2>3 DEF StockInv
  <1>2. ASSUME NEW c \in Client, NEW m \in Movement, Stock!handleRecordMovement(c, m)
        PROVE  StockInv'
    <2> DEFINE frame == [op |-> "lock", type |-> m[1], quantity |-> m[2], expires |-> m[3], at |-> time, seen |-> 0]
    <2>1. pc' = [pc EXCEPT ![c] = frame] /\ UNCHANGED <<movements, counts, lines, lock, time>>
      BY <1>2 DEF Stock!handleRecordMovement, Stock!Begin, Stock!tables
    <2>2. m[1] \in STRING /\ m[2] \in Int /\ m[3] \in Nat
      BY PiecesAreCounted
    <2>3. IsMovement(frame)
      BY <1>0, <2>2 DEF IsMovement, Counting
    <2>4. frame.op = "lock"
      OBVIOUS
    <2> HIDE DEF frame
    <2>5. StockFits(c, frame, lock', movements, counts)
      BY <2>3, <2>4 DEF StockFits
    <2>6. QED
      BY <2>1, <2>5, StockReads
  <1>3. ASSUME NEW c \in Client, Stock!CheckBalance(c)
        PROVE  StockInv'
    <2>1. PICK f : f = pc[c]
      OBVIOUS
    <2>2. PICK op, seen : op = (IF Stock!Issues(f.type) THEN "effective" ELSE "insert") /\ seen = Len(movements)
      OBVIOUS
    <2> DEFINE frame == [f EXCEPT !.op = op, !.seen = seen]
    <2>3. /\ f.op = "lock" /\ lock = None /\ lock' = c
          /\ Stock!SumOf(movements, DOMAIN movements) + f.quantity < 0 => f.type = "adjustment"
          /\ pc' = [pc EXCEPT ![c] = frame]
          /\ UNCHANGED <<movements, counts, lines, time>>
      BY <1>3, <2>1, <2>2 DEF Stock!CheckBalance, Stock!LockLocation, Stock!IsNegativeStock, Stock!Explained,
                              Stock!GetBalance, Stock!tables
    <2>4. IsMovement(f)
      BY <2>1, <2>3 DEF StockInv, StockFits
    <2>5. /\ frame.op = op /\ frame.type = f.type /\ frame.quantity = f.quantity /\ frame.at = f.at
          /\ frame.seen = seen /\ seen \in Nat /\ seen \in 0 .. Len(movements)
          /\ IsMovement(frame)
      <3>1. seen \in Nat /\ seen \in 0 .. Len(movements)
        BY <1>0, <2>2, LedgerRows
      <3>2. frame = [op |-> op, type |-> f.type, quantity |-> f.quantity, expires |-> f.expires, at |-> f.at,
                     seen |-> seen]
        <4> DEFINE r == [f EXCEPT !.op = op]
        <4>1. r = [op |-> op, type |-> f.type, quantity |-> f.quantity, expires |-> f.expires, at |-> f.at,
                   seen |-> f.seen]
          BY <2>4 DEF IsMovement
        <4>2. frame = [r EXCEPT !.seen = seen]
          OBVIOUS
        <4> HIDE DEF r, frame
        <4>3. QED
          BY <4>1, <4>2
      <3> HIDE DEF frame
      <3>3. QED
        BY <2>4, <3>1, <3>2 DEF IsMovement
    <2> HIDE DEF frame
    <2>6. Present(movements, seen) \in Int /\ f.quantity \in Int /\ Stock!SumOf(movements, DOMAIN movements) \in Int
      BY <1>0, <2>4, Totals, SumOfIsNumber DEF IsMovement
    <2>7. Stock!SumOf(movements, DOMAIN movements) <= Present(movements, seen)
      BY <1>0, <2>2, BalanceIsPresent
    <2>8. ~Stock!Explained(frame.type) => Present(movements, frame.seen) + frame.quantity >= 0
      BY <2>3, <2>5, <2>6, <2>7 DEF Stock!Explained
    <2>9. op \in {"effective", "insert"} /\ (op = "insert" => ~Stock!Issues(frame.type))
      BY <2>2, <2>5
    <2>10. StockFits(c, frame, lock', movements, counts)
      BY <2>3, <2>5, <2>8, <2>9 DEF StockFits, Checked
    <2>11. \A d \in Client : d # c /\ lock = d => lock' = d
      BY <2>3, NoneIsNull
    <2>12. QED
      BY <2>3, <2>10, <2>11, StockReads
  <1>4. ASSUME NEW c \in Client, Stock!CheckEffectiveBalance(c)
        PROVE  StockInv'
    <2>1. PICK f : f = pc[c]
      OBVIOUS
    <2> DEFINE frame == [f EXCEPT !.op = "insert"]
    <2>2. /\ f.op = "effective"
          /\ Stock!SumOf(movements, Stock!Effective(movements, f.at)) + f.quantity >= 0
          /\ pc' = [pc EXCEPT ![c] = frame]
          /\ UNCHANGED <<movements, counts, lines, time, lock>>
      BY <1>4, <2>1 DEF Stock!CheckEffectiveBalance, Stock!GetEffectiveBalance, Stock!Goes, Stock!tables
    <2>3. IsMovement(f) /\ Checked(c, f, lock, movements)
      BY <2>1, <2>2 DEF StockInv, StockFits
    <2>4. Stock!SumOf(movements, Stock!Effective(movements, f.at)) <= Issuable(movements, f.at, f.seen)
      BY <1>0, BalanceIsPresent
    <2>5. /\ frame.op = "insert" /\ frame.type = f.type /\ frame.quantity = f.quantity /\ frame.at = f.at
          /\ frame.seen = f.seen
          /\ IsMovement(frame)
      BY <2>3 DEF IsMovement
    <2> HIDE DEF frame
    <2>6. /\ Issuable(movements, f.at, f.seen) \in Int /\ f.quantity \in Int
          /\ Stock!SumOf(movements, Stock!Effective(movements, f.at)) \in Int
      BY <1>0, <2>3, Totals, SumOfIsNumber DEF IsMovement
    <2>7. Issuable(movements, frame.at, frame.seen) + frame.quantity >= 0
      BY <2>2, <2>4, <2>5, <2>6
    <2>8. Checked(c, frame, lock, movements)
      BY <2>3, <2>5, <2>7 DEF Checked
    <2>9. StockFits(c, frame, lock', movements, counts)
      BY <2>2, <2>5, <2>8 DEF StockFits
    <2>10. QED
      BY <2>2, <2>9, StockReads
  <1>5. ASSUME NEW c \in Client, Stock!RecordMovement(c)
        PROVE  StockInv'
    <2>1. PICK f : f = pc[c]
      OBVIOUS
    <2> DEFINE row == [type |-> f.type, quantity |-> f.quantity, expires |-> f.expires, at |-> f.at,
                       seen |-> f.seen, count |-> None]
    <2>2. /\ f.op = "insert" /\ Stock!Done(c) /\ UNCHANGED <<counts, lines, time>>
          /\ movements' = Append(movements, row)
      BY <1>5, <2>1 DEF Stock!RecordMovement, Stock!InsertMovement, Stock!Done
    <2>3. IsMovement(f) /\ Checked(c, f, lock, movements)
      BY <2>1, <2>2 DEF StockInv, StockFits
    <2>4. Balanced(Append(movements, row))
      BY <1>0, <2>2, <2>3, StillBalanced
    <2> HIDE DEF row
    <2>5. Balanced(movements') /\ lock = c /\ Counting'
      BY <1>0, <2>2, <2>3, <2>4 DEF Checked, Counting
    <2>6. QED
      BY <2>2, <2>5, StockEnds
  <1>6. ASSUME NEW c \in Client, NEW n \in DOMAIN counts, NEW counted \in Counted,
               Stock!handleUpdateCountLine(c, n, counted)
        PROVE  StockInv'
    <2> DEFINE frame == [op |-> "expect", count |-> n, read |-> counts[n], counted |-> counted]
    <2>1. pc' = [pc EXCEPT ![c] = frame] /\ UNCHANGED <<movements, counts, lines, lock, time>>
      BY <1>6 DEF Stock!handleUpdateCountLine, Stock!Begin, Stock!tables
    <2>2. frame.op = "expect" /\ frame.count = n /\ frame.counted = counted
      OBVIOUS
    <2>3. counted \in Int
      BY PiecesAreCounted
    <2> HIDE DEF frame
    <2>4. StockFits(c, frame, lock', movements, counts)
      BY <2>2, <2>3 DEF StockFits
    <2>5. QED
      BY <2>1, <2>4, StockReads
  <1>7. ASSUME NEW c \in Client, NEW n \in DOMAIN counts,
               Stock!handleReviewCount(c, n) \/ Stock!handleReconcileCount(c, n)
        PROVE  StockInv'
    <2>1. PICK frame : /\ frame.op \in {"review", "lines"} /\ frame.count = n
                       /\ frame.op = "lines" => frame.at = time
                       /\ pc' = [pc EXCEPT ![c] = frame]
      BY <1>7 DEF Stock!handleReviewCount, Stock!handleReconcileCount, Stock!Begin
    <2>2. UNCHANGED <<movements, counts, lines, lock, time>>
      BY <1>7 DEF Stock!handleReviewCount, Stock!handleReconcileCount, Stock!Begin, Stock!tables
    <2>3. StockFits(c, frame, lock', movements, counts)
      BY <1>0, <2>1 DEF StockFits, Counting
    <2>4. QED
      BY <2>1, <2>2, <2>3, StockReads
  <1>8. ASSUME NEW c \in Client, Stock!ReadExpected(c)
        PROVE  StockInv'
    <2>1. PICK f, total : f = pc[c] /\ total = Stock!GetBalance
      OBVIOUS
    <2> DEFINE line == [expected |-> total, counted |-> f.counted, variance |-> f.counted - total]
               frame == [op |-> "line", count |-> f.count, read |-> f.read, line |-> line]
    <2>2. f.op = "expect" /\ pc' = [pc EXCEPT ![c] = frame] /\ UNCHANGED <<movements, counts, lines, lock, time>>
      BY <1>8, <2>1 DEF Stock!ReadExpected, Stock!Goes, Stock!tables
    <2>3. f.count \in DOMAIN counts /\ f.counted \in Int
      BY <2>1, <2>2 DEF StockInv, StockFits
    <2>4. total \in Int
      BY <1>0, <2>1, SumOfIsNumber DEF Stock!GetBalance
    <2>5. line \in Line
      BY <2>3, <2>4 DEF Line
    <2>6. frame.op = "line" /\ frame.count = f.count /\ frame.line = line
      OBVIOUS
    <2> HIDE DEF frame, line
    <2>7. StockFits(c, frame, lock', movements, counts)
      BY <2>3, <2>5, <2>6 DEF StockFits
    <2>8. QED
      BY <2>2, <2>7, StockReads
  <1>9. ASSUME NEW c \in Client, Stock!FindCountLine(c)
        PROVE  StockInv'
    <2>1. PICK f, found : f = pc[c] /\ found = (lines[f.count] # <<>>)
      BY Zenon
    <2> DEFINE frame == [op |-> "upsert", count |-> f.count, read |-> f.read, line |-> f.line, found |-> found]
    <2>2. f.op = "line" /\ pc' = [pc EXCEPT ![c] = frame] /\ UNCHANGED <<movements, counts, lines, lock, time>>
      BY <1>9, <2>1, Zenon DEF Stock!FindCountLine, Stock!tables
    <2>3. f.count \in DOMAIN counts /\ f.line \in Line
      BY <2>1, <2>2 DEF StockInv, StockFits
    <2>4. frame.op = "upsert" /\ frame.count = f.count /\ frame.line = f.line
      OBVIOUS
    <2> HIDE DEF frame
    <2>5. StockFits(c, frame, lock', movements, counts)
      BY <2>3, <2>4 DEF StockFits
    <2>6. QED
      BY <2>2, <2>5, StockReads
  <1>10. ASSUME NEW c \in Client, Stock!UpdateCountLine(c)
         PROVE  StockInv'
    <2>1. PICK f : f = pc[c]
      OBVIOUS
    <2>2. /\ f.op = "upsert" /\ Stock!Done(c) /\ Stock!UpsertCountLine(f.count, f.found, f.line)
          /\ counts' = [counts EXCEPT ![f.count] = "in_progress"] \/ counts' = counts
          /\ movements' = movements /\ time' = time
      BY <1>10, <2>1 DEF Stock!UpdateCountLine, Stock!UpdateCountStatus, Stock!Done
    <2>3. f.count \in DOMAIN counts /\ f.line \in Line /\ f.line.counted \in Int /\ f.line.variance \in Int
      <3>1. f.count \in DOMAIN counts /\ f.line \in Line
        BY <2>1, <2>2 DEF StockInv, StockFits
      <3>2. QED
        BY <3>1 DEF Line
    <2>4. IsTable(counts') /\ DOMAIN counts' = DOMAIN counts
      <3>1. IsTable(counts)
        BY <1>0 DEF Counting
      <3>2. CASE counts' = counts
        BY <3>1, <3>2
      <3>3. CASE counts' = [counts EXCEPT ![f.count] = "in_progress"]
        <4>1. f.count \in DOMAIN counts
          BY <2>3
        <4>2. QED
          BY <3>1, <3>3, <4>1, TableUpdated
      <3>4. QED
        BY <2>2, <3>2, <3>3
    <2>5. lines[f.count] \in Seq(Line) /\ f.count \in DOMAIN lines /\ lines \in Seq(Seq(Line))
      BY <1>0, <2>3, ElementOfSeq, LenProperties DEF Counting
    <2>6. PICK s \in Seq(Line) : lines' = [lines EXCEPT ![f.count] = s]
      <3>1. CASE lines' = [lines EXCEPT ![f.count][1].counted = f.line.counted,
                                        ![f.count][1].variance = f.line.variance]
        <4> DEFINE s == [lines[f.count] EXCEPT ![1].counted = f.line.counted, ![1].variance = f.line.variance]
        <4>1. s \in Seq(Line)
          BY <2>3, <2>5, LineWritten
        <4>2. lines' = [lines EXCEPT ![f.count] = s]
          BY <2>5, <3>1
        <4>3. QED
          BY <4>1, <4>2
      <3>2. CASE lines' = [lines EXCEPT ![f.count] = Append(@, f.line)]
        <4>1. Append(lines[f.count], f.line) \in Seq(Line)
          BY <2>3, <2>5, AppendProperties
        <4>2. QED
          BY <3>2, <4>1
      <3>3. QED
        BY <2>2, <3>1, <3>2, Zenon DEF Stock!UpsertCountLine
    <2>7. lines' \in Seq(Seq(Line)) /\ DOMAIN lines' = DOMAIN lines
      BY <2>5, <2>6, Updated
    <2>8. Counting' /\ Balanced(movements') /\ Grown(movements, movements')
      BY <1>0, <2>2, <2>4, <2>7, GrownSelf DEF Counting
    <2>9. QED
      BY <2>2, <2>4, <2>8, StockEnds
  <1>11. ASSUME NEW c \in Client, Stock!ReviewCount(c)
         PROVE  StockInv'
    <2>1. /\ pc[c].op = "review" /\ Stock!Done(c)
          /\ counts' = [counts EXCEPT ![pc[c].count] = "reviewed"]
          /\ UNCHANGED <<movements, lines, time>>
      BY <1>11 DEF Stock!ReviewCount, Stock!UpdateCountStatus, Stock!Done
    <2>2. pc[c].count \in DOMAIN counts
      BY <2>1 DEF StockInv, StockFits
    <2>3. IsTable(counts') /\ DOMAIN counts' = DOMAIN counts
      BY <1>0, <2>1, <2>2, TableUpdated DEF Counting
    <2>4. Counting' /\ Balanced(movements') /\ Grown(movements, movements')
      BY <1>0, <2>1, <2>3, GrownSelf DEF Counting
    <2>5. QED
      BY <2>1, <2>3, <2>4, StockEnds
  <1>12. ASSUME NEW c \in Client, Stock!ListCountLines(c)
         PROVE  StockInv'
    <2>1. PICK f : f = pc[c]
      OBVIOUS
    <2> DEFINE frame == [op |-> "reconcile", count |-> f.count, at |-> f.at, lines |-> lines[f.count]]
    <2>2. f.op = "lines" /\ pc' = [pc EXCEPT ![c] = frame] /\ UNCHANGED <<movements, counts, lines, lock, time>>
      BY <1>12, <2>1 DEF Stock!ListCountLines, Stock!Goes, Stock!tables
    <2>3. f.count \in DOMAIN counts /\ f.at \in 0 .. MaxTime
      BY <2>1, <2>2 DEF StockInv, StockFits
    <2>4. lines[f.count] \in Seq(Line)
      BY <1>0, <2>3, ElementOfSeq, LenProperties DEF Counting
    <2>5. frame.op = "reconcile" /\ frame.count = f.count /\ frame.at = f.at /\ frame.lines = lines[f.count]
      OBVIOUS
    <2> HIDE DEF frame
    <2>6. StockFits(c, frame, lock', movements, counts)
      BY <2>3, <2>4, <2>5 DEF StockFits
    <2>7. QED
      BY <2>2, <2>6, StockReads
  <1>13. ASSUME NEW c \in Client, Stock!ReconcileCount(c)
         PROVE  StockInv'
    <2>1. PICK f : f = pc[c]
      OBVIOUS
    <2>2. /\ f.op = "reconcile" /\ Stock!Done(c)
          /\ movements' = Stock!Adjusted(f.count, f.at, f.lines)
          /\ counts' = [counts EXCEPT ![f.count] = "reconciled"]
          /\ UNCHANGED <<lines, time>>
      BY <1>13, <2>1 DEF Stock!ReconcileCount, Stock!UpdateCountStatus, Stock!Done
    <2>3. f.count \in DOMAIN counts /\ f.at \in 0 .. MaxTime /\ f.lines \in Seq(Line) /\ f.count \in Nat
      <3>1. f.count \in DOMAIN counts /\ f.at \in 0 .. MaxTime /\ f.lines \in Seq(Line)
        BY <2>1, <2>2 DEF StockInv, StockFits
      <3>2. QED
        BY <1>0, <3>1
    <2>4. IsTable(counts') /\ DOMAIN counts' = DOMAIN counts
      BY <1>0, <2>2, <2>3, TableUpdated DEF Counting
    <2>5. Grown(movements, movements')
      BY <1>0, <2>2, <2>3, ReconciledGrows
    <2>6. Balanced(movements')
      BY <1>0, <2>5, GrownBalanced
    <2>7. Counting'
      BY <1>0, <2>2, <2>4 DEF Counting
    <2>8. QED
      BY <2>2, <2>4, <2>5, <2>6, <2>7, StockEnds
  <1>14. ASSUME NEW c \in Client, Stock!Abandon(c)
         PROVE  StockInv'
    <2>1. Stock!Done(c) /\ UNCHANGED <<movements, counts, lines, time>>
      BY <1>14 DEF Stock!Abandon, Stock!Done, Stock!tables
    <2>2. Counting' /\ Balanced(movements') /\ Grown(movements, movements')
      BY <1>0, <2>1, GrownSelf DEF Counting
    <2>3. QED
      BY <2>1, <2>2, StockEnds
  <1>15. QED
    BY <1>1, <1>2, <1>3, <1>4, <1>5, <1>6, <1>7, <1>8, <1>9, <1>10, <1>11, <1>12, <1>13, <1>14 DEF Stock!Next

\* No movement but an adjustment leaves less than nothing of what had been posted when it was checked, write-offs of
\* counts included, and what is issued had not expired when its request began, however movements, counts and
\* reconciliations interleave; what is written off after the check it does not see (inventory/service.go).
THEOREM StockCorrect == Spec => []StockIsThere
  <1> DEFINE Inv == part = "stock" => StockInv
  <1>1. Init => Inv
    <2> SUFFICES ASSUME Init
                 PROVE  StockInv
      OBVIOUS
    <2>1. /\ movements = <<>> /\ counts = <<>> /\ lines = <<>> /\ time = 0
          /\ pc = [c \in Client |-> Stock!Idle]
      BY DEF Init, Stock!Init
    <2>2. IsTable(counts) /\ DOMAIN counts = {} /\ <<>> \in Seq(Seq(Line)) /\ DOMAIN <<>> = {}
      BY <2>1, EmptyTable, Empty
    <2>3. Counting
      BY <2>1, <2>2, PiecesAreCounted DEF Counting
    <2>4. IsLedger(movements) /\ Len(movements) = 0 /\ DOMAIN movements = {}
      BY <2>1, Empty DEF IsLedger
    <2>5. \A c \in Client : StockFits(c, pc[c], lock, movements, counts)
      BY <2>1 DEF StockFits, Stock!Idle
    <2>6. QED
      BY <2>1, <2>3, <2>4, <2>5 DEF StockInv, Balanced
  <1>2. Inv /\ [Next]_vars => Inv'
    <2> SUFFICES ASSUME Inv, [Next]_vars, part' = "stock"
                 PROVE  StockInv'
      OBVIOUS
    <2>1. CASE UNCHANGED vars
      BY <2>1 DEF vars, stock, StockInv, Counting
    <2>2. CASE Next
      <3>1. StockStep
        BY <2>2 DEF Next, StaysStep, HomeStep, OwnerStep, ContractStep
      <3>2. QED
        BY <3>1, StockStepped DEF StockStep
    <2>3. QED
      BY <2>1, <2>2
  <1>3. Inv => StockIsThere
    <2> SUFFICES ASSUME StockInv
                 PROVE  Stock!StockIsThere
      BY DEF StockIsThere
    <2>1. Stock!NothingUnexplained
      BY DEF StockInv, Balanced, Left, Taken, Stock!NothingUnexplained
    <2>2. Stock!ExpiredNotIssued
      BY DEF StockInv, Balanced, Issued, Drawn, Stock!ExpiredNotIssued
    <2>3. QED
      BY <2>1, <2>2 DEF Stock!StockIsThere
  <1>4. QED
    BY <1>1, <1>2, <1>3, PTL DEF Spec

-----------------------------------------------------------------------------
(* The rows that a synchronisation adds *)

\* A finite set in some order.
LEMMA InOrder ==
  ASSUME NEW S, IsFiniteSet(S)
  PROVE  Stays!SetToSeq(S) \in Seq(S) /\ \A x \in S : \E n \in DOMAIN Stays!SetToSeq(S) : Stays!SetToSeq(S)[n] = x
  <1> DEFINE s == Stays!SetToSeq(S)
             N == Cardinality(S)
  <1>1. N \in Nat /\ IsFiniteSet(1 .. N) /\ Cardinality(1 .. N) = N
    <2>1. N \in Nat
      BY FS_CardinalityType
    <2> HIDE DEF N
    <2>2. IsFiniteSet(1 .. N) /\ Cardinality(1 .. N) = IF 1 > N THEN 0 ELSE N - 1 + 1
      BY <2>1, FS_Interval
    <2>3. QED
      BY <2>1, <2>2
  <1>2. PICK f \in [1 .. N -> S] : Stays!IsInjective(f)
    BY FS_CardinalityType, Zenon DEF ExistsBijection, Bijection, Injection, Stays!IsInjective, IsInjective
  <1>0. Stays!Cardinality(S) = N
    BY DEF Cardinality, Stays!Cardinality
  <1>3. s \in [1 .. N -> S] /\ Stays!IsInjective(s)
    <2>1. s = CHOOSE g \in [1 .. N -> S] : Stays!IsInjective(g)
      BY <1>0, Zenon DEF Stays!SetToSeq
    <2>2. QED
      BY <1>2, <2>1, Zenon
  <1> HIDE DEF s
  <1>4. s \in Injection(1 .. N, S)
    BY <1>3, Zenon DEF Injection, Stays!IsInjective, IsInjective
  <1>5. s \in Surjection(1 .. N, S)
    BY <1>1, <1>4, FS_Injection
  <1>6. \A x \in S : \E n \in 1 .. N : s[n] = x
    BY <1>5, Zenon DEF Surjection
  <1> HIDE DEF N
  <1>7. s \in Seq(S) /\ DOMAIN s = 1 .. N
    BY <1>1, <1>3, SeqDef
  <1>8. QED
    BY <1>6, <1>7 DEF s

\* Rows follow those of a table.
Lengthened(table, S, longer) ==
  /\ IsTable(longer)
  /\ DOMAIN table \subseteq DOMAIN longer
  /\ \A n \in DOMAIN table : longer[n] = table[n]
  /\ \A n \in DOMAIN longer : n \notin DOMAIN table => longer[n] \in S
  /\ \A x \in S : \E n \in DOMAIN longer : n \notin DOMAIN table /\ longer[n] = x

LEMMA Followed ==
  ASSUME NEW table, IsTable(table), NEW S, IsFiniteSet(S), NEW longer, longer = table \o Stays!SetToSeq(S)
  PROVE  Lengthened(table, S, longer)
  <1> DEFINE Row == {table[n] : n \in DOMAIN table} \union S
  <1>1. PICK s : s = Stays!SetToSeq(S)
    OBVIOUS
  <1>2. s \in Seq(S) /\ \A x \in S : \E n \in DOMAIN s : s[n] = x
    BY <1>1, InOrder
  <1>3. table \in Seq(Row) /\ s \in Seq(Row)
    BY <1>2, SeqMonotonic DEF IsTable
  <1>4. /\ Len(table) \in Nat /\ DOMAIN table = 1 .. Len(table)
        /\ Len(s) \in Nat /\ DOMAIN s = 1 .. Len(s) /\ \A n \in DOMAIN s : s[n] \in S
    BY <1>2, TableRows, LenProperties, ElementOfSeq
  <1> HIDE DEF Row
  <1>5. longer = table \o s
    BY <1>1
  <1>6. /\ longer \in Seq(Row) /\ Len(longer) = Len(table) + Len(s)
        /\ \A n \in 1 .. Len(table) + Len(s) : longer[n] = IF n <= Len(table) THEN table[n] ELSE s[n - Len(table)]
    BY <1>3, <1>5, ConcatProperties
  <1>7. DOMAIN longer = 1 .. Len(table) + Len(s) /\ IsTable(longer)
    BY <1>6, LenProperties, TableOf
  <1>8. \A n \in DOMAIN table : n \in DOMAIN longer /\ longer[n] = table[n]
    BY <1>4, <1>6, <1>7
  <1>9. ASSUME NEW n \in DOMAIN longer, n \notin DOMAIN table
        PROVE  longer[n] \in S
    <2>1. n - Len(table) \in DOMAIN s /\ longer[n] = s[n - Len(table)]
      BY <1>4, <1>6, <1>7, <1>9
    <2>2. QED
      BY <1>4, <2>1
  <1>10. ASSUME NEW x \in S
         PROVE  \E n \in DOMAIN longer : n \notin DOMAIN table /\ longer[n] = x
    <2>1. PICK k \in DOMAIN s : s[k] = x
      BY <1>2
    <2>2. Len(table) + k \in 1 .. Len(table) + Len(s) /\ ~(Len(table) + k <= Len(table)) /\ Len(table) + k - Len(table) = k
      BY <1>4
    <2>3. longer[Len(table) + k] = x
      BY <1>6, <2>1, <2>2
    <2>4. QED
      BY <1>4, <1>7, <2>2, <2>3
  <1>11. QED
    BY <1>7, <1>8, <1>9, <1>10 DEF Lengthened

Booking == Stays!Event

LEMMA BookingsAreFinite == IsFiniteSet(Booking)
  <1>1. IsFiniteSet(Feed \X Uid)
    BY FeedsAreFinite, FS_Product
  <1>2. QED
    BY <1>1 DEF Booking, Stays!Event

\* What is mapped from a finite set is finite.
LEMMA ImageIsFinite ==
  ASSUME NEW S, IsFiniteSet(S), NEW T, NEW f \in [S -> T], \A y \in T : \E x \in S : f[x] = y
  PROVE  IsFiniteSet(T)
  <1>1. f \in Surjection(S, T)
    BY DEF Surjection
  <1>2. QED
    BY <1>1, FS_Surjection

IssueKind == {"overlap", "turnaround", "ambiguity", "duplicate"}
IssueEvents == (Booking \X Booking) \union {<<e>> : e \in Booking}
IssueOf == [q \in IssueKind \X IssueEvents |-> [kind |-> q[1], events |-> q[2]]]
Issue == {IssueOf[q] : q \in IssueKind \X IssueEvents}

LEMMA IssueIsFinite == IsFiniteSet(Issue)
  <1>1. IsFiniteSet(IssueKind)
    <2>1. IsFiniteSet({"overlap"}) /\ IsFiniteSet({"turnaround"}) /\ IsFiniteSet({"ambiguity"}) /\ IsFiniteSet({"duplicate"})
      BY FS_Singleton
    <2>2. IsFiniteSet({"overlap"} \union {"turnaround"}) /\ IsFiniteSet({"ambiguity"} \union {"duplicate"})
      BY <2>1, FS_Union
    <2>3. IsFiniteSet(({"overlap"} \union {"turnaround"}) \union ({"ambiguity"} \union {"duplicate"}))
      BY <2>2, FS_Union
    <2>4. IssueKind = ({"overlap"} \union {"turnaround"}) \union ({"ambiguity"} \union {"duplicate"})
      BY DEF IssueKind
    <2>5. QED
      BY <2>3, <2>4
  <1>2. IsFiniteSet(IssueEvents)
    <2> DEFINE single == [e \in Booking |-> <<e>>]
               Single == {<<e>> : e \in Booking}
    <2>1. single \in [Booking -> Single]
      OBVIOUS
    <2>2. \A y \in Single : \E e \in Booking : single[e] = y
      OBVIOUS
    <2> HIDE DEF single, Single
    <2>3. IsFiniteSet(Single)
      BY <2>1, <2>2, BookingsAreFinite, ImageIsFinite
    <2>4. IsFiniteSet(Booking \X Booking)
      BY BookingsAreFinite, FS_Product
    <2>5. IsFiniteSet((Booking \X Booking) \union Single)
      BY <2>3, <2>4, FS_Union
    <2>6. QED
      BY <2>5 DEF IssueEvents, Single
  <1>3. IsFiniteSet(IssueKind \X IssueEvents)
    BY <1>1, <1>2, FS_Product
  <1>4. IssueOf \in [IssueKind \X IssueEvents -> Issue]
    BY DEF IssueOf, Issue
  <1>5. \A y \in Issue : \E q \in IssueKind \X IssueEvents : IssueOf[q] = y
    BY DEF Issue
  <1>6. QED
    BY <1>3, <1>4, <1>5, ImageIsFinite

LEMMA IsAnIssue ==
  ASSUME NEW k \in IssueKind, NEW p \in IssueEvents
  PROVE  [kind |-> k, events |-> p] \in Issue
  <1>1. <<k, p>> \in IssueKind \X IssueEvents
    OBVIOUS
  <1>2. IssueOf[<<k, p>>] = [kind |-> k, events |-> p]
    BY <1>1 DEF IssueOf
  <1>3. QED
    BY <1>1, <1>2 DEF Issue

\* The issues of the events that were read are finitely many, and one of each kind and key is kept.
LEMMA IssuesAreFinite ==
  ASSUME NEW seen
  PROVE  IsFiniteSet(Stays!AllIssues(seen)) /\ IsFiniteSet(Stays!DetectIssues(seen))
  <1>1. Stays!ActiveOf(seen) \subseteq Booking
    BY DEF Stays!ActiveOf, Booking
  <1>2. Stays!Pairs(seen) \subseteq IssueEvents
    BY <1>1 DEF Stays!Pairs, IssueEvents
  <1>3. \A k \in IssueKind, p \in Stays!Pairs(seen) : [kind |-> k, events |-> p] \in Issue
    BY <1>2, IsAnIssue
  <1>4. /\ "overlap" \in IssueKind /\ "turnaround" \in IssueKind
        /\ "ambiguity" \in IssueKind /\ "duplicate" \in IssueKind
    BY DEF IssueKind
  <1>5. Stays!Overlaps(seen) \subseteq Issue
    BY <1>3, <1>4 DEF Stays!Overlaps
  <1>6. Stays!ImpossibleTurnarounds(seen) \subseteq Issue
    BY <1>3, <1>4 DEF Stays!ImpossibleTurnarounds
  <1>7. Stays!Duplicates(seen) \subseteq Issue
    BY <1>3, <1>4 DEF Stays!Duplicates
  <1>8. Stays!Ambiguities(seen) \subseteq Issue
    <2>1. \A e \in Booking : <<e>> \in IssueEvents
      BY DEF IssueEvents
    <2>2. \A e \in Booking : [kind |-> "ambiguity", events |-> <<e>>] \in Issue
      BY <1>4, <2>1, IsAnIssue
    <2>3. QED
      BY <1>1, <2>2 DEF Stays!Ambiguities
  <1>9. Stays!AllIssues(seen) \subseteq Issue
    BY <1>5, <1>6, <1>7, <1>8 DEF Stays!AllIssues
  <1>10. IsFiniteSet(Stays!AllIssues(seen))
    BY <1>9, IssueIsFinite, FS_Subset
  <1>11. IsFiniteSet(Stays!DetectIssues(seen))
    <2>1. PICK all : all = Stays!AllIssues(seen)
      OBVIOUS
    <2> DEFINE first == [i \in all |-> Stays!FirstOf(all, i.kind, Stays!KeyOf(i))]
               First == {Stays!FirstOf(all, i.kind, Stays!KeyOf(i)) : i \in all}
    <2>2. first \in [all -> First] /\ \A y \in First : \E i \in all : first[i] = y
      OBVIOUS
    <2> HIDE DEF first, First
    <2>3. IsFiniteSet(First)
      BY <1>10, <2>1, <2>2, ImageIsFinite
    <2>4. Stays!DetectIssues(seen) = {} \/ Stays!DetectIssues(seen) = First
      BY <2>1 DEF Stays!DetectIssues, First
    <2>5. QED
      BY <2>3, <2>4, FS_EmptySet
  <1>12. QED
    BY <1>10, <1>11

\* Two active events that overlap are an issue.
LEMMA OverlapDetected ==
  ASSUME NEW seen, NEW a \in Booking, NEW b \in Booking, a # b,
         Stays!IsActive(seen[a]), Stays!IsActive(seen[b]),
         seen[a].stay \in Stay, seen[b].stay \in Stay,
         Stays!overlaps(seen[a].stay, seen[b].stay)
  PROVE  \E i \in Stays!DetectIssues(seen) : i.kind = "overlap" /\ Stays!KeyOf(i) = {a, b}
  <1>1. a \in Stays!ActiveOf(seen) /\ b \in Stays!ActiveOf(seen)
    BY DEF Stays!ActiveOf, Booking
  <1>2. \E i \in Stays!Overlaps(seen) : i.kind = "overlap" /\ Stays!KeyOf(i) = {a, b}
    <2>1. seen[a].stay.start \in Int /\ seen[b].stay.start \in Int
      BY DEF Stay
    <2>2. PICK p \in Stays!Pairs(seen) : /\ p = <<a, b>> \/ p = <<b, a>>
                                         /\ seen[p[1]].stay.start <= seen[p[2]].stay.start
      <3>1. <<a, b>> \in Stays!Pairs(seen) /\ <<b, a>> \in Stays!Pairs(seen)
        BY <1>1 DEF Stays!Pairs
      <3>2. CASE seen[a].stay.start <= seen[b].stay.start
        BY <3>1, <3>2
      <3>3. CASE seen[b].stay.start <= seen[a].stay.start
        BY <3>1, <3>3
      <3>4. QED
        BY <2>1, <3>2, <3>3
    <2>3. p[1] # p[2] /\ Stays!overlaps(seen[p[1]].stay, seen[p[2]].stay)
      BY <2>2 DEF Stays!overlaps
    <2>4. [kind |-> "overlap", events |-> p] \in Stays!Overlaps(seen)
      BY <2>2, <2>3 DEF Stays!Overlaps
    <2>5. Stays!KeyOf([kind |-> "overlap", events |-> p]) = {a, b}
      <3>1. DOMAIN p = {1, 2} /\ ((p[1] = a /\ p[2] = b) \/ (p[1] = b /\ p[2] = a))
        BY <2>2
      <3>2. QED
        BY <3>1 DEF Stays!KeyOf
    <2>6. QED
      BY <2>4, <2>5
  <1>3. PICK i \in Stays!AllIssues(seen) : i.kind = "overlap" /\ Stays!KeyOf(i) = {a, b}
    BY <1>2 DEF Stays!AllIssues
  <1>4. PICK first : first = Stays!FirstOf(Stays!AllIssues(seen), i.kind, Stays!KeyOf(i))
    OBVIOUS
  <1>5. first.kind = "overlap" /\ Stays!KeyOf(first) = {a, b}
    BY <1>3, <1>4, Zenon DEF Stays!FirstOf
  <1>6. first \in Stays!DetectIssues(seen)
    <2>1. ~(\A x, y \in Stays!ActiveOf(seen) : x = y)
      BY <1>1
    <2>2. QED
      BY <1>4, <2>1, Zenon DEF Stays!DetectIssues
  <1>7. QED
    BY <1>5, <1>6

-----------------------------------------------------------------------------
(* The stays and the work proposed for them *)

Events == [Booking -> Event \union {None}]
Reservations == [Booking -> Reservation \union {None}]
Proposals == [Booking \X Stays!Kind -> Proposal \union {None}]

\* What an ingest has read: its own events as it will store them, the others as they were.
Reads(f, E) ==
  /\ f.seen \in Events
  /\ \A e \in Booking : f.seen[e] = None /\ e[1] = f.feed => E[e] = None
  /\ \A e \in Booking : f.seen[e] # None => e[1] = f.feed \/ E[e] # None

\* The reservations it will store follow what it has read.
Follows(f, E, P) ==
  /\ f.new \in Reservations
  /\ \A e \in Booking : f.new[e] # None =>
       /\ f.seen[e] = None => E[e] # None
       /\ Stays!IsActive(f.seen[e]) => f.new[e].status = "active" /\ f.new[e].stay = f.seen[e].stay
       /\ f.seen[e] # None /\ ~Stays!IsActive(f.seen[e]) => f.new[e].status = "cancelled"
       /\ f.new[e].status # "active" => \A k \in Stays!Kind : P[<<e, k>>] # None

Ingests(f) == f.op \in {"ingest", "synced"}

CalendarFits(f, E, P) ==
  /\ f.op \in {"idle", "poll", "ingest", "synced", "scan", "generate"}
  /\ f.op \in {"poll", "ingest", "synced"} => f.feed \in Feed
  /\ Ingests(f) => Reads(f, E)
  /\ f.op = "synced" => Follows(f, E, P)
  /\ f.op = "generate" => f.seen \in Reservations

\* An ingest holds its feed.
HoldFeeds == \A c, d \in Client : c # d /\ Ingests(pc[c]) /\ Ingests(pc[d]) => pc[c].feed # pc[d].feed

\* A reservation has its event, and its proposals.
Booked ==
  /\ events \in Events
  /\ reservations \in Reservations
  /\ proposals \in Proposals
  /\ \A e \in Booking : reservations[e] # None =>
       events[e] # None /\ \A k \in Stays!Kind : proposals[<<e, k>>] # None

IsConflict(row) ==
  row = [kind |-> row.kind, key |-> row.key, primary |-> row.primary, status |-> row.status,
         exception |-> row.exception]

\* A decision is one of a conflict.
Disputed ==
  /\ IsTable(conflicts)
  /\ IsTable(resolutions)
  /\ \A n \in DOMAIN conflicts : IsConflict(conflicts[n])
  /\ \A r \in DOMAIN resolutions : resolutions[r].conflict \in DOMAIN conflicts

CalendarInv ==
  /\ DOMAIN pc = Client
  /\ Booked
  /\ Disputed
  /\ Stays!ReservationsFollowEvents
  /\ Stays!ProposalsFollowReservations
  /\ Stays!OverlapsReported
  /\ Stays!DecidedOnce
  /\ HoldFeeds
  /\ \A c \in Client : CalendarFits(pc[c], events, proposals)

\* A row of a record type is not null.
LEMMA RowsAreNotNull ==
  /\ \A x \in Event : x # None /\ x.stay \in Stay /\ x.stay.start \in Int /\ x.stay.end \in Int
  /\ \A x \in Reservation : x # None /\ x.status \in {"active", "cancelled"} /\ x.stay \in Stay
                            /\ x.stay.start \in Int /\ x.stay.end \in Int
  /\ \A x \in Proposal : x # None
  BY NoneIsNull DEF Event, Reservation, Stay

\* Rows are not deleted, and only one ingest writes the events of a feed.
RowsKept(E, P, E2, P2) ==
  /\ \A e \in Booking : E[e] # None => E2[e] # None
  /\ \A e \in Booking, k \in Stays!Kind : P[<<e, k>>] # None => P2[<<e, k>>] # None

LEMMA CalendarFitsStays ==
  ASSUME NEW f, NEW E, NEW P, NEW E2, NEW P2, CalendarFits(f, E, P), RowsKept(E, P, E2, P2),
         Ingests(f) => \A e \in Booking : e[1] = f.feed => E2[e] = E[e]
  PROVE  CalendarFits(f, E2, P2)
  <1>1. Ingests(f) => Reads(f, E2)
    BY DEF CalendarFits, RowsKept, Reads
  <1>2. f.op = "synced" => Follows(f, E2, P2)
    BY DEF CalendarFits, RowsKept, Follows
  <1>3. QED
    BY <1>1, <1>2 DEF CalendarFits

\* The frames of the others stay as they are.
LEMMA OthersFit ==
  ASSUME CalendarInv, NEW c \in Client, NEW frame, pc' = [pc EXCEPT ![c] = frame],
         RowsKept(events, proposals, events', proposals'),
         \A d \in Client, e \in Booking : d # c /\ Ingests(pc[d]) /\ e[1] = pc[d].feed => events'[e] = events[e],
         Ingests(frame) => \A d \in Client : d # c /\ Ingests(pc[d]) => pc[d].feed # frame.feed,
         CalendarFits(frame, events', proposals')
  PROVE  /\ DOMAIN pc' = Client
         /\ HoldFeeds'
         /\ \A d \in Client : CalendarFits(pc'[d], events', proposals')
  <1>1. DOMAIN pc' = Client /\ \A d \in Client : pc'[d] = IF d = c THEN frame ELSE pc[d]
    BY DEF CalendarInv
  <1>2. HoldFeeds'
    BY <1>1 DEF CalendarInv, HoldFeeds
  <1>3. ASSUME NEW d \in Client
        PROVE  CalendarFits(pc'[d], events', proposals')
    <2>1. CASE d = c
      BY <1>1, <2>1
    <2>2. CASE d # c
      <3>1. pc'[d] = pc[d] /\ CalendarFits(pc[d], events, proposals)
        BY <1>1, <2>2 DEF CalendarInv
      <3>2. PICK E2, P2 : E2 = events' /\ P2 = proposals'
        OBVIOUS
      <3>3. CalendarFits(pc[d], E2, P2)
        BY <2>2, <3>1, <3>2, CalendarFitsStays
      <3>4. QED
        BY <3>1, <3>2, <3>3
    <2>3. QED
      BY <2>1, <2>2
  <1>4. QED
    BY <1>1, <1>2, <1>3

\* Bookings that are reported stay so, and no more are to be reported when more is stale.
LEMMA SettledStay ==
  ASSUME UNCHANGED <<events, conflicts, resolutions>>, raced \subseteq raced',
         Stays!OverlapsReported, Stays!DecidedOnce
  PROVE  Stays!OverlapsReported' /\ Stays!DecidedOnce'
  <1>1. ASSUME NEW a \in Stays!Event \ raced', NEW b \in Stays!Event \ raced', Stays!DoubleBooked(a, b)'
        PROVE  Stays!Reported(a, b)'
    <2>1. a \in Stays!Event \ raced /\ b \in Stays!Event \ raced
      OBVIOUS
    <2>2. Stays!DoubleBooked(a, b)
      BY <1>1 DEF Stays!DoubleBooked, Stays!IsActive, Stays!overlaps
    <2>3. Stays!Reported(a, b)
      BY <2>1, <2>2 DEF Stays!OverlapsReported
    <2>4. QED
      BY <2>3 DEF Stays!Reported
  <1>2. Stays!OverlapsReported'
    BY <1>1 DEF Stays!OverlapsReported
  <1>3. \A n : Stays!Decisions(n)' = Stays!Decisions(n)
    BY DEF Stays!Decisions
  <1>4. Stays!DecidedOnce'
    BY <1>3, Zenon DEF Stays!DecidedOnce
  <1>5. QED
    BY <1>2, <1>4

\* A request goes on, and neither stays nor conflicts change.
LEMMA CalendarGoes ==
  ASSUME CalendarInv, NEW c \in Client, NEW frame, pc' = [pc EXCEPT ![c] = frame],
         UNCHANGED <<events, reservations, conflicts, resolutions, proposals, raced>>,
         Ingests(frame) => \A d \in Client : d # c /\ Ingests(pc[d]) => pc[d].feed # frame.feed,
         CalendarFits(frame, events, proposals)
  PROVE  CalendarInv'
  <1>1. RowsKept(events, proposals, events', proposals')
    BY DEF RowsKept
  <1>2. Booked' /\ Disputed'
    BY DEF CalendarInv, Booked, Disputed
  <1>3. Stays!ReservationsFollowEvents' /\ Stays!ProposalsFollowReservations'
    BY DEF CalendarInv, Stays!ReservationsFollowEvents, Stays!ProposalsFollowReservations, Stays!Merged
  <1>4. Stays!OverlapsReported' /\ Stays!DecidedOnce'
    BY SettledStay DEF CalendarInv
  <1>5. /\ DOMAIN pc' = Client
        /\ HoldFeeds'
        /\ \A d \in Client : CalendarFits(pc'[d], events', proposals')
    BY <1>1, OthersFit
  <1>6. QED
    BY <1>2, <1>3, <1>4, <1>5 DEF CalendarInv

\* The request ends there.
LEMMA CalendarEnds ==
  ASSUME CalendarInv, NEW c \in Client, Stays!Done(c),
         UNCHANGED <<events, reservations, conflicts, resolutions, proposals, raced>>
  PROVE  CalendarInv'
  <1>1. pc' = [pc EXCEPT ![c] = Stays!Idle]
    BY DEF Stays!Done
  <1>2. CalendarFits(Stays!Idle, events, proposals) /\ ~Ingests(Stays!Idle)
    BY DEF CalendarFits, Ingests, Stays!Idle
  <1>3. QED
    BY <1>1, <1>2, CalendarGoes

\* A synchronised reservation follows its event.
LEMMA Synced ==
  ASSUME NEW row \in Reservation \union {None}, NEW event \in Event \union {None}
  PROVE  LET new == Stays!SyncedReservation(row, event)
         IN /\ new \in Reservation \union {None}
            /\ event = None => new = row
            /\ Stays!IsActive(event) => new # None /\ new.status = "active" /\ new.stay = event.stay
            /\ event # None /\ ~Stays!IsActive(event) /\ new # None => row # None /\ new.status = "cancelled"
  <1>1. CASE event = None
    BY <1>1 DEF Stays!SyncedReservation, Stays!IsActive
  <1>2. CASE event # None /\ Stays!IsActive(event)
    <2>1. PICK new : new = [status |-> "active", stay |-> event.stay]
      OBVIOUS
    <2>2. event.stay \in Stay
      BY <1>2 DEF Event
    <2>3. new \in Reservation
      BY <2>1, <2>2 DEF Reservation
    <2>4. Stays!SyncedReservation(row, event) = new
      BY <1>2, <2>1 DEF Stays!SyncedReservation, Stays!UpsertReservation
    <2>5. QED
      BY <1>2, <2>1, <2>3, <2>4, RowsAreNotNull
  <1>3. CASE event # None /\ ~Stays!IsActive(event) /\ row = None
    BY <1>3 DEF Stays!SyncedReservation, Stays!SetReservationCancelled
  <1>4. CASE event # None /\ ~Stays!IsActive(event) /\ row # None
    <2>1. PICK new : new = [row EXCEPT !.status = "cancelled"]
      OBVIOUS
    <2>2. new \in Reservation /\ new.status = "cancelled"
      BY <1>4, <2>1 DEF Reservation
    <2>3. Stays!SyncedReservation(row, event) = new
      BY <1>4, <2>1 DEF Stays!SyncedReservation, Stays!SetReservationCancelled
    <2>4. QED
      BY <1>4, <2>2, <2>3
  <1>5. QED
    BY <1>1, <1>2, <1>3, <1>4

\* The events of a feed take its contents.
LEMMA Ingested ==
  ASSUME NEW f \in Feed, NEW content \in SUBSET Listed, NEW E \in Events
  PROVE  LET seen == Stays!MarkMissingEventsCancelled(Stays!UpsertEvents(E, f, content), f, content)
         IN /\ seen \in Events
            /\ \A e \in Booking : seen[e] = None => E[e] = None
            /\ \A e \in Booking : e[1] # f => seen[e] = E[e]
  <1> DEFINE L == Stays!Listed(f, content)
             T == Stays!UpsertEvents(E, f, content)
             seen == Stays!MarkMissingEventsCancelled(T, f, content)
  <1>1. \A e \in L : e[1] = f /\ \E item \in content : item.uid = e[2]
    BY DEF Stays!Listed
  <1>2. ASSUME NEW e \in Booking
        PROVE  /\ T[e] \in Event \union {None}
               /\ T[e] = None => E[e] = None
               /\ e[1] # f => T[e] = E[e]
    <2>1. PICK item : item = CHOOSE i \in content : i.uid = e[2]
      OBVIOUS
    <2>2. PICK row : row = [stay |-> item.stay, status |-> item.status]
      OBVIOUS
    <2>3. T[e] = IF e \in L THEN row ELSE E[e]
      BY <2>1, <2>2, Zenon DEF Stays!UpsertEvents, Booking
    <2>4. CASE e \in L
      <3>1. item \in content
        BY <1>1, <2>1, <2>4
      <3>2. item.stay \in Stay /\ item.status \in STRING
        BY <3>1 DEF Listed
      <3>3. row \in Event
        BY <2>2, <3>2 DEF Event
      <3>4. QED
        BY <1>1, <2>3, <2>4, <3>3, RowsAreNotNull
    <2>5. CASE e \notin L
      BY <2>3, <2>5 DEF Events
    <2>6. QED
      BY <2>4, <2>5
  <1>3. ASSUME NEW e \in Booking
        PROVE  /\ seen[e] \in Event \union {None}
               /\ seen[e] = None => T[e] = None
               /\ e[1] # f => seen[e] = T[e]
    <2>1. PICK row : row = [T[e] EXCEPT !.status = "no_longer_listed"]
      OBVIOUS
    <2>2. seen[e] = IF e[1] = f /\ e \notin L /\ Stays!IsActive(T[e]) THEN row ELSE T[e]
      BY <2>1, Zenon DEF Stays!MarkMissingEventsCancelled, Booking
    <2> HIDE DEF T, seen, L
    <2>3. CASE e[1] = f /\ e \notin L /\ Stays!IsActive(T[e])
      <3>1. T[e] \in Event
        BY <1>2, <2>3 DEF Stays!IsActive
      <3>2. row \in Event
        BY <2>1, <3>1 DEF Event
      <3>3. QED
        BY <2>2, <2>3, <3>2, RowsAreNotNull
    <2>4. CASE ~(e[1] = f /\ e \notin L /\ Stays!IsActive(T[e]))
      BY <1>2, <2>2, <2>4
    <2>5. QED
      BY <2>3, <2>4
  <1>4. DOMAIN seen = Booking /\ seen = [e \in Booking |-> seen[e]]
    BY Zenon DEF Stays!MarkMissingEventsCancelled, Booking
  <1> HIDE DEF T, seen
  <1>5. seen \in Events
    BY <1>3, <1>4 DEF Events
  <1>6. QED
    BY <1>2, <1>3, <1>5 DEF seen, T

\* The proposals follow the reservations as they were read, and none is deleted.
LEMMA Proposed ==
  ASSUME proposals \in Proposals, NEW seen \in Reservations, NEW P, P = Stays!SyncedProposals(seen)
  PROVE  /\ P \in Proposals
         /\ \A e \in Booking, k \in Stays!Kind :
              /\ proposals[<<e, k>>] # None => P[<<e, k>>] # None
              /\ seen[e] = None => P[<<e, k>>] = proposals[<<e, k>>]
              /\ seen[e] # None /\ seen[e].status = "active" =>
                   P[<<e, k>>] # None /\ P[<<e, k>>] = Stays!UpsertProposal(seen[e], k)
              /\ seen[e] # None /\ seen[e].status # "active" /\ proposals[<<e, k>>] # None =>
                   P[<<e, k>>].status = "cancelled"
  <1>1. ASSUME NEW e \in Booking, NEW k \in Stays!Kind
        PROVE  /\ P[<<e, k>>] \in Proposal \union {None}
               /\ proposals[<<e, k>>] # None => P[<<e, k>>] # None
               /\ seen[e] = None => P[<<e, k>>] = proposals[<<e, k>>]
               /\ seen[e] # None /\ seen[e].status = "active" =>
                    P[<<e, k>>] # None /\ P[<<e, k>>] = Stays!UpsertProposal(seen[e], k)
               /\ seen[e] # None /\ seen[e].status # "active" /\ proposals[<<e, k>>] # None =>
                    P[<<e, k>>].status = "cancelled"
    <2>1. PICK p : p = <<e, k>>
      OBVIOUS
    <2>2. p \in Booking \X Stays!Kind /\ p[1] = e /\ p[2] = k
      BY <2>1
    <2>3. PICK row, upserted, cancelled :
            row = proposals[p] /\ upserted = Stays!UpsertProposal(seen[e], k) /\ cancelled = Stays!CancelProposal(row)
      OBVIOUS
    <2>4. P[p] = IF seen[e] = None THEN row ELSE IF seen[e].status = "active" THEN upserted ELSE cancelled
      <3>1. p \in Stays!Event \X Stays!Kind
        BY <2>2 DEF Booking
      <3>2. P[p] = IF seen[p[1]] = None THEN proposals[p]
                   ELSE IF seen[p[1]].status = "active" THEN Stays!UpsertProposal(seen[p[1]], p[2])
                   ELSE Stays!CancelProposal(proposals[p])
        BY <3>1 DEF Stays!SyncedProposals
      <3>3. QED
        BY <2>2, <2>3, <3>2
    <2>5. row \in Proposal \union {None}
      BY <2>2, <2>3 DEF Proposals
    <2>6. CASE seen[e] = None
      BY <2>1, <2>3, <2>4, <2>5, <2>6
    <2>7. CASE seen[e] # None /\ seen[e].status = "active"
      <3>1. seen[e] \in Reservation
        BY <2>7 DEF Reservations
      <3>2. PICK at : at = Stays!ScheduledAt(seen[e].stay, k)
        OBVIOUS
      <3>3. at \in Int
        BY <3>1, <3>2, RowsAreNotNull DEF Stays!ScheduledAt
      <3>4. upserted = [status |-> "proposed", at |-> at]
        BY <2>3, <3>2 DEF Stays!UpsertProposal
      <3>5. upserted \in Proposal
        BY <3>3, <3>4 DEF Proposal
      <3>6. QED
        BY <2>1, <2>3, <2>4, <2>7, <3>5, RowsAreNotNull
    <2>8. CASE seen[e] # None /\ seen[e].status # "active"
      <3>1. CASE row = None
        BY <2>1, <2>3, <2>4, <2>8, <3>1 DEF Stays!CancelProposal
      <3>2. CASE row # None
        <4>1. cancelled = [row EXCEPT !.status = "cancelled"]
          BY <2>3, <3>2 DEF Stays!CancelProposal
        <4>2. cancelled \in Proposal /\ cancelled.status = "cancelled"
          BY <2>5, <3>2, <4>1 DEF Proposal
        <4>3. QED
          BY <2>1, <2>3, <2>4, <2>8, <4>2, RowsAreNotNull
      <3>3. QED
        BY <3>1, <3>2
    <2>9. QED
      BY <2>6, <2>7, <2>8
  <1>2. DOMAIN P = Booking \X Stays!Kind /\ P = [p \in Booking \X Stays!Kind |-> P[p]]
    BY Zenon DEF Stays!SyncedProposals, Booking
  <1>3. \A p \in Booking \X Stays!Kind : P[p] \in Proposal \union {None}
    <2> TAKE p \in Booking \X Stays!Kind
    <2>1. p = <<p[1], p[2]>> /\ p[1] \in Booking /\ p[2] \in Stays!Kind
      OBVIOUS
    <2>2. P[<<p[1], p[2]>>] \in Proposal \union {None}
      BY <1>1, <2>1
    <2>3. QED
      BY <2>1, <2>2
  <1>4. P \in Proposals
    BY <1>2, <1>3 DEF Proposals
  <1>5. QED
    BY <1>1, <1>4

\* Conflicts and decisions are not deleted, and a conflict stays the one it was.
ConflictsKept(C, D, C2, D2) ==
  /\ DOMAIN C \subseteq DOMAIN C2 /\ DOMAIN D \subseteq DOMAIN D2
  /\ \A n \in DOMAIN C : C2[n].kind = C[n].kind /\ C2[n].key = C[n].key /\ C2[n].primary = C[n].primary
  /\ \A r \in DOMAIN D : D2[r] = D[r]

LEMMA StillMerged ==
  ASSUME Disputed, ConflictsKept(conflicts, resolutions, conflicts', resolutions')
  PROVE  /\ \A e : Stays!Merged(e) => Stays!Merged(e)'
         /\ \A a, b : Stays!Reported(a, b) => Stays!Reported(a, b)'
  <1>1. ASSUME NEW e, Stays!Merged(e)
        PROVE  Stays!Merged(e)'
    <2>1. PICK n \in DOMAIN resolutions :
            /\ resolutions[n].outcome = "merge"
            /\ e \in conflicts[resolutions[n].conflict].key \ {conflicts[resolutions[n].conflict].primary}
      BY <1>1 DEF Stays!Merged
    <2>2. /\ n \in DOMAIN resolutions' /\ resolutions'[n] = resolutions[n]
          /\ conflicts'[resolutions[n].conflict].key = conflicts[resolutions[n].conflict].key
          /\ conflicts'[resolutions[n].conflict].primary = conflicts[resolutions[n].conflict].primary
      BY <2>1 DEF Disputed, ConflictsKept
    <2>3. QED
      BY <2>1, <2>2 DEF Stays!Merged
  <1>2. ASSUME NEW a, NEW b, Stays!Reported(a, b)
        PROVE  Stays!Reported(a, b)'
    BY <1>2 DEF Stays!Reported, ConflictsKept
  <1>3. QED
    BY <1>1, <1>2

\* A synchronisation adds the conflicts that are not open yet.
LEMMA ConflictsSynced ==
  ASSUME Disputed, NEW issues, IsFiniteSet(issues), NEW excs, conflicts' = Stays!syncConflicts(issues, excs),
         resolutions' = resolutions, Stays!DecidedOnce
  PROVE  /\ Disputed'
         /\ Stays!DecidedOnce'
         /\ ConflictsKept(conflicts, resolutions, conflicts', resolutions')
         /\ \A i \in issues : \E n \in DOMAIN conflicts' : conflicts'[n].kind = i.kind /\ conflicts'[n].key = Stays!KeyOf(i)
  <1> DEFINE linked(i) == Stays!OpenExceptions(excs, i.kind, Stays!KeyOf(i))
             open(i) == \E n \in DOMAIN conflicts : /\ conflicts[n].kind = i.kind
                                                    /\ conflicts[n].key = Stays!KeyOf(i)
                                                    /\ conflicts[n].status = "open"
             Unreported == {j \in issues : ~open(j)}
             row == [i \in Unreported |->
                       [kind |-> i.kind, key |-> Stays!KeyOf(i), primary |-> i.events[1], status |-> "open",
                        exception |-> IF linked(i) = {} THEN 0 ELSE CHOOSE n \in linked(i) : TRUE]]
             New == {row[i] : i \in Unreported}
  <1>1. conflicts' = conflicts \o Stays!SetToSeq(New)
    BY Zenon DEF Stays!syncConflicts
  <1>2. IsFiniteSet(New)
    <2>1. IsFiniteSet(Unreported)
      BY FS_Subset
    <2>2. row \in [Unreported -> New]
      BY Zenon
    <2>3. \A y \in New : \E i \in Unreported : row[i] = y
      BY Zenon
    <2> HIDE DEF row, New, Unreported
    <2>4. QED
      BY <2>1, <2>2, <2>3, ImageIsFinite
  <1>3. \A i \in Unreported : row[i].kind = i.kind /\ row[i].key = Stays!KeyOf(i) /\ row[i].status = "open" /\ IsConflict(row[i])
    <2> SUFFICES ASSUME NEW i \in Unreported
                 PROVE  /\ row[i].kind = i.kind /\ row[i].key = Stays!KeyOf(i) /\ row[i].status = "open"
                        /\ IsConflict(row[i])
      OBVIOUS
    <2>1. PICK x : x = IF linked(i) = {} THEN 0 ELSE CHOOSE n \in linked(i) : TRUE
      OBVIOUS
    <2>2. row[i] = [kind |-> i.kind, key |-> Stays!KeyOf(i), primary |-> i.events[1], status |-> "open", exception |-> x]
      BY <2>1, Zenon
    <2> HIDE DEF row
    <2>3. QED
      BY <2>2 DEF IsConflict
  <1> HIDE DEF row
  <1>4. \A y \in New : y.status = "open" /\ IsConflict(y)
    BY <1>3
  <1>5. \A i \in Unreported : row[i] \in New
    OBVIOUS
  <1>6. \A i \in issues : i \in Unreported \/ open(i)
    OBVIOUS
  <1> HIDE DEF New, Unreported
  <1>7. PICK longer : longer = conflicts \o Stays!SetToSeq(New)
    OBVIOUS
  <1>8. /\ IsTable(longer)
        /\ DOMAIN conflicts \subseteq DOMAIN longer
        /\ \A n \in DOMAIN conflicts : longer[n] = conflicts[n]
        /\ \A n \in DOMAIN longer : n \notin DOMAIN conflicts => longer[n] \in New
        /\ \A x \in New : \E n \in DOMAIN longer : n \notin DOMAIN conflicts /\ longer[n] = x
    <2>1. IsTable(conflicts)
      BY DEF Disputed
    <2>2. Lengthened(conflicts, New, longer)
      BY <1>2, <1>7, <2>1, Followed
    <2>3. QED
      BY <2>2 DEF Lengthened
  <1>9. conflicts' = longer
    BY <1>1, <1>7
  <1>10. Disputed'
    BY <1>4, <1>8, <1>9 DEF Disputed
  <1>11. ConflictsKept(conflicts, resolutions, conflicts', resolutions')
    BY <1>8, <1>9 DEF ConflictsKept
  <1>12. Stays!DecidedOnce'
    <2> SUFFICES ASSUME NEW n \in DOMAIN longer
                 PROVE  IF longer[n].status = "open" THEN Stays!Decisions(n) = {}
                        ELSE \E r \in Stays!Decisions(n) : Stays!Decisions(n) = {r}
      BY <1>9 DEF Stays!DecidedOnce, Stays!Decisions
    <2>2. CASE n \in DOMAIN conflicts
      BY <1>8, <2>2 DEF Stays!DecidedOnce
    <2>3. CASE n \notin DOMAIN conflicts
      BY <1>4, <1>8, <2>3 DEF Disputed, Stays!Decisions
    <2>4. QED
      BY <2>2, <2>3
  <1>13. ASSUME NEW i \in issues
         PROVE  \E n \in DOMAIN longer : longer[n].kind = i.kind /\ longer[n].key = Stays!KeyOf(i)
    <2>1. CASE i \in Unreported
      BY <1>3, <1>5, <1>8, <2>1
    <2>2. CASE open(i)
      BY <1>8, <2>2
    <2>3. QED
      BY <1>6, <2>1, <2>2
  <1>14. QED
    BY <1>9, <1>10, <1>11, <1>12, <1>13

\* Reservations and proposals of e are as its event says.
StayFollows(e) ==
  reservations[e] # None =>
    IF reservations[e].status = "active"
    THEN Stays!IsActive(events[e]) /\ reservations[e].stay = events[e].stay
    ELSE Stays!IsActive(events[e]) => Stays!Merged(e)

WorkFollows(e) ==
  reservations[e] # None =>
    \A k \in Stays!Kind :
      /\ proposals[<<e, k>>] # None
      /\ IF reservations[e].status = "active"
         THEN proposals[<<e, k>>] = Stays!UpsertProposal(reservations[e], k)
         ELSE proposals[<<e, k>>].status = "cancelled"

LEMMA EachFollows ==
  /\ Stays!ReservationsFollowEvents <=> \A e \in Booking : e \notin raced => StayFollows(e)
  /\ Stays!ProposalsFollowReservations <=> \A e \in Booking : e \notin raced => WorkFollows(e)
  BY DEF Stays!ReservationsFollowEvents, Stays!ProposalsFollowReservations, StayFollows, WorkFollows, Booking

\* The end of an ingest: it stores what it derived from what it had read.
LEMMA Committed ==
  ASSUME CalendarInv, NEW c \in Client, Stays!Commit(c)
  PROVE  CalendarInv'
  <1>1. PICK feed, seen, new, wrote :
          feed = pc[c].feed /\ seen = pc[c].seen /\ new = pc[c].new /\ wrote = pc[c].wrote
    OBVIOUS
  <1>2. PICK issues : issues = Stays!DetectIssues(seen)
    OBVIOUS
  <1>3. PICK excs : excs = Stays!InsertException(exceptions, {Stays!ExceptionOf(i) : i \in issues})
    OBVIOUS
  <1>4. /\ pc[c].op = "synced" /\ pc' = [pc EXCEPT ![c] = Stays!Idle]
        /\ events' = [e \in Stays!Event |-> IF e[1] = feed THEN seen[e] ELSE events[e]]
        /\ reservations' = [e \in Stays!Event |-> IF e \in wrote THEN new[e] ELSE reservations[e]]
        /\ conflicts' = Stays!syncConflicts(issues, excs)
        /\ proposals' = Stays!SyncedProposals(new)
        /\ raced' = {e \in Stays!Stale(events, seen) : e[1] # feed} \union Stays!Stale(reservations', new)
        /\ resolutions' = resolutions
    BY <1>1, <1>2, <1>3 DEF Stays!Commit, Stays!Done
  <1>5. CalendarFits(pc[c], events, proposals) /\ Booked /\ Disputed /\ Stays!DecidedOnce
    BY DEF CalendarInv
  <1>6. /\ seen \in Events /\ new \in Reservations
        /\ \A e \in Booking : /\ seen[e] = None /\ e[1] = feed => events[e] = None
                              /\ seen[e] # None => e[1] = feed \/ events[e] # None
        /\ \A e \in Booking : new[e] # None =>
             /\ seen[e] = None => events[e] # None
             /\ Stays!IsActive(seen[e]) => new[e].status = "active" /\ new[e].stay = seen[e].stay
             /\ seen[e] # None /\ ~Stays!IsActive(seen[e]) => new[e].status = "cancelled"
             /\ new[e].status # "active" => \A k \in Stays!Kind : proposals[<<e, k>>] # None
    BY <1>1, <1>4, <1>5 DEF CalendarFits, Ingests, Reads, Follows
  <1>7. /\ events' = [e \in Booking |-> IF e[1] = feed THEN seen[e] ELSE events[e]]
        /\ reservations' = [e \in Booking |-> IF e \in wrote THEN new[e] ELSE reservations[e]]
    BY <1>4 DEF Booking
  <1>8. /\ proposals' \in Proposals
        /\ \A e \in Booking, k \in Stays!Kind :
             /\ proposals[<<e, k>>] # None => proposals'[<<e, k>>] # None
             /\ new[e] # None /\ new[e].status = "active" =>
                  proposals'[<<e, k>>] # None /\ proposals'[<<e, k>>] = Stays!UpsertProposal(new[e], k)
             /\ new[e] # None /\ new[e].status # "active" /\ proposals[<<e, k>>] # None =>
                  proposals'[<<e, k>>].status = "cancelled"
    <2>1. PICK P : P = Stays!SyncedProposals(new)
      OBVIOUS
    <2>2. proposals \in Proposals
      BY <1>5 DEF Booked
    <2>3. /\ P \in Proposals
          /\ \A e \in Booking, k \in Stays!Kind :
               /\ proposals[<<e, k>>] # None => P[<<e, k>>] # None
               /\ new[e] # None /\ new[e].status = "active" =>
                    P[<<e, k>>] # None /\ P[<<e, k>>] = Stays!UpsertProposal(new[e], k)
               /\ new[e] # None /\ new[e].status # "active" /\ proposals[<<e, k>>] # None =>
                    P[<<e, k>>].status = "cancelled"
      BY <1>6, <2>1, <2>2, Proposed
    <2>4. proposals' = P
      BY <1>4, <2>1
    <2>5. QED
      BY <2>3, <2>4
  <1>9. events' \in Events /\ reservations' \in Reservations
    BY <1>5, <1>6, <1>7 DEF Booked, Events, Reservations
  <1>10. \A e \in Booking : events[e] # None => events'[e] # None
    BY <1>6, <1>7
  <1>11. ASSUME NEW e \in Booking, reservations'[e] # None
         PROVE  events'[e] # None /\ \A k \in Stays!Kind : proposals'[<<e, k>>] # None
    <2>1. CASE e \in wrote
      <3>1. reservations'[e] = new[e] /\ new[e] # None
        BY <1>7, <1>11, <2>1
      <3>2. events'[e] # None
        BY <1>6, <1>7, <3>1
      <3>3. \A k \in Stays!Kind : proposals'[<<e, k>>] # None
        BY <1>6, <1>8, <3>1
      <3>4. QED
        BY <3>2, <3>3
    <2>2. CASE e \notin wrote
      <3>1. reservations[e] # None
        BY <1>7, <1>11, <2>2
      <3>2. QED
        BY <1>5, <1>8, <1>10, <3>1 DEF Booked
    <2>3. QED
      BY <2>1, <2>2
  <1>12. Booked'
    BY <1>8, <1>9, <1>11 DEF Booked
  <1>13. /\ Disputed' /\ Stays!DecidedOnce'
         /\ ConflictsKept(conflicts, resolutions, conflicts', resolutions')
         /\ \A i \in issues : \E n \in DOMAIN conflicts' :
              conflicts'[n].kind = i.kind /\ conflicts'[n].key = Stays!KeyOf(i)
    <2>1. IsFiniteSet(issues)
      BY <1>2, IssuesAreFinite
    <2>2. QED
      BY <1>4, <1>5, <2>1, ConflictsSynced
  <1>14. ASSUME NEW e \in Booking, e \notin raced'
         PROVE  events'[e] = seen[e] /\ reservations'[e] = new[e]
    <2>1. e \notin Stays!Stale(reservations', new) /\ (e[1] = feed \/ e \notin Stays!Stale(events, seen))
      BY <1>4, <1>14
    <2>2. reservations'[e] = new[e] /\ (e[1] = feed \/ events[e] = seen[e])
      BY <2>1 DEF Stays!Stale, Booking
    <2>3. QED
      BY <1>7, <2>2
  <1>15. ASSUME NEW e \in Booking, e \notin raced'
         PROVE  StayFollows(e)'
    <2>1. events'[e] = seen[e] /\ reservations'[e] = new[e]
      BY <1>14, <1>15
    <2>2. new[e] # None => seen[e] # None
      BY <1>6, <1>10, <2>1
    <2>3. new[e] # None => IF new[e].status = "active" THEN Stays!IsActive(seen[e]) /\ new[e].stay = seen[e].stay
                           ELSE ~Stays!IsActive(seen[e])
      BY <1>6, <2>2
    <2>4. Stays!IsActive(events[e])' <=> Stays!IsActive(seen[e])
      BY <2>1 DEF Stays!IsActive
    <2>5. QED
      BY <2>1, <2>3, <2>4 DEF StayFollows
  <1>16. ASSUME NEW e \in Booking, e \notin raced'
         PROVE  WorkFollows(e)'
    <2>1. reservations'[e] = new[e]
      BY <1>14, <1>16
    <2>2. QED
      BY <1>6, <1>8, <2>1 DEF WorkFollows, Stays!UpsertProposal, Stays!ScheduledAt
  <1>17. Stays!ReservationsFollowEvents' /\ Stays!ProposalsFollowReservations'
    BY <1>15, <1>16 DEF Stays!ReservationsFollowEvents, Stays!ProposalsFollowReservations, StayFollows, WorkFollows, Booking
  <1>18. ASSUME NEW a \in Booking, NEW b \in Booking, a \notin raced', b \notin raced', Stays!DoubleBooked(a, b)'
         PROVE  Stays!Reported(a, b)'
    <2>1. events'[a] = seen[a] /\ events'[b] = seen[b]
      BY <1>14, <1>18
    <2>2. /\ a # b /\ Stays!IsActive(seen[a]) /\ Stays!IsActive(seen[b])
          /\ Stays!overlaps(seen[a].stay, seen[b].stay)
      BY <1>18, <2>1 DEF Stays!DoubleBooked, Stays!IsActive, Stays!overlaps
    <2>3. seen[a].stay \in Stay /\ seen[b].stay \in Stay
      <3>1. seen[a] \in Event /\ seen[b] \in Event
        BY <1>6, <2>2 DEF Events, Stays!IsActive
      <3>2. QED
        BY <3>1, RowsAreNotNull
    <2>4. PICK i \in issues : i.kind = "overlap" /\ Stays!KeyOf(i) = {a, b}
      BY <1>2, <2>2, <2>3, OverlapDetected
    <2>5. QED
      BY <1>13, <2>4 DEF Stays!Reported
  <1>19. Stays!OverlapsReported'
    BY <1>18 DEF Stays!OverlapsReported, Booking
  <1>20. /\ DOMAIN pc' = Client /\ HoldFeeds'
         /\ \A d \in Client : CalendarFits(pc'[d], events', proposals')
    <2>1. RowsKept(events, proposals, events', proposals')
      BY <1>8, <1>10 DEF RowsKept
    <2>2. ASSUME NEW d \in Client, NEW e \in Booking, d # c, Ingests(pc[d]), e[1] = pc[d].feed
          PROVE  events'[e] = events[e]
      <3>1. Ingests(pc[c])
        BY <1>4 DEF Ingests
      <3>2. pc[d].feed # feed
        BY <1>1, <2>2, <3>1 DEF CalendarInv, HoldFeeds
      <3>3. QED
        BY <1>7, <2>2, <3>2
    <2>3. CalendarFits(Stays!Idle, events', proposals') /\ ~Ingests(Stays!Idle)
      BY DEF CalendarFits, Ingests, Stays!Idle
    <2>4. QED
      BY <1>4, <2>1, <2>2, <2>3, OthersFit
  <1>21. QED
    BY <1>12, <1>13, <1>17, <1>19, <1>20 DEF CalendarInv

\* A conflict is decided: a merge cancels every stay but the primary one.
LEMMA Decided ==
  ASSUME CalendarInv, NEW n \in DOMAIN conflicts, NEW outcome, Stays!ResolveConflict(n, outcome), pc' = pc
  PROVE  CalendarInv'
  <1>1. PICK merged : merged = IF outcome = "merge" THEN Stays!applyMerge(conflicts[n]) ELSE {}
    OBVIOUS
  <1>2. PICK decision : decision = [conflict |-> n, outcome |-> outcome]
    OBVIOUS
  <1>3. PICK resolved : resolved = [conflicts[n] EXCEPT !.status = "resolved"]
    OBVIOUS
  <1>4. /\ conflicts[n].status = "open"
        /\ conflicts' = [conflicts EXCEPT ![n] = resolved]
        /\ reservations' = [e \in Booking |-> IF e \in merged THEN Stays!SetReservationCancelled(reservations[e])
                                              ELSE reservations[e]]
        /\ proposals' = [p \in Booking \X Stays!Kind |-> IF p[1] \in merged THEN Stays!CancelProposal(proposals[p])
                                                         ELSE proposals[p]]
        /\ resolutions' = Append(resolutions, decision)
        /\ UNCHANGED <<events, raced>>
    BY <1>1, <1>2, <1>3 DEF Stays!ResolveConflict, Stays!MarkConflictResolved, Booking
  <1>5. Booked /\ Disputed /\ Stays!DecidedOnce
    BY DEF CalendarInv
  <1>6. IsConflict(conflicts[n])
    BY <1>5 DEF Disputed
  <1>7. /\ resolved.kind = conflicts[n].kind /\ resolved.key = conflicts[n].key
        /\ resolved.primary = conflicts[n].primary /\ resolved.status = "resolved" /\ IsConflict(resolved)
    BY <1>3, <1>6 DEF IsConflict
  <1>8. /\ IsTable(conflicts') /\ DOMAIN conflicts' = DOMAIN conflicts
        /\ \A m \in DOMAIN conflicts : conflicts'[m] = IF m = n THEN resolved ELSE conflicts[m]
    BY <1>4, <1>5, TableUpdated DEF Disputed
  <1>9. /\ IsTable(resolutions') /\ DOMAIN resolutions' = DOMAIN resolutions \union {Len(resolutions) + 1}
        /\ Len(resolutions) + 1 \notin DOMAIN resolutions
        /\ \A r \in DOMAIN resolutions : resolutions'[r] = resolutions[r]
        /\ resolutions'[Len(resolutions) + 1] = decision
    BY <1>4, <1>5, TableInserted DEF Disputed
  <1>10. decision.conflict = n /\ decision.outcome = outcome
    BY <1>2
  <1>11. Disputed'
    BY <1>5, <1>7, <1>8, <1>9, <1>10 DEF Disputed
  <1>12. ConflictsKept(conflicts, resolutions, conflicts', resolutions')
    BY <1>7, <1>8, <1>9 DEF ConflictsKept
  <1>13. Stays!DecidedOnce'
    <2> DEFINE last == Len(resolutions) + 1
    <2>1. ASSUME NEW m \in DOMAIN conflicts, m # n
          PROVE  Stays!Decisions(m)' = Stays!Decisions(m)
      BY <1>9, <1>10, <2>1 DEF Stays!Decisions
    <2>2. Stays!Decisions(n) = {}
      BY <1>4, <1>5 DEF Stays!DecidedOnce
    <2>3. Stays!Decisions(n)' = {last}
      BY <1>9, <1>10, <2>2 DEF Stays!Decisions
    <2> HIDE DEF last
    <2>4. ASSUME NEW m \in DOMAIN conflicts
          PROVE  IF conflicts'[m].status = "open" THEN Stays!Decisions(m)' = {}
                 ELSE \E r \in Stays!Decisions(m)' : Stays!Decisions(m)' = {r}
      <3>1. CASE m = n
        BY <1>7, <1>8, <2>3, <3>1
      <3>2. CASE m # n
        <4>1. conflicts'[m] = conflicts[m] /\ Stays!Decisions(m)' = Stays!Decisions(m)
          BY <1>8, <2>1, <3>2
        <4>2. QED
          BY <1>5, <4>1 DEF Stays!DecidedOnce
      <3>3. QED
        BY <3>1, <3>2
    <2>5. QED
      BY <1>8, <2>4 DEF Stays!DecidedOnce
  <1>14. ASSUME NEW e \in Booking
         PROVE  /\ e \notin merged => reservations'[e] = reservations[e]
                /\ e \in merged /\ reservations[e] = None => reservations'[e] = None
                /\ e \in merged /\ reservations[e] # None =>
                     /\ reservations[e].status = "active"
                     /\ reservations'[e] \in Reservation /\ reservations'[e].status = "cancelled"
    <2>1. PICK row : row = [reservations[e] EXCEPT !.status = "cancelled"]
      OBVIOUS
    <2>2. reservations'[e] = IF e \in merged THEN IF reservations[e] = None THEN None ELSE row ELSE reservations[e]
      BY <1>4, <2>1 DEF Stays!SetReservationCancelled
    <2>3. reservations[e] # None => row \in Reservation /\ row.status = "cancelled"
      BY <1>5, <2>1 DEF Booked, Reservations, Reservation
    <2>4. e \in merged => reservations[e].status = "active"
      BY <1>1 DEF Stays!applyMerge
    <2>5. QED
      BY <2>2, <2>3, <2>4
  <1>15. ASSUME NEW e \in Booking, NEW k \in Stays!Kind
         PROVE  /\ e \notin merged => proposals'[<<e, k>>] = proposals[<<e, k>>]
                /\ proposals'[<<e, k>>] \in Proposal \union {None}
                /\ proposals[<<e, k>>] # None =>
                     /\ proposals'[<<e, k>>] # None
                     /\ e \in merged => proposals'[<<e, k>>].status = "cancelled"
    <2>1. PICK p : p = <<e, k>>
      OBVIOUS
    <2>2. PICK row : row = [proposals[p] EXCEPT !.status = "cancelled"]
      OBVIOUS
    <2>3. p \in Booking \X Stays!Kind /\ p[1] = e
      BY <2>1
    <2>4. proposals'[p] = IF e \in merged THEN IF proposals[p] = None THEN None ELSE row ELSE proposals[p]
      BY <1>4, <2>2, <2>3 DEF Stays!CancelProposal
    <2>5. proposals[p] \in Proposal \union {None}
      BY <1>5, <2>3 DEF Booked, Proposals
    <2>6. proposals[p] # None => row \in Proposal /\ row.status = "cancelled" /\ row # None
      <3>1. proposals[p] # None => row \in Proposal /\ row.status = "cancelled"
        BY <2>2, <2>5 DEF Proposal
      <3>2. QED
        BY <3>1, RowsAreNotNull
    <2>7. QED
      BY <2>1, <2>4, <2>5, <2>6
  <1>16. Booked'
    <2>1. reservations' \in Reservations
      <3>1. \A e \in Booking : reservations'[e] \in Reservation \union {None}
        BY <1>5, <1>14 DEF Booked, Reservations
      <3>2. QED
        BY <1>4, <3>1 DEF Reservations
    <2>2. proposals' \in Proposals
      <3>1. \A p \in Booking \X Stays!Kind : proposals'[p] \in Proposal \union {None}
        <4> TAKE p \in Booking \X Stays!Kind
        <4>1. p = <<p[1], p[2]>> /\ p[1] \in Booking /\ p[2] \in Stays!Kind
          OBVIOUS
        <4>2. proposals'[<<p[1], p[2]>>] \in Proposal \union {None}
          BY <1>15, <4>1
        <4>3. QED
          BY <4>1, <4>2
      <3>2. QED
        BY <1>4, <3>1 DEF Proposals
    <2>3. \A e \in Booking : reservations'[e] # None => reservations[e] # None
      BY <1>14
    <2>4. QED
      BY <1>4, <1>5, <1>15, <2>1, <2>2, <2>3 DEF Booked
  <1>17. \A e : Stays!Merged(e) => Stays!Merged(e)'
    BY <1>5, <1>12, StillMerged
  <1>18. ASSUME NEW e \in merged
         PROVE  Stays!Merged(e)'
    <2>1. outcome = "merge" /\ e \in conflicts[n].key \ {conflicts[n].primary}
      BY <1>1 DEF Stays!applyMerge
    <2>2. /\ Len(resolutions) + 1 \in DOMAIN resolutions'
          /\ resolutions'[Len(resolutions) + 1].outcome = "merge"
          /\ resolutions'[Len(resolutions) + 1].conflict = n
          /\ conflicts'[n].key = conflicts[n].key /\ conflicts'[n].primary = conflicts[n].primary
      BY <1>7, <1>8, <1>9, <1>10, <2>1
    <2>3. QED
      BY <2>1, <2>2 DEF Stays!Merged
  <1>19. ASSUME NEW e \in Booking, e \notin raced
         PROVE  StayFollows(e)' /\ WorkFollows(e)'
    <2>1. StayFollows(e) /\ WorkFollows(e)
      BY <1>19, EachFollows DEF CalendarInv
    <2>2. Stays!IsActive(events[e])' <=> Stays!IsActive(events[e])
      BY <1>4 DEF Stays!IsActive
    <2>3. CASE e \in merged
      <3>1. reservations'[e] # None => reservations'[e].status = "cancelled" /\ reservations[e] # None
        BY <1>14, <2>3
      <3>2. StayFollows(e)'
        BY <1>18, <2>3, <3>1 DEF StayFollows
      <3>3. WorkFollows(e)'
        BY <1>5, <1>15, <2>3, <3>1 DEF WorkFollows, Booked
      <3>4. QED
        BY <3>2, <3>3
    <2>4. CASE e \notin merged
      <3>1. reservations'[e] = reservations[e] /\ \A k \in Stays!Kind : proposals'[<<e, k>>] = proposals[<<e, k>>]
        BY <1>14, <1>15, <2>4
      <3>2. StayFollows(e)'
        BY <1>4, <1>17, <2>1, <2>2, <3>1 DEF StayFollows
      <3>3. WorkFollows(e)'
        BY <2>1, <3>1 DEF WorkFollows, Stays!UpsertProposal, Stays!ScheduledAt
      <3>4. QED
        BY <3>2, <3>3
    <2>5. QED
      BY <2>3, <2>4
  <1>20. Stays!ReservationsFollowEvents' /\ Stays!ProposalsFollowReservations'
    BY <1>4, <1>19 DEF Stays!ReservationsFollowEvents, Stays!ProposalsFollowReservations, StayFollows, WorkFollows, Booking
  <1>21. Stays!OverlapsReported'
    <2>1. \A a, b : Stays!Reported(a, b) => Stays!Reported(a, b)'
      BY <1>5, <1>12, StillMerged
    <2>2. \A a, b : Stays!DoubleBooked(a, b)' => Stays!DoubleBooked(a, b)
      BY <1>4 DEF Stays!DoubleBooked, Stays!IsActive, Stays!overlaps
    <2>3. QED
      BY <1>4, <2>1, <2>2 DEF CalendarInv, Stays!OverlapsReported
  <1>22. ASSUME NEW d \in Client
         PROVE  CalendarFits(pc[d], events, proposals')
    <2>1. PICK P2 : P2 = proposals'
      OBVIOUS
    <2>2. RowsKept(events, proposals, events, P2)
      BY <1>15, <2>1 DEF RowsKept
    <2>3. CalendarFits(pc[d], events, P2)
      BY <2>2, CalendarFitsStays DEF CalendarInv
    <2>4. QED
      BY <2>1, <2>3
  <1>23. QED
    BY <1>4, <1>11, <1>13, <1>16, <1>20, <1>21, <1>22 DEF CalendarInv, HoldFeeds

\* Proposals are generated from reservations read before.
LEMMA Generated ==
  ASSUME CalendarInv, NEW c \in Client, pc[c].op = "generate", Stays!Done(c),
         proposals' = Stays!SyncedProposals(pc[c].seen),
         raced' = raced \union Stays!Stale(reservations, pc[c].seen),
         UNCHANGED <<events, reservations, conflicts, resolutions>>
  PROVE  CalendarInv'
  <1>1. PICK seen : seen = pc[c].seen
    OBVIOUS
  <1>2. seen \in Reservations /\ Booked
    BY <1>1 DEF CalendarInv, CalendarFits
  <1>3. PICK P : P = Stays!SyncedProposals(seen)
    OBVIOUS
  <1>4. proposals' = P /\ raced' = raced \union Stays!Stale(reservations, seen) /\ pc' = [pc EXCEPT ![c] = Stays!Idle]
    BY <1>1, <1>3 DEF Stays!Done
  <1>5. /\ P \in Proposals
        /\ \A e \in Booking, k \in Stays!Kind :
             /\ proposals[<<e, k>>] # None => P[<<e, k>>] # None
             /\ seen[e] # None /\ seen[e].status = "active" =>
                  P[<<e, k>>] # None /\ P[<<e, k>>] = Stays!UpsertProposal(seen[e], k)
             /\ seen[e] # None /\ seen[e].status # "active" /\ proposals[<<e, k>>] # None =>
                  P[<<e, k>>].status = "cancelled"
    BY <1>2, <1>3, Proposed DEF Booked
  <1>6. Booked'
    BY <1>2, <1>4, <1>5 DEF Booked
  <1>7. Disputed'
    BY DEF CalendarInv, Disputed
  <1>8. ASSUME NEW e \in Booking, e \notin raced'
        PROVE  StayFollows(e)' /\ WorkFollows(e)'
    <2>1. e \notin raced /\ reservations[e] = seen[e]
      BY <1>4, <1>8 DEF Stays!Stale, Booking
    <2>2. StayFollows(e)
      BY <2>1, EachFollows DEF CalendarInv
    <2>3. Stays!IsActive(events[e])' <=> Stays!IsActive(events[e])
      BY DEF Stays!IsActive
    <2>4. Stays!Merged(e)' <=> Stays!Merged(e)
      BY DEF Stays!Merged
    <2>5. StayFollows(e)'
      BY <2>2, <2>3, <2>4 DEF StayFollows
    <2>6. \A k \in Stays!Kind : reservations[e] # None => proposals[<<e, k>>] # None
      BY <1>2 DEF Booked
    <2>7. WorkFollows(e)'
      BY <1>4, <1>5, <2>1, <2>6 DEF WorkFollows, Stays!UpsertProposal, Stays!ScheduledAt
    <2>8. QED
      BY <2>5, <2>7
  <1>9. Stays!ReservationsFollowEvents' /\ Stays!ProposalsFollowReservations'
    BY <1>8 DEF Stays!ReservationsFollowEvents, Stays!ProposalsFollowReservations, StayFollows, WorkFollows, Booking
  <1>10. Stays!OverlapsReported' /\ Stays!DecidedOnce'
    BY <1>4, SettledStay DEF CalendarInv
  <1>11. RowsKept(events, proposals, events', proposals')
    BY <1>4, <1>5 DEF RowsKept
  <1>12. CalendarFits(Stays!Idle, events', proposals') /\ ~Ingests(Stays!Idle)
    BY DEF CalendarFits, Ingests, Stays!Idle
  <1>13. /\ DOMAIN pc' = Client /\ HoldFeeds'
         /\ \A d \in Client : CalendarFits(pc'[d], events', proposals')
    BY <1>4, <1>11, <1>12, OthersFit
  <1>14. QED
    BY <1>6, <1>7, <1>9, <1>10, <1>13 DEF CalendarInv

LEMMA CalendarStepped ==
  ASSUME CalendarInv, Stays!Next
  PROVE  CalendarInv'
  <1>1. ASSUME UNCHANGED <<pc, events, reservations, conflicts, resolutions, proposals, raced>>
        PROVE  CalendarInv'
    <2>1. Booked' /\ Disputed' /\ HoldFeeds'
      BY <1>1 DEF CalendarInv, Booked, Disputed, HoldFeeds
    <2>2. Stays!ReservationsFollowEvents' /\ Stays!ProposalsFollowReservations'
      BY <1>1 DEF CalendarInv, Stays!ReservationsFollowEvents, Stays!ProposalsFollowReservations, Stays!Merged
    <2>3. Stays!OverlapsReported' /\ Stays!DecidedOnce'
      BY <1>1 DEF CalendarInv, Stays!OverlapsReported, Stays!DoubleBooked, Stays!Reported, Stays!DecidedOnce,
                  Stays!Decisions
    <2>4. QED
      BY <1>1, <2>1, <2>2, <2>3 DEF CalendarInv
  <1>2. ASSUME NEW f \in Feed,
               Stays!handleCreateFeed(f) \/ Stays!handleSetFeedStatus(f) \/ Stays!GoStale(f)
        PROVE  CalendarInv'
    <2>1. UNCHANGED <<pc, events, reservations, conflicts, resolutions, proposals, raced>>
      BY <1>2 DEF Stays!handleCreateFeed, Stays!CreateFeed, Stays!handleSetFeedStatus, Stays!SetFeedStatus,
                  Stays!GoStale, Stays!Served
    <2>2. QED
      BY <1>1, <2>1
  <1>3. ASSUME NEW n \in DOMAIN exceptions, Stays!handleResolveException(n)
        PROVE  CalendarInv'
    <2>1. UNCHANGED <<pc, events, reservations, conflicts, resolutions, proposals, raced>>
      BY <1>3 DEF Stays!handleResolveException, Stays!ResolveException, Stays!Served
    <2>2. QED
      BY <1>1, <2>1
  <1>4. ASSUME NEW n \in DOMAIN conflicts, Stays!handleResolveConflict(n)
        PROVE  CalendarInv'
    BY <1>4, Decided DEF Stays!handleResolveConflict, Stays!Served
  <1>5. ASSUME NEW c \in Client, NEW f \in Feed, Stays!handlePollFeed(c, f)
        PROVE  CalendarInv'
    <2> DEFINE frame == [op |-> "poll", feed |-> f]
    <2>1. /\ pc' = [pc EXCEPT ![c] = frame]
          /\ UNCHANGED <<events, reservations, conflicts, resolutions, proposals, raced>>
      BY <1>5 DEF Stays!handlePollFeed, Stays!Begin, Stays!tables
    <2>2. CalendarFits(frame, events, proposals) /\ ~Ingests(frame)
      BY DEF CalendarFits, Ingests
    <2> HIDE DEF frame
    <2>3. QED
      BY <2>1, <2>2, CalendarGoes
  <1>6. ASSUME NEW c \in Client,
               Stays!recordFeedFailure(c) \/ Stays!IngestUnchanged(c) \/ Stays!ScanStaleFeeds(c) \/ Stays!Abandon(c)
        PROVE  CalendarInv'
    <2>1. Stays!Done(c) /\ UNCHANGED <<events, reservations, conflicts, resolutions, proposals, raced>>
      BY <1>6 DEF Stays!recordFeedFailure, Stays!IngestUnchanged, Stays!ScanStaleFeeds, Stays!Abandon, Stays!tables
    <2>2. QED
      BY <2>1, CalendarEnds
  <1>7. ASSUME NEW c \in Client, Stays!IngestContent(c)
        PROVE  CalendarInv'
    <2>1. PICK f : f = pc[c].feed
      OBVIOUS
    <2>2. pc[c].op = "poll" /\ Stays!Unlocked(f) /\ UNCHANGED <<events, reservations, conflicts, resolutions, proposals, raced>>
      BY <1>7, <2>1 DEF Stays!IngestContent, Stays!tables
    <2>3. PICK content \in Content[f] :
            pc' = [pc EXCEPT ![c] =
                     [op |-> "ingest", feed |-> f, content |-> content,
                      seen |-> Stays!MarkMissingEventsCancelled(Stays!UpsertEvents(events, f, content), f, content)]]
      BY <1>7, <2>1 DEF Stays!IngestContent
    <2>4. PICK seen : seen = Stays!MarkMissingEventsCancelled(Stays!UpsertEvents(events, f, content), f, content)
      OBVIOUS
    <2> DEFINE frame == [op |-> "ingest", feed |-> f, content |-> content, seen |-> seen]
    <2>5. f \in Feed /\ events \in Events
      BY <2>1, <2>2 DEF CalendarInv, CalendarFits, Booked
    <2>6. content \in SUBSET Listed
      BY <2>5, ContentIsListed
    <2>7. /\ seen \in Events
          /\ \A e \in Booking : seen[e] = None => events[e] = None
          /\ \A e \in Booking : e[1] # f => seen[e] = events[e]
      BY <2>4, <2>5, <2>6, Ingested
    <2>8. frame.op = "ingest" /\ frame.feed = f /\ frame.seen = seen
      OBVIOUS
    <2>9. pc' = [pc EXCEPT ![c] = frame]
      BY <2>3, <2>4
    <2> HIDE DEF frame
    <2>10. Reads(frame, events)
      BY <2>7, <2>8 DEF Reads
    <2>11. CalendarFits(frame, events, proposals)
      BY <2>5, <2>8, <2>10 DEF CalendarFits, Ingests
    <2>12. \A d \in Client : d # c /\ Ingests(pc[d]) => pc[d].feed # frame.feed
      BY <2>2, <2>8 DEF Stays!Unlocked, Ingests
    <2>13. QED
      BY <2>2, <2>9, <2>11, <2>12, CalendarGoes
  <1>8. ASSUME NEW c \in Client, Stays!syncReservations(c)
        PROVE  CalendarInv'
    <2>1. PICK f : f = pc[c]
      OBVIOUS
    <2>2. PICK new : new = [e \in Stays!Event |-> Stays!SyncedReservation(reservations[e], f.seen[e])]
      OBVIOUS
    <2>3. PICK wrote : wrote = Stays!Stale(reservations, new)
      OBVIOUS
    <2> DEFINE frame == [op |-> "synced", feed |-> f.feed, content |-> f.content, seen |-> f.seen, new |-> new, wrote |-> wrote]
    <2>4. /\ f.op = "ingest" /\ pc' = [pc EXCEPT ![c] = frame]
          /\ UNCHANGED <<events, reservations, conflicts, resolutions, proposals, raced>>
      BY <1>8, <2>1, <2>2, <2>3 DEF Stays!syncReservations, Stays!tables
    <2>5. f.feed \in Feed /\ Reads(f, events) /\ Booked
      BY <2>1, <2>4 DEF CalendarInv, CalendarFits, Ingests
    <2>6. frame.op = "synced" /\ frame.feed = f.feed /\ frame.seen = f.seen /\ frame.new = new
      OBVIOUS
    <2> HIDE DEF frame
    <2>7. ASSUME NEW e \in Booking
          PROVE  /\ new[e] \in Reservation \union {None}
                 /\ new[e] # None =>
                      /\ f.seen[e] = None => events[e] # None
                      /\ Stays!IsActive(f.seen[e]) => new[e].status = "active" /\ new[e].stay = f.seen[e].stay
                      /\ f.seen[e] # None /\ ~Stays!IsActive(f.seen[e]) => new[e].status = "cancelled"
                      /\ new[e].status # "active" => \A k \in Stays!Kind : proposals[<<e, k>>] # None
      <3>1. PICK row, event, r : row = reservations[e] /\ event = f.seen[e] /\ r = Stays!SyncedReservation(row, event)
        OBVIOUS
      <3>2. new[e] = r
        BY <2>2, <3>1 DEF Booking
      <3>3. row \in Reservation \union {None} /\ event \in Event \union {None}
        BY <2>5, <3>1 DEF Booked, Reads, Reservations, Events
      <3>4. /\ r \in Reservation \union {None}
            /\ event = None => r = row
            /\ Stays!IsActive(event) => r # None /\ r.status = "active" /\ r.stay = event.stay
            /\ event # None /\ ~Stays!IsActive(event) /\ r # None => row # None /\ r.status = "cancelled"
        BY <3>1, <3>3, Synced
      <3>5. row # None => events[e] # None /\ \A k \in Stays!Kind : proposals[<<e, k>>] # None
        BY <2>5, <3>1 DEF Booked
      <3>6. QED
        BY <3>1, <3>2, <3>4, <3>5
    <2>8. new \in Reservations
      BY <2>2, <2>7 DEF Reservations, Booking
    <2>9. Follows(frame, events, proposals) /\ Reads(frame, events)
      BY <2>5, <2>6, <2>7, <2>8 DEF Follows, Reads
    <2>10. CalendarFits(frame, events, proposals)
      BY <2>5, <2>6, <2>9 DEF CalendarFits, Ingests
    <2>11. \A d \in Client : d # c /\ Ingests(pc[d]) => pc[d].feed # frame.feed
      BY <2>1, <2>4, <2>6 DEF CalendarInv, HoldFeeds, Ingests
    <2>12. QED
      BY <2>4, <2>10, <2>11, CalendarGoes
  <1>9. ASSUME NEW c \in Client, Stays!ListActiveFeeds(c)
        PROVE  CalendarInv'
    <2>1. PICK frame : frame.op = "scan" /\ pc' = [pc EXCEPT ![c] = frame]
      BY <1>9 DEF Stays!ListActiveFeeds, Stays!Begin
    <2>2. UNCHANGED <<events, reservations, conflicts, resolutions, proposals, raced>>
      BY <1>9 DEF Stays!ListActiveFeeds, Stays!tables
    <2>3. CalendarFits(frame, events, proposals) /\ ~Ingests(frame)
      BY <2>1 DEF CalendarFits, Ingests
    <2>4. QED
      BY <2>1, <2>2, <2>3, CalendarGoes
  <1>10. ASSUME NEW c \in Client, Stays!handleGenerateProposals(c)
         PROVE  CalendarInv'
    <2>1. PICK frame : frame.op = "generate" /\ frame.seen = reservations /\ pc' = [pc EXCEPT ![c] = frame]
      BY <1>10 DEF Stays!handleGenerateProposals, Stays!Begin
    <2>2. UNCHANGED <<events, reservations, conflicts, resolutions, proposals, raced>>
      BY <1>10 DEF Stays!handleGenerateProposals, Stays!tables
    <2>3. CalendarFits(frame, events, proposals) /\ ~Ingests(frame)
      BY <2>1 DEF CalendarInv, Booked, CalendarFits, Ingests
    <2>4. QED
      BY <2>1, <2>2, <2>3, CalendarGoes
  <1>11. ASSUME NEW c \in Client, Stays!GenerateTurnoverProposals(c)
         PROVE  CalendarInv'
    <2>1. /\ pc[c].op = "generate" /\ Stays!Done(c) /\ UNCHANGED <<events, reservations, conflicts, resolutions>>
          /\ \/ UNCHANGED <<proposals, raced>>
             \/ /\ proposals' = Stays!SyncedProposals(pc[c].seen)
                /\ raced' = raced \union Stays!Stale(reservations, pc[c].seen)
      BY <1>11 DEF Stays!GenerateTurnoverProposals
    <2>2. QED
      BY <2>1, CalendarEnds, Generated
  <1>12. QED
    BY <1>2, <1>3, <1>4, <1>5, <1>6, <1>7, <1>8, <1>9, <1>10, <1>11, Committed DEF Stays!Next

LEMMA CalendarKept == Spec => [](part = "calendar" => CalendarInv)
  <1> DEFINE Inv == part = "calendar" => CalendarInv
  <1>1. Init => Inv
    <2> SUFFICES ASSUME Init
                 PROVE  CalendarInv
      OBVIOUS
    <2>1. /\ events = [e \in Booking |-> None] /\ reservations = [e \in Booking |-> None]
          /\ proposals = [p \in Booking \X Stays!Kind |-> None]
          /\ conflicts = <<>> /\ resolutions = <<>> /\ pc = [c \in Client |-> Stays!Idle]
      BY DEF Init, Stays!Init, Booking
    <2>2. Booked
      BY <2>1 DEF Booked, Events, Reservations, Proposals
    <2>3. IsTable(conflicts) /\ DOMAIN conflicts = {} /\ IsTable(resolutions) /\ DOMAIN resolutions = {}
      BY <2>1, EmptyTable
    <2>4. Disputed /\ Stays!DecidedOnce
      BY <2>3 DEF Disputed, Stays!DecidedOnce
    <2>5. Stays!ReservationsFollowEvents /\ Stays!ProposalsFollowReservations /\ Stays!OverlapsReported
      BY <2>1 DEF Stays!ReservationsFollowEvents, Stays!ProposalsFollowReservations, Stays!OverlapsReported,
                  Stays!DoubleBooked, Stays!IsActive, Booking
    <2>6. \A c \in Client : CalendarFits(pc[c], events, proposals) /\ ~Ingests(pc[c])
      BY <2>1 DEF CalendarFits, Ingests, Stays!Idle
    <2>7. QED
      BY <2>1, <2>2, <2>4, <2>5, <2>6 DEF CalendarInv, HoldFeeds
  <1>2. Inv /\ [Next]_vars => Inv'
    <2> SUFFICES ASSUME Inv, [Next]_vars, part' = "calendar"
                 PROVE  CalendarInv'
      OBVIOUS
    <2>1. part = "calendar" /\ CalendarInv /\ (Stays!Next \/ UNCHANGED <<calendar, pc, requests>>)
      BY Moves
    <2>2. CASE UNCHANGED <<calendar, pc, requests>>
      <3>1. Booked' /\ Disputed' /\ HoldFeeds'
        BY <2>1, <2>2 DEF calendar, CalendarInv, Booked, Disputed, HoldFeeds
      <3>2. Stays!ReservationsFollowEvents' /\ Stays!ProposalsFollowReservations'
        BY <2>1, <2>2 DEF calendar, CalendarInv, Stays!ReservationsFollowEvents, Stays!ProposalsFollowReservations,
                          Stays!Merged
      <3>3. Stays!OverlapsReported' /\ Stays!DecidedOnce'
        BY <2>1, <2>2, SettledStay DEF calendar, CalendarInv
      <3>4. QED
        BY <2>1, <2>2, <3>1, <3>2, <3>3 DEF calendar, CalendarInv
    <2>3. QED
      BY <2>1, <2>2, CalendarStepped
  <1>3. QED
    BY <1>1, <1>2, PTL DEF Spec

\* Outside of races every stay is what its event says, cancelled under an active event only by a
\* merge, and work is proposed for it and for no other, however polls of several feeds overlap.
THEOREM CalendarCorrect == Spec => []StaysAreServed
  <1>1. (part = "calendar" => CalendarInv) => StaysAreServed
    BY DEF StaysAreServed, CalendarInv, Stays!StaysAreServed
  <1>2. QED
    BY <1>1, CalendarKept, PTL

\* "Overlapping bookings must create exceptions": outside of races each double booking is reported
\* as a conflict, and a conflict is decided once, also by two people at the same time.
THEOREM ConflictsCorrect == Spec => []ConflictsSettled
  <1>1. (part = "calendar" => CalendarInv) => ConflictsSettled
    BY DEF ConflictsSettled, CalendarInv, Stays!ConflictsSettled
  <1>2. QED
    BY <1>1, CalendarKept, PTL
=============================================================================
