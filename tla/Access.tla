------------------------------- MODULE Access -------------------------------
(* Access to one property (internal/access): its stored secrets, the grants   *)
(* of them to a person for a window of time, holds that suspend access, the   *)
(* disclosures of a secret, and the custody ledger.  Each change and its      *)
(* custody event are one transaction; what a request checks before it opens   *)
(* that transaction is read on the pool, without a lock, and may be stale     *)
(* when the transaction commits.  The ledger is read in the order in which    *)
(* the transactions began, which need not be the order they committed in.     *)
EXTENDS Naturals, Sequences, FiniteSets

CONSTANTS None,
          Client,        \* requests the API serves at one time
          Person,
          Window,        \* the pairs <<window_start, window_end>> asked for
          MaxTime,       \* bound of the clock
          MaxRequests,   \* bound: requests served in one behaviour
          MaxRows        \* bound: rows of access_grants and of access_holds

VARIABLES secrets,       \* how many rows property_access_secrets has
          grants,        \* access_grants
          holds,         \* access_holds: the status of each, and (history) how many
                         \* custody events there were once it was placed
          disclosures,   \* access_disclosures
          custody,       \* access_custody_events, as they were committed: [type, grant,
                         \* created], no grant for what befell a hold
          now,           \* the time, as windows of grants have it
          begun,         \* how many transactions have begun, finer than that
          pc,
          requests

tables == <<secrets, grants, holds, disclosures, custody>>
vars   == <<tables, now, begun, pc, requests>>

Idle == [op |-> "idle"]
LiveStates  == {"active", "acknowledged"}
EndedStates == {"returned", "revoked"}

Init ==
  /\ secrets \in {0, 1}
  /\ grants = <<>>
  /\ holds = <<>>
  /\ disclosures = <<>>
  /\ custody = <<>>
  /\ now = 0
  /\ begun = 0
  /\ pc = [c \in Client |-> Idle]
  /\ requests = 0

Served == requests < MaxRequests /\ requests' = requests + 1 /\ UNCHANGED <<pc, now, begun>>

Begin(c, frame) ==
  /\ pc[c] = Idle
  /\ requests < MaxRequests
  /\ requests' = requests + 1
  /\ pc' = [pc EXCEPT ![c] = frame]
  /\ UNCHANGED <<now, begun>>

Done(c) == pc' = [pc EXCEPT ![c] = Idle] /\ UNCHANGED <<requests, now, begun>>

(* WithTx begins the transaction of a request that had something to look up.  *)
BeginTx(c) ==
  /\ pc[c].op \in {"grant", "disclosing"}
  /\ pc[c].begun = None
  /\ begun' = begun + 1
  /\ pc' = [pc EXCEPT ![c].begun = begun']
  /\ UNCHANGED <<tables, requests, now>>

(* These requests are nothing else than one transaction.                      *)
BeginAtOnce(c, frame) ==
  /\ pc[c] = Idle
  /\ requests < MaxRequests
  /\ requests' = requests + 1
  /\ begun' = begun + 1
  /\ pc' = [pc EXCEPT ![c] = frame]
  /\ UNCHANGED <<tables, now>>

Under(c, op) == pc[c].op = op /\ pc[c].begun # None

----------------------------------------------------------------------------
(* The statements of the store                                               *)

InsertSecret == secrets' = secrets + 1

InsertGrant(row) ==
  /\ Len(grants) < MaxRows
  /\ grants' = Append(grants, row)

IsActive(g) == grants[g].status \in LiveStates
IsWithinWindow(g, at) == grants[g].window[1] <= at /\ at < grants[g].window[2]

AcknowledgeGrant(g) ==
  /\ grants[g].status = "active"
  /\ grants' = [grants EXCEPT ![g].status = "acknowledged"]

ReturnGrant(g) ==
  /\ grants[g].status \in {"active", "acknowledged"}
  /\ grants' = [grants EXCEPT ![g].status = "returned"]

(* Whatever the status, also a second time.                                   *)
RevokeGrant(g) == grants' = [grants EXCEPT ![g].status = "revoked"]

InsertDisclosure(g, requestor, at, result) ==
  disclosures' = Append(disclosures, [grant |-> g, requestor |-> requestor, at |-> at, result |-> result])

(* created_at is NOW(), the time at which the transaction began ...           *)
InsertCustodyEvent(c, type, grant) ==
  custody' = Append(custody, [type |-> type, grant |-> grant, created |-> pc[c].begun])

(* ... and it is what ListCustodyEvents orders by, the latest event first.    *)
IsListedBefore(d, e) == custody[d].created > custody[e].created

HasActiveHold == \E h \in DOMAIN holds : holds[h].status = "active"

InsertHold ==
  /\ Len(holds) < MaxRows
  /\ holds' = Append(holds, [status |-> "active", placed |-> Len(custody) + 1])

ReleaseActiveHold(h) ==
  /\ holds[h].status = "active"
  /\ holds' = [holds EXCEPT ![h].status = "released"]

----------------------------------------------------------------------------
(* Secrets and grants                                                        *)

StoreSecret ==
  /\ secrets = 0
  /\ InsertSecret
  /\ UNCHANGED <<grants, holds, disclosures, custody>>
handleStoreSecret == Served /\ StoreSecret

NewGrant(s, grantee, window, emergency) ==
  [secret |-> s, grantee |-> grantee, window |-> window, status |-> "active", emergency |-> emergency]

(* The hold is looked up on the pool ...                                      *)
handleCreateGrant(c, s, grantee, window) ==
  /\ window[1] < window[2]
  /\ ~HasActiveHold
  /\ Begin(c, [op |-> "grant", row |-> NewGrant(s, grantee, window, FALSE), begun |-> None])
  /\ UNCHANGED tables

(* ... and the grant inserted by a transaction that does not look again.      *)
CreateGrant(c) ==
  /\ Under(c, "grant")
  /\ InsertGrant(pc[c].row)
  /\ InsertCustodyEvent(c, "issued", Len(grants'))
  /\ Done(c)
  /\ UNCHANGED <<secrets, holds, disclosures>>

(* The caller grants itself the first secret, whatever holds there are.       *)
handleEmergencyAccess(c, actor, window) ==
  /\ secrets > 0
  /\ BeginAtOnce(c, [op |-> "emergency", row |-> NewGrant(1, actor, window, TRUE), begun |-> begun'])

EmergencyAccess(c) ==
  /\ Under(c, "emergency")
  /\ InsertGrant(pc[c].row)
  /\ InsertCustodyEvent(c, "emergency_access", Len(grants'))
  /\ Done(c)
  /\ UNCHANGED <<secrets, holds, disclosures>>

----------------------------------------------------------------------------
(* Disclosure                                                                *)

(* What the grant says of a request at a time: the first reason to deny it.   *)
Verdict(g, requestor, at) ==
  CASE ~IsActive(g)                   -> "revoked"
    [] grants[g].grantee # requestor  -> "denied"
    [] ~IsWithinWindow(g, at)         -> "out_of_window"
    [] OTHER                          -> "success"

(* The time is taken once, when the request arrives.                          *)
handleDiscloseSecret(c, g, requestor) ==
  LET result == Verdict(g, requestor, now) IN
  /\ Begin(c, [op |-> IF result = "success" THEN "disclose" ELSE "record",
               grant |-> g, requestor |-> requestor, at |-> now, result |-> result, begun |-> None])
  /\ UNCHANGED tables

CheckHold(c) ==
  /\ pc[c].op = "disclose"
  /\ pc' = [pc EXCEPT ![c] = IF HasActiveHold THEN [@ EXCEPT !.op = "record", !.result = "held"]
                                              ELSE [@ EXCEPT !.op = "disclosing"]]
  /\ UNCHANGED <<tables, requests, now, begun>>

(* A denial is a row of its own, inserted on the pool ...                     *)
RecordDenial(c) ==
  /\ pc[c].op = "record"
  /\ InsertDisclosure(pc[c].grant, pc[c].requestor, pc[c].at, pc[c].result)
  /\ Done(c)
  /\ UNCHANGED <<secrets, grants, holds, custody>>

(* ... and a success one transaction with its custody event.  Neither looks   *)
(* at the grant or the holds again.                                           *)
DiscloseSecret(c) ==
  /\ Under(c, "disclosing")
  /\ InsertDisclosure(pc[c].grant, pc[c].requestor, pc[c].at, pc[c].result)
  /\ InsertCustodyEvent(c, "disclosed", pc[c].grant)
  /\ Done(c)
  /\ UNCHANGED <<secrets, grants, holds>>

----------------------------------------------------------------------------
(* The end of a grant, and holds: the transaction's update waits for the row  *)
(* and holds it until it commits                                             *)

handleGrant(c, op, g) ==
  /\ op \in {"acknowledge", "return", "revoke"}
  /\ BeginAtOnce(c, [op |-> op, grant |-> g, begun |-> begun'])

AcknowledgeAccess(c) ==
  /\ Under(c, "acknowledge")
  /\ AcknowledgeGrant(pc[c].grant)
  /\ InsertCustodyEvent(c, "acknowledged", pc[c].grant)
  /\ Done(c)
  /\ UNCHANGED <<secrets, holds, disclosures>>

ReturnAccess(c) ==
  /\ Under(c, "return")
  /\ ReturnGrant(pc[c].grant)
  /\ InsertCustodyEvent(c, "returned", pc[c].grant)
  /\ Done(c)
  /\ UNCHANGED <<secrets, holds, disclosures>>

(* A fault: a grant that had ended already is revoked without an event.       *)
RevokeQuietly(c) ==
  /\ Under(c, "revoke")
  /\ RevokeGrant(pc[c].grant)
  /\ IF IsActive(pc[c].grant) THEN InsertCustodyEvent(c, "revoked", pc[c].grant) ELSE UNCHANGED custody
  /\ Done(c)
  /\ UNCHANGED <<secrets, holds, disclosures>>

RevokeAccess(c) ==
  /\ Under(c, "revoke")
  /\ RevokeGrant(pc[c].grant)
  /\ InsertCustodyEvent(c, "revoked", pc[c].grant)
  /\ Done(c)
  /\ UNCHANGED <<secrets, holds, disclosures>>

(* The custody events of a hold do not say which hold.                        *)
handlePlaceHold(c) == BeginAtOnce(c, [op |-> "place", begun |-> begun'])

PlaceHold(c) ==
  /\ Under(c, "place")
  /\ InsertHold
  /\ InsertCustodyEvent(c, "hold_placed", None)
  /\ Done(c)
  /\ UNCHANGED <<secrets, grants, disclosures>>

handleReleaseHold(c, h) == BeginAtOnce(c, [op |-> "release", hold |-> h, begun |-> begun'])

ReleaseHold(c) ==
  /\ Under(c, "release")
  /\ ReleaseActiveHold(pc[c].hold)
  /\ InsertCustodyEvent(c, "hold_released", None)
  /\ Done(c)
  /\ UNCHANGED <<secrets, grants, disclosures>>

----------------------------------------------------------------------------

Tick ==
  /\ now < MaxTime
  /\ now' = now + 1
  /\ UNCHANGED <<tables, begun, pc, requests>>

(* A request is refused, its transaction rolled back, or the server dies.     *)
Abandon(c) ==
  /\ pc[c] # Idle
  /\ Done(c)
  /\ UNCHANGED tables

Next ==
  \/ handleStoreSecret
  \/ Tick
  \/ \E c \in Client :
       \/ \E s \in 1 .. secrets, p \in Person, w \in Window : handleCreateGrant(c, s, p, w)
       \/ \E p \in Person, w \in Window : handleEmergencyAccess(c, p, w)
       \/ \E g \in DOMAIN grants, p \in Person : handleDiscloseSecret(c, g, p)
       \/ \E g \in DOMAIN grants, op \in {"acknowledge", "return", "revoke"} : handleGrant(c, op, g)
       \/ handlePlaceHold(c)
       \/ \E h \in DOMAIN holds : handleReleaseHold(c, h)
       \/ BeginTx(c) \/ CreateGrant(c) \/ EmergencyAccess(c)
       \/ CheckHold(c) \/ RecordDenial(c) \/ DiscloseSecret(c)
       \/ AcknowledgeAccess(c) \/ ReturnAccess(c) \/ RevokeAccess(c)
       \/ PlaceHold(c) \/ ReleaseHold(c)
       \/ Abandon(c)

Spec == Init /\ [][Next]_vars

----------------------------------------------------------------------------

(* The custody ledger tells where every grant is: the last status it was      *)
(* given is the status of the row, also in the order the ledger is read in,   *)
(* unless transactions on the grant committed in another order than they      *)
(* began in.  It does not tell where a hold is, only how many there are.      *)
StatusOf ==
  [issued |-> "active", emergency_access |-> "active", acknowledged |-> "acknowledged",
   returned |-> "returned", revoked |-> "revoked"]
Moves(g) == {n \in DOMAIN custody : custody[n].type \in DOMAIN StatusOf /\ custody[n].grant = g}
Overtaken(g) == \E m, n \in Moves(g) : m < n /\ IsListedBefore(m, n)
Tells(g, n) == StatusOf[custody[n].type] = grants[g].status
ToldLast(g) == \E n \in Moves(g) : Tells(g, n) /\ \A m \in Moves(g) : m <= n
ListedFirst(g) == \E n \in Moves(g) : Tells(g, n) /\ \A m \in Moves(g) : ~IsListedBefore(m, n)
OfType(type) == {n \in DOMAIN custody : custody[n].type = type}
LedgerTellsStatus ==
  /\ \A g \in DOMAIN grants : ToldLast(g) /\ (Overtaken(g) \/ ListedFirst(g))
  /\ Cardinality(OfType("hold_placed")) = Len(holds)
  /\ Cardinality(OfType("hold_released")) = Cardinality({h \in DOMAIN holds : holds[h].status = "released"})

(* The ledger as it is read tells where every grant is: does not hold, of two *)
(* transactions the one that began first may commit last.                     *)
ListTellsStatus == \A g \in DOMAIN grants : ListedFirst(g)

(* "revocation immediately blocks new disclosure": once a grant has ended its *)
(* secret is disclosed only by requests that had read it before, at most one  *)
(* of each client.                                                            *)
Ended(g, n) == \E k \in 1 .. n - 1 : custody[k].grant = g /\ custody[k].type \in EndedStates
LateDisclosures(g) ==
  {n \in DOMAIN custody : custody[n].type = "disclosed" /\ custody[n].grant = g /\ Ended(g, n)}
Disclosing(g) == {c \in Client : pc[c].op \in {"disclose", "disclosing"} /\ pc[c].grant = g}
RevocationStopsDisclosure ==
  \A g \in DOMAIN grants :
    grants[g].status \in EndedStates
      => Cardinality(LateDisclosures(g)) + Cardinality(Disclosing(g)) <= Cardinality(Client)

(* A hold stops grants and disclosures in the same way: while it is active    *)
(* only requests that had looked for holds before are still carried out.      *)
HeldAccesses(h) == {n \in DOMAIN custody : n > holds[h].placed /\ custody[n].type \in {"issued", "disclosed"}}
Proceeding == {c \in Client : pc[c].op \in {"grant", "disclosing"}}
HoldStopsAccess ==
  \A h \in DOMAIN holds :
    holds[h].status = "active"
      => Cardinality(HeldAccesses(h)) + Cardinality(Proceeding) <= Cardinality(Client)

(* What the ledger says of a grant is so, and the end of a grant and a hold   *)
(* take effect, but for the requests that were under way.                     *)
AccessIsControlled == LedgerTellsStatus /\ RevocationStopsDisclosure /\ HoldStopsAccess
=============================================================================
