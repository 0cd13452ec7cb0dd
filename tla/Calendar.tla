------------------------------ MODULE Calendar ------------------------------
(* The calendar feeds of one property and the reservations, conflicts and     *)
(* work proposals derived from them (internal/reservations).  An ingest is    *)
(* one transaction that locks the row of its feed only: it writes the events  *)
(* of the feed and reads those of the property (IngestContent), writes        *)
(* reservations (syncReservations), and derives conflicts and proposals       *)
(* before it commits (Commit).  What it wrote is invisible until then, and    *)
(* the reservations it wrote are locked.  Polls of two feeds of one property  *)
(* overlap freely.                                                            *)
EXTENDS Naturals, SequencesExt

CONSTANTS Worker,            \* processes that poll feeds and serve requests
          Feed,
          Uid,               \* external event identifiers
          Content,           \* Content[f]: what the source of f may publish
          MinimumTurnaround,
          None,
          MaxRequests        \* bound: requests and polls of one behaviour

Event == Feed \X Uid
Kind  == {"turnover", "inspection"}

VARIABLES feeds,         \* calendar_feeds
          events,        \* external_calendar_events, unique by feed and uid
          exceptions,    \* calendar_exceptions
          reservations,  \* reservations, unique by feed and uid
          conflicts,     \* reservation_conflicts
          resolutions,   \* reservation_conflict_resolutions
          proposals,     \* turnover_proposals, unique by reservation and kind
          pc,            \* what each process has in hand
          requests,
          raced          \* history: events last synchronised from a stale read

tables == <<feeds, events, exceptions, reservations, conflicts, resolutions, proposals>>
vars   == <<tables, pc, requests, raced>>

Idle == [op |-> "idle"]

(* hash is the content of the last successful poll; fresh that this poll is   *)
(* within the staleness window; error that the last poll failed.              *)
newFeed == [status |-> "active", hash |-> None, fresh |-> FALSE, error |-> FALSE]

Init ==
  /\ \E created \in SUBSET Feed : feeds = [f \in Feed |-> IF f \in created THEN newFeed ELSE None]
  /\ events = [e \in Event |-> None]
  /\ exceptions = <<>>
  /\ reservations = [e \in Event |-> None]
  /\ conflicts = <<>>
  /\ resolutions = <<>>
  /\ proposals = [p \in Event \X Kind |-> None]
  /\ pc = [w \in Worker |-> Idle]
  /\ requests = 0
  /\ raced = {}

Begin(w, frame) ==
  /\ pc[w] = Idle
  /\ requests < MaxRequests
  /\ requests' = requests + 1
  /\ pc' = [pc EXCEPT ![w] = frame]

Done(w) == pc' = [pc EXCEPT ![w] = Idle] /\ UNCHANGED requests

Served == requests < MaxRequests /\ requests' = requests + 1 /\ UNCHANGED pc

----------------------------------------------------------------------------
(* Detection (detect.go) over the events of the property as they were read    *)

IsActive(row) == row # None /\ row.status = "confirmed"
ActiveOf(seen) == {e \in Event : IsActive(seen[e])}
Pairs(seen) == ActiveOf(seen) \X ActiveOf(seen)

overlaps(a, b) == a.start < b.end /\ b.start < a.end

(* A fault: only the events of one feed are compared.                         *)
OverlapsWithinFeed(seen) ==
  {[kind |-> "overlap", events |-> p] :
     p \in {q \in Pairs(seen) :
             q[1] # q[2] /\ q[1][1] = q[2][1] /\ overlaps(seen[q[1]].stay, seen[q[2]].stay)}}

(* An issue names its events, the first one being the stay a merge keeps.     *)
Overlaps(seen) ==
  {[kind |-> "overlap", events |-> p] :
     p \in {q \in Pairs(seen) :
              /\ q[1] # q[2]
              /\ seen[q[1]].stay.start <= seen[q[2]].stay.start
              /\ overlaps(seen[q[1]].stay, seen[q[2]].stay)}}

ImpossibleTurnarounds(seen) ==
  {[kind |-> "turnaround", events |-> p] :
     p \in {q \in Pairs(seen) :
              LET gap == seen[q[2]].stay.start - seen[q[1]].stay.end
              IN /\ seen[q[1]].stay.end <= seen[q[2]].stay.start
                 /\ gap < MinimumTurnaround
                 /\ \A e \in ActiveOf(seen) : \/ e \in {q[1], q[2]}
                                              \/ seen[e].stay.start <= seen[q[1]].stay.start
                                              \/ seen[e].stay.start >= seen[q[2]].stay.start}}

Ambiguities(seen) ==
  {[kind |-> "ambiguity", events |-> <<e>>] : e \in {d \in ActiveOf(seen) : seen[d].stay.ambiguous}}

Duplicates(seen) ==
  {[kind |-> "duplicate", events |-> p] :
     p \in {q \in Pairs(seen) :
              /\ q[1][1] # q[2][1]
              /\ q[1][2] = q[2][2] \/ seen[q[1]].stay = seen[q[2]].stay}}

KeyOf(issue) == {issue.events[n] : n \in DOMAIN issue.events}

(* One issue of each kind and key; which stay of two equal ones comes first   *)
(* is up to the order of the rows.                                            *)
AllIssues(seen) == Overlaps(seen) \union ImpossibleTurnarounds(seen) \union Ambiguities(seen) \union Duplicates(seen)
FirstOf(issues, kind, key) == CHOOSE i \in issues : i.kind = kind /\ KeyOf(i) = key
DetectIssues(seen) ==
  IF \A a, b \in ActiveOf(seen) : a = b THEN {}
  ELSE {FirstOf(AllIssues(seen), i.kind, KeyOf(i)) : i \in AllIssues(seen)}

(* The exceptions of suspected duplicates all get the empty key.              *)
ExceptionOf(issue) ==
  [kind |-> issue.kind, key |-> IF issue.kind = "duplicate" THEN {} ELSE KeyOf(issue),
   feed |-> None, status |-> "open"]

FeedException(kind, f) == [kind |-> kind, key |-> {f}, feed |-> f, status |-> "open"]

----------------------------------------------------------------------------
(* Statements                                                                 *)

OpenExceptions(table, kind, key) ==
  {n \in DOMAIN table : table[n].kind = kind /\ table[n].key = key /\ table[n].status = "open"}

(* Nothing is inserted beside an open row of the kind and key.                *)
InsertException(table, rows) ==
  table \o SetToSeq({r \in rows : OpenExceptions(table, r.kind, r.key) = {}})

ResolveFeedExceptions(table, f) ==
  [n \in DOMAIN table |->
     IF table[n].feed = f /\ table[n].status = "open" /\ table[n].kind \in {"stale_feed", "feed_failure"}
     THEN [table[n] EXCEPT !.status = "resolved"] ELSE table[n]]

RecordPollSuccess(f, content) ==
  feeds' = [feeds EXCEPT ![f].hash = content, ![f].fresh = TRUE, ![f].error = FALSE]

RecordPollFailure(f) == feeds' = [feeds EXCEPT ![f].error = TRUE]

(* The row lock of a feed, held by the ingest in progress.                    *)
Unlocked(f) == \A w \in Worker : pc[w].op \in {"ingest", "synced"} => pc[w].feed # f

(* The reservations written by transactions that are not committed.           *)
Writing(w) == IF pc[w].op = "synced" THEN pc[w].wrote ELSE {}
Free(w, rows) == \A v \in Worker \ {w} : Writing(v) \intersect rows = {}

(* The events of f take the contents of the feed; those it no longer lists    *)
(* are kept.                                                                  *)
Listed(f, content) == {e \in Event : e[1] = f /\ \E item \in content : item.uid = e[2]}
UpsertEvents(table, f, content) ==
  [e \in Event |->
     IF e \in Listed(f, content)
     THEN LET item == CHOOSE item \in content : item.uid = e[2]
          IN [stay |-> item.stay, status |-> item.status]
     ELSE table[e]]
MarkMissingEventsCancelled(table, f, content) ==
  [e \in Event |->
     IF e[1] = f /\ e \notin Listed(f, content) /\ IsActive(table[e])
     THEN [table[e] EXCEPT !.status = "no_longer_listed"] ELSE table[e]]

(* An active event creates its reservation or brings it up to date; one that  *)
(* is not cancels it, and leaves its content alone.                           *)
UpsertReservation(row) == [status |-> "active", stay |-> row.stay]
SetReservationCancelled(row) == IF row = None THEN None ELSE [row EXCEPT !.status = "cancelled"]

SyncedReservation(row, event) ==
  IF event = None THEN row
  ELSE IF IsActive(event) THEN UpsertReservation(event)
  ELSE SetReservationCancelled(row)

ScheduledAt(stay, kind) == IF kind = "turnover" THEN stay.end ELSE stay.start
UpsertProposal(row, kind) == [status |-> "proposed", at |-> ScheduledAt(row.stay, kind)]
CancelProposal(row) == IF row = None THEN None ELSE [row EXCEPT !.status = "cancelled"]

(* A fault: the proposals of cancelled reservations are left alone.           *)
SyncedIfReservationActive(seen) ==
  [p \in Event \X Kind |->
     IF seen[p[1]] # None /\ seen[p[1]].status = "active" THEN UpsertProposal(seen[p[1]], p[2])
     ELSE proposals[p]]

(* The proposals of the reservations as the caller has read them.             *)
SyncedProposals(seen) ==
  [p \in Event \X Kind |->
     IF seen[p[1]] = None THEN proposals[p]
     ELSE IF seen[p[1]].status = "active" THEN UpsertProposal(seen[p[1]], p[2])
     ELSE CancelProposal(proposals[p])]

(* Rows whose current contents are not those that were read.                  *)
Stale(table, seen) == {e \in Event : table[e] # seen[e]}

----------------------------------------------------------------------------
(* Polling                                                                    *)

handlePollFeed(w, f) ==
  /\ feeds[f].status = "active"
  /\ Begin(w, [op |-> "poll", feed |-> f])
  /\ UNCHANGED <<tables, raced>>

(* The source could not be read, was empty, or could not be parsed.           *)
recordFeedFailure(w) ==
  LET f == pc[w].feed
  IN /\ pc[w].op = "poll"
     /\ Unlocked(f)
     /\ RecordPollFailure(f)
     /\ exceptions' = InsertException(exceptions, {FeedException("feed_failure", f)})
     /\ Done(w)
     /\ UNCHANGED <<events, reservations, conflicts, resolutions, proposals, raced>>

Unchanged(f, content) == feeds[f].hash = content

(* The same content as the last time: nothing is processed.                   *)
IngestUnchanged(w) ==
  LET f == pc[w].feed
  IN /\ pc[w].op = "poll"
     /\ Unlocked(f)
     /\ \E content \in Content[f] : Unchanged(f, content) /\ RecordPollSuccess(f, content)
     /\ exceptions' = ResolveFeedExceptions(exceptions, f)
     /\ Done(w)
     /\ UNCHANGED <<events, reservations, conflicts, resolutions, proposals, raced>>

IngestContent(w) ==
  LET f == pc[w].feed
  IN /\ pc[w].op = "poll"
     /\ Unlocked(f)
     /\ \E content \in Content[f] :
          /\ ~Unchanged(f, content)
          /\ pc' = [pc EXCEPT ![w] =
                      [op |-> "ingest", feed |-> f, content |-> content,
                       seen |-> MarkMissingEventsCancelled(UpsertEvents(events, f, content), f, content)]]
     /\ UNCHANGED <<tables, requests, raced>>

(* Every reservation of the property follows its event as it was read.        *)
syncReservations(w) ==
  LET new   == [e \in Event |-> SyncedReservation(reservations[e], pc[w].seen[e])]
      wrote == Stale(reservations, new)
  IN /\ pc[w].op = "ingest"
     /\ Free(w, wrote)
     /\ pc' = [pc EXCEPT ![w] = [op |-> "synced", feed |-> pc[w].feed, content |-> pc[w].content,
                                 seen |-> pc[w].seen, new |-> new, wrote |-> wrote]]
     /\ UNCHANGED <<tables, requests, raced>>

(* An open conflict of the kind and key is kept; a new one is linked to the   *)
(* open exception of the same kind and key, 0 when there is none.             *)
syncConflicts(issues, excs) ==
  LET open(i)   == \E n \in DOMAIN conflicts : /\ conflicts[n].kind = i.kind
                                               /\ conflicts[n].key = KeyOf(i)
                                               /\ conflicts[n].status = "open"
      linked(i) == OpenExceptions(excs, i.kind, KeyOf(i))
  IN conflicts \o SetToSeq({[kind |-> i.kind, key |-> KeyOf(i), primary |-> i.events[1], status |-> "open",
                             exception |-> IF linked(i) = {} THEN 0 ELSE CHOOSE n \in linked(i) : TRUE] :
                            i \in {j \in issues : ~open(j)}})

Commit(w) ==
  LET f      == pc[w].feed
      issues == DetectIssues(pc[w].seen)
      excs   == InsertException(exceptions, {ExceptionOf(i) : i \in issues})
  IN /\ pc[w].op = "synced"
     /\ events' = [e \in Event |-> IF e[1] = f THEN pc[w].seen[e] ELSE events[e]]
     /\ reservations' = [e \in Event |-> IF e \in pc[w].wrote THEN pc[w].new[e] ELSE reservations[e]]
     /\ conflicts' = syncConflicts(issues, excs)
     /\ proposals' = SyncedProposals(pc[w].new)
     /\ exceptions' = ResolveFeedExceptions(excs, f)
     /\ RecordPollSuccess(f, pc[w].content)
     /\ raced' = {e \in Stale(events, pc[w].seen) : e[1] # f} \union Stale(reservations', pc[w].new)
     /\ Done(w)
     /\ UNCHANGED resolutions

----------------------------------------------------------------------------
(* Feeds, their health and their exceptions                                   *)

Exists(f) == feeds[f] # None

CreateFeed(f) ==
  /\ ~Exists(f)
  /\ feeds' = [feeds EXCEPT ![f] = newFeed]
  /\ UNCHANGED <<events, exceptions, reservations, conflicts, resolutions, proposals, raced>>
handleCreateFeed(f) == Served /\ CreateFeed(f)

SetFeedStatus(f) ==
  /\ Unlocked(f)
  /\ \E status \in {"active", "paused", "disabled"} : feeds' = [feeds EXCEPT ![f].status = status]
  /\ UNCHANGED <<events, exceptions, reservations, conflicts, resolutions, proposals, raced>>
handleSetFeedStatus(f) == Served /\ SetFeedStatus(f)

(* The staleness window of a feed passes without a successful poll.           *)
GoStale(f) ==
  /\ Served
  /\ feeds' = [feeds EXCEPT ![f].fresh = FALSE]
  /\ UNCHANGED <<events, exceptions, reservations, conflicts, resolutions, proposals, raced>>

(* Only active feeds are looked at.                                           *)
StaleFeeds == {f \in Feed : Exists(f) /\ feeds[f].status = "active" /\ ~feeds[f].fresh}

ListActiveFeeds(w) ==
  /\ Begin(w, [op |-> "scan", stale |-> StaleFeeds])
  /\ UNCHANGED <<tables, raced>>

ScanStaleFeeds(w) ==
  /\ pc[w].op = "scan"
  /\ exceptions' = InsertException(exceptions, {FeedException("stale_feed", f) : f \in pc[w].stale})
  /\ Done(w)
  /\ UNCHANGED <<feeds, events, reservations, conflicts, resolutions, proposals, raced>>

ResolveExceptions(table, rows) ==
  [n \in DOMAIN table |-> IF n \in rows THEN [table[n] EXCEPT !.status = "resolved"] ELSE table[n]]

ResolveException(n) ==
  /\ exceptions[n].status = "open"
  /\ exceptions' = ResolveExceptions(exceptions, {n})
  /\ UNCHANGED <<feeds, events, reservations, conflicts, resolutions, proposals, raced>>
handleResolveException(n) == Served /\ ResolveException(n)

----------------------------------------------------------------------------
(* Conflicts                                                                  *)

(* Every stay but the primary one that is still active.                       *)
applyMerge(row) == {e \in row.key \ {row.primary} : reservations[e].status = "active"}

MarkConflictResolved(n) ==
  /\ conflicts[n].status = "open"
  /\ conflicts' = [conflicts EXCEPT ![n].status = "resolved"]

ResolveConflict(n, outcome) ==
  LET row    == conflicts[n]
      merged == IF outcome = "merge" THEN applyMerge(row) ELSE {}
  IN /\ outcome = "merge" => Cardinality(row.key) > 1
     /\ \A w \in Worker : Writing(w) \intersect merged = {}
     /\ MarkConflictResolved(n)
     /\ reservations' = [e \in Event |-> IF e \in merged THEN SetReservationCancelled(reservations[e])
                                         ELSE reservations[e]]
     /\ proposals' = [p \in Event \X Kind |-> IF p[1] \in merged THEN CancelProposal(proposals[p])
                                              ELSE proposals[p]]
     /\ resolutions' = Append(resolutions, [conflict |-> n, outcome |-> outcome])
     /\ exceptions' = ResolveExceptions(exceptions, {row.exception})
     /\ UNCHANGED <<feeds, events, raced>>

handleResolveConflict(n) ==
  Served /\ \E outcome \in {"confirm", "reject", "merge"} : ResolveConflict(n, outcome)

----------------------------------------------------------------------------
(* Proposals outside of polls: read and written without a transaction         *)

handleGenerateProposals(w) ==
  /\ Begin(w, [op |-> "generate", stale |-> StaleFeeds, seen |-> reservations])
  /\ UNCHANGED <<tables, raced>>

(* Refused over a stale feed, which becomes an exception.                     *)
GenerateTurnoverProposals(w) ==
  /\ pc[w].op = "generate"
  /\ \/ /\ \E f \in pc[w].stale :
             exceptions' = InsertException(exceptions, {FeedException("stale_feed", f)})
        /\ UNCHANGED <<proposals, raced>>
     \/ /\ pc[w].stale = {}
        /\ proposals' = SyncedProposals(pc[w].seen)
        /\ raced' = raced \union Stale(reservations, pc[w].seen)
        /\ UNCHANGED exceptions
  /\ Done(w)
  /\ UNCHANGED <<feeds, events, reservations, conflicts, resolutions>>

----------------------------------------------------------------------------

(* The process dies or its transaction is rolled back.                        *)
Abandon(w) ==
  /\ pc[w] # Idle
  /\ Done(w)
  /\ UNCHANGED <<tables, raced>>

Next ==
  \/ \E f \in Feed : \/ handleCreateFeed(f)
                     \/ Exists(f) /\ handleSetFeedStatus(f)
                     \/ Exists(f) /\ GoStale(f)
  \/ \E n \in DOMAIN exceptions : handleResolveException(n)
  \/ \E n \in DOMAIN conflicts : handleResolveConflict(n)
  \/ \E w \in Worker :
       \/ \E f \in Feed : Exists(f) /\ handlePollFeed(w, f)
       \/ recordFeedFailure(w)
       \/ IngestUnchanged(w)
       \/ IngestContent(w)
       \/ syncReservations(w)
       \/ Commit(w)
       \/ ListActiveFeeds(w)
       \/ ScanStaleFeeds(w)
       \/ handleGenerateProposals(w)
       \/ GenerateTurnoverProposals(w)
       \/ Abandon(w)

Spec == Init /\ [][Next]_vars

----------------------------------------------------------------------------
(* Outside of races, a reservation is active only while its event is, with    *)
(* the dates of the event, and cancelled under an active event only by a      *)
(* human who merged it into another stay (CAL-003, CAL-004).                  *)
Merged(e) == \E n \in DOMAIN resolutions :
                LET row == conflicts[resolutions[n].conflict] IN
                  resolutions[n].outcome = "merge" /\ e \in row.key \ {row.primary}
ReservationsFollowEvents ==
  \A e \in Event \ raced :
    reservations[e] # None =>
      IF reservations[e].status = "active"
      THEN IsActive(events[e]) /\ reservations[e].stay = events[e].stay
      ELSE IsActive(events[e]) => Merged(e)

(* Outside of races, exactly the active reservations have work proposed, at   *)
(* the times of the stay: no cleaning is sent to a cancelled stay, and none   *)
(* is forgotten.                                                              *)
ProposalsFollowReservations ==
  \A e \in Event \ raced, k \in Kind :
    reservations[e] # None =>
      /\ proposals[<<e, k>>] # None
      /\ IF reservations[e].status = "active"
         THEN proposals[<<e, k>>] = UpsertProposal(reservations[e], k)
         ELSE proposals[<<e, k>>].status = "cancelled"

(* Outside of races, two active events that overlap have been reported as a   *)
(* conflict (CAL-006), whichever feed listed the second one.                  *)
DoubleBooked(a, b) ==
  a # b /\ IsActive(events[a]) /\ IsActive(events[b]) /\ overlaps(events[a].stay, events[b].stay)
Reported(a, b) == \E n \in DOMAIN conflicts : conflicts[n].kind = "overlap" /\ conflicts[n].key = {a, b}
OverlapsReported == \A a, b \in Event \ raced : DoubleBooked(a, b) => Reported(a, b)

(* A conflict is decided once, also by two people at the same time, and a     *)
(* decided one has its decision on record.                                    *)
Decisions(n) == {r \in DOMAIN resolutions : resolutions[r].conflict = n}
DecidedOnce ==
  \A n \in DOMAIN conflicts :
    IF conflicts[n].status = "open" THEN Decisions(n) = {} ELSE \E r \in Decisions(n) : Decisions(n) = {r}

----------------------------------------------------------------------------
(* Statements of the repository that the code does not keep                   *)

(* "overlapping bookings ... MUST create exceptions" (CAL-006), races or not. *)
EveryOverlapReported == \A a, b \in Event : DoubleBooked(a, b) => Reported(a, b)

(* "so only the primary stay remains operational": a stay that was merged     *)
(* into another one is not operational again.                                 *)
MergedStaysCancelled ==
  [][\A e \in Event : Merged(e) /\ reservations[e].status = "cancelled" => reservations'[e].status = "cancelled"]_vars

(* What is operational is what the feeds list, with its work proposed.        *)
StaysAreServed == ReservationsFollowEvents /\ ProposalsFollowReservations

(* Double bookings are reported, and a reported conflict is decided once.     *)
ConflictsSettled == OverlapsReported /\ DecidedOnce
=============================================================================
