------------------------------ MODULE Refresh ------------------------------
(***************************************************************************)
(* The refresh cycle: the scheduler's tick and refresh goroutines          *)
(* (internal/scheduler), the HTTP handlers that edit feeds while they run  *)
(* (internal/web), and the process that stops, crashes and starts again    *)
(* around them (cmd/server).  All of them share the database of FeedStore; *)
(* the scheduler's own maps live in memory and are lost with the process.  *)
(*                                                                         *)
(* The feeds here use no FlareSolverr or Chromium slot, so a feed that is  *)
(* due, idle and not held is refused only for want of a worker; the two    *)
(* fetcher pools are the subject of the module Admission.                  *)
(***************************************************************************)
EXTENDS FeedStore

CONSTANTS
  Workers,      \* the shared job slots (MAX_WORKERS)
  MaxHold,      \* bound: a hold counts at most this many refused results
  MaxRestarts,  \* bound on how often the process starts again
  Postgres      \* TRUE: a commit may be applied and still report an error

VARIABLES
  phase,        \* "up", "stopping" (its context is cancelled) or "down"
  restarts,     \* how often the process started again
  \* The tick goroutine.
  tickPc,       \* "idle", "rows" once the feeds query returned, "dispatch"
                \* once the filter links are attached
  listed,       \* the feeds in the list, until the links are attached
  todo,         \* the feeds it shows enabled and due, yet to be considered
  list,         \* what it says of those
  \* The refresh goroutine in each worker slot.
  pc,           \* its next step; after the save, the answer of the store
  feed,         \* the feed it refreshes
  snap,         \* what the list said of the feed
  used,         \* the recipe it evaluates
  outcome,      \* the result of the refresh, and whether with a validator
  \* Memory shared under Scheduler.mu, and the handlers in progress.
  active,       \* Scheduler.active
  finished,     \* Scheduler.finished, see FinishOrder
  held,         \* Scheduler.held, see Hold
  queueing,     \* feeds for which a refresh handler has read "enabled"
  retrying,     \* feeds for which a handler has written and must call Retry
  \* History variable.
  refused       \* feeds whose last result was refused, with no reason since
                \* to fetch them again: see RefusedNotRefetched

tickVars == <<tickPc, listed, todo, list>>
jobVars  == <<pc, feed, snap, used, outcome>>
webVars  == <<queueing, retrying>>
memVars  == <<tickVars, jobVars, active, finished, held, webVars>>
lifeVars == <<phase, restarts>>
vars     == <<storeVars, memVars, lifeVars, refused>>

ASSUME SchedulerAssumption ==
  /\ IsFiniteSet(Workers) /\ Workers # {}
  /\ MaxHold \in Nat /\ MaxRestarts \in Nat /\ Postgres \in BOOLEAN

\* When the feed's last refresh ended, as seen from the running tick: before
\* its list was read, or since.  Equal clock readings count as since.
FinishOrder == {"none", "before", "since"}

\* The hold of a feed: how many refused results it counts (0: no entry) and
\* whether until still lies ahead.
Hold == [failures: Nat, waiting: BOOLEAN]
NoHold == [failures |-> 0, waiting |-> FALSE]

Unseen == See(BlankRow)
AnyFeed == CHOOSE f \in Feeds : TRUE

\* The end of a refresh: "none" until it is known, "cut" for a failure that
\* only the shutdown caused.
Results == {"none", "ok", "notmod", "fail", "cut"}
Outcome(result, etag) == [result |-> result, etag |-> etag]
NoOutcome == Outcome("none", FALSE)

\* What CompleteWithDiagnostics answers: nil, ErrStale, ErrDeleted, an error.
Answers == {"stored", "stale", "deleted", "refused"}

MemInit ==
  /\ tickPc = "idle" /\ listed = {} /\ todo = {}
  /\ list = [f \in Feeds |-> Unseen]
  /\ pc = [w \in Workers |-> "idle"]
  /\ feed = [w \in Workers |-> AnyFeed]
  /\ snap = [w \in Workers |-> Unseen]
  /\ used = [w \in Workers |-> NothingBuilt]
  /\ outcome = [w \in Workers |-> NoOutcome]
  /\ active = {}
  /\ finished = [f \in Feeds |-> "none"]
  /\ held = [f \in Feeds |-> NoHold]
  /\ queueing = {} /\ retrying = {}

Init ==
  /\ StoreInit /\ MemInit
  /\ phase = "up" /\ restarts = 0
  /\ refused = {}

----------------------------------------------------------------------------
(* HTTP handlers.  They run until the process ends: a shutdown lets the     *)
(* requests in progress finish.                                            *)

\* save: the store first, the scheduler's hold afterwards (RetryHeld).
Save(f, recipe, links, enabled) ==
  /\ phase # "down"
  /\ \/ CreateFeed(f, recipe, links, enabled)
     \/ EditFeed(f, recipe, links, enabled)
  /\ retrying' = retrying \union {f}
  /\ UNCHANGED <<tickVars, jobVars, active, finished, held, queueing, lifeVars,
                 refused>>

\* importFeeds, remove, saveFilter and removeFilter call the store only.
OtherWrite ==
  /\ phase # "down"
  /\ \/ \E new \in SUBSET Feeds, r \in Recipes : ImportFeeds(new, r)
     \/ \E f \in Feeds : DeleteFeed(f)
     \/ \E x \in Filters, r \in Rules : CreateFilter(x, r) \/ EditFilter(x, r)
     \/ \E x \in Filters : DeleteFilter(x)
  /\ UNCHANGED <<memVars, lifeVars, refused>>

\* setEnabled: a resume, of a feed already enabled too, ends with Retry.
SwitchEnabled(f, enabled) ==
  /\ phase # "down"
  /\ SetEnabled(f, enabled)
  /\ retrying' = IF enabled THEN retrying \union {f} ELSE retrying
  /\ UNCHANGED <<tickVars, jobVars, active, finished, held, queueing, lifeVars,
                 refused>>

\* refresh: Get and the check that the feed is enabled ...
AskRefresh(f) ==
  /\ phase # "down"
  /\ feedState[f] = "live" /\ row[f].enabled
  /\ queueing' = queueing \union {f}
  /\ UNCHANGED <<storeVars, tickVars, jobVars, active, finished, held,
                 retrying, lifeVars, refused>>

\* ... then Queue, which may find the feed paused or deleted by now.
QueueRefresh(f) ==
  /\ f \in queueing
  /\ QueueFeed(f)
  /\ queueing' = queueing \ {f}
  /\ retrying' = retrying \union {f}
  /\ UNCHANGED <<tickVars, jobVars, active, finished, held, lifeVars, refused>>

\* Retry keeps the count of a hold and ends its wait.
Lifted(f) == [held EXCEPT ![f].waiting = FALSE]

\* The last step of those handlers.
RetryHeld(f) ==
  /\ f \in retrying
  /\ held' = Lifted(f)
  /\ retrying' = retrying \ {f}
  /\ refused' = refused \ {f}
  /\ UNCHANGED <<storeVars, tickVars, jobVars, active, finished, queueing,
                 lifeVars>>

----------------------------------------------------------------------------
(* The tick goroutine. *)

\* tick and the first query of List: listed is taken before the read, so every
\* refresh that ended so far ended before it.
ReadFeeds ==
  LET due == {f \in LiveFeeds : row[f].enabled /\ row[f].due} IN
  /\ phase = "up" /\ tickPc = "idle"
  /\ tickPc' = "rows"
  /\ listed' = LiveFeeds
  /\ todo' = due
  /\ list' = [f \in Feeds |-> IF f \in due THEN See(row[f]) ELSE Unseen]
  /\ finished' = [f \in Feeds |-> IF finished[f] = "since" THEN "before"
                                                           ELSE finished[f]]
  /\ UNCHANGED <<storeVars, jobVars, active, held, webVars, lifeVars, refused>>

\* Wrong variant: no hold is ever forgotten.
ForgetNoHolds == held
\* forgetHolds: the list no longer names the feed.
ForgetHolds == [f \in Feeds |-> IF f \in listed THEN held[f] ELSE NoHold]

\* forgetFinished: the list is newer than the end.
ForgetFinished ==
  [f \in Feeds |-> IF finished[f] = "before" THEN "none" ELSE finished[f]]

\* The second query of List, attachFilterIDs, then the start of dispatch: the
\* maps forget feeds that are not in the list, and the ends it reflects.
AttachAndForget ==
  /\ phase # "down" /\ tickPc = "rows"
  /\ tickPc' = "dispatch"
  /\ listed' = {}
  /\ list' = [f \in Feeds |-> IF f \in todo
                THEN [list[f] EXCEPT !.links = row[f].links] ELSE Unseen]
  /\ held' = ForgetHolds
  /\ refused' = refused \intersect listed
  /\ finished' = ForgetFinished
  /\ UNCHANGED <<storeVars, todo, jobVars, active, webVars, lifeVars>>

\* A list read that fails, a list with nothing due, or a shutdown ends the tick.
EndTick ==
  /\ phase # "down"
  /\ \/ tickPc = "rows"
     \/ tickPc = "dispatch" /\ (todo = {} \/ phase = "stopping")
  /\ tickPc' = "idle"
  /\ listed' = {} /\ todo' = {}
  /\ list' = [f \in Feeds |-> Unseen]
  /\ UNCHANGED <<storeVars, jobVars, active, finished, held, webVars, lifeVars,
                 refused>>

\* Held.
IsHeld(f) == held[f].waiting

\* Wrong variants of reserve: each misses one of its three checks, or is one
\* short of the worker pool.
ReserveActive(f) ==
  Cardinality(active) < Cardinality(Workers) /\ finished[f] # "since"
ReserveFinished(f) ==
  f \notin active /\ Cardinality(active) < Cardinality(Workers)
ReserveOneLess(f) ==
  /\ f \notin active /\ finished[f] # "since"
  /\ Cardinality(active) + 1 < Cardinality(Workers)

\* reserve, for a refresh that needs only a worker slot.
CanReserve(f) ==
  /\ f \notin active
  /\ Cardinality(active) < Cardinality(Workers)
  /\ finished[f] # "since"

\* Wrong variant: holds are not looked at.
StartableHeld(f) == phase = "up" /\ CanReserve(f)

\* The loop of dispatch starts f when it reaches it.
Startable(f) == ~IsHeld(f) /\ phase = "up" /\ CanReserve(f)

\* The loop moves past f.
Pass(f) ==
  /\ phase # "down" /\ tickPc = "dispatch" /\ f \in todo
  /\ todo' = todo \ {f}
  /\ list' = [list EXCEPT ![f] = Unseen]
  /\ UNCHANGED <<tickPc, listed>>

StartRefresh(f, w) ==
  /\ Pass(f) /\ Startable(f)
  /\ pc[w] = "idle"
  /\ active' = active \union {f}
  /\ pc' = [pc EXCEPT ![w] = "begin"]
  /\ feed' = [feed EXCEPT ![w] = f]
  /\ snap' = [snap EXCEPT ![w] = list[f]]
  /\ UNCHANGED <<storeVars, used, outcome, finished, held, webVars, lifeVars,
                 refused>>

SkipFeed(f) ==
  /\ Pass(f) /\ ~Startable(f)
  /\ UNCHANGED <<storeVars, jobVars, active, finished, held, webVars, lifeVars,
                 refused>>

----------------------------------------------------------------------------
(* A refresh goroutine. *)

At(w, step) == phase # "down" /\ pc[w] = step
GoTo(w, step) == pc' = [pc EXCEPT ![w] = step]

\* EffectiveRecipe: the library rules are read as the refresh starts, with
\* the links the list gave it.
ReadRules(w) ==
  /\ At(w, "begin")
  /\ snap[w].links \subseteq LiveFilters
  /\ GoTo(w, "extract")
  /\ used' = [used EXCEPT ![w] = Merged(snap[w].recipe, snap[w].links)]
  /\ UNCHANGED <<storeVars, tickVars, feed, snap, outcome, active, finished,
                 held, webVars, lifeVars, refused>>

\* The bound on failures, which a shutdown is exempt from: it stores none.
MayFail(w) == snap[w].failures < MaxFailures \/ phase = "stopping"

\* A failure is the shutdown's own only once the context is cancelled.
Possible(w, result) ==
  /\ result = "fail" => MayFail(w)
  /\ result = "cut"  => phase = "stopping"

\* A link to a filter that is gone, or a failed read, fails the refresh.
RulesFailed(w, result) ==
  /\ At(w, "begin")
  /\ snap[w].links # {}
  /\ result \in {"fail", "cut"} /\ Possible(w, result)
  /\ GoTo(w, "judge")
  /\ outcome' = [outcome EXCEPT ![w] = Outcome(result, FALSE)]
  /\ UNCHANGED <<storeVars, tickVars, feed, snap, used, active, finished, held,
                 webVars, lifeVars, refused>>

\* The 304 rule: before the first success it is a failure.
Understood(w, answer) ==
  IF answer = "notmod" /\ ~snap[w].success THEN "fail" ELSE answer

\* extract, the article pages and the 304 rules.  A page read in full brings
\* the validators of its own response, or none: a rendered page has none.  A
\* 304 keeps those the refresh read.  A source answers 304 with a validator of
\* its own only to a conditional request.
Extract(w, answer, etag) ==
  LET result == Understood(w, answer) IN
  /\ At(w, "extract")
  /\ Possible(w, result)
  /\ GoTo(w, "judge")
  /\ outcome' = [outcome EXCEPT ![w] =
       Outcome(result, IF result = "ok" THEN etag ELSE snap[w].etag)]
  /\ UNCHANGED <<storeVars, tickVars, feed, snap, used, active, finished, held,
                 webVars, lifeVars, refused>>

\* Wrong variant: every result goes to the store.
DiscardsNothing(w) == FALSE

\* A failure under a cancelled context is not stored: it describes the
\* shutdown.  Everything else goes on to the store.
Discards(w) == outcome[w].result \in {"fail", "cut"} /\ phase # "up"

\* What the goroutine read is of no more use.
Forget(w) ==
  /\ snap' = [snap EXCEPT ![w] = Unseen]
  /\ used' = [used EXCEPT ![w] = NothingBuilt]
  /\ outcome' = [outcome EXCEPT ![w] = NoOutcome]

JudgeKeeps(w) ==
  /\ At(w, "judge") /\ ~Discards(w)
  /\ GoTo(w, "save")
  /\ UNCHANGED <<storeVars, tickVars, feed, snap, used, outcome, active,
                 finished, held, webVars, lifeVars, refused>>

JudgeDiscards(w) ==
  /\ At(w, "judge") /\ Discards(w)
  /\ GoTo(w, "finish")
  /\ Forget(w)
  /\ UNCHANGED <<storeVars, tickVars, feed, active, finished, held, webVars,
                 lifeVars, refused>>

\* The transaction of CompleteWithDiagnostics for this refresh.
Complete(w) ==
  CompleteFeed(feed[w], snap[w], used[w], outcome[w].result, outcome[w].etag)

SaveDiscarded(w) ==
  /\ At(w, "save")
  /\ ~Current(feed[w], snap[w])
  /\ GoTo(w, IF feedState[feed[w]] = "live" THEN "stale" ELSE "deleted")
  /\ Forget(w)
  /\ UNCHANGED <<storeVars, tickVars, feed, active, finished, held, webVars,
                 lifeVars, refused>>

SaveStored(w) ==
  /\ At(w, "save")
  /\ Complete(w)
  /\ GoTo(w, "stored")
  /\ Forget(w)
  /\ refused' = refused \ {feed[w]}
  /\ UNCHANGED <<tickVars, feed, active, finished, held, webVars, lifeVars>>

\* The database refuses the result, and nothing of it survives.  On
\* PostgreSQL the connection may also break after the server committed.
SaveRefused(w) ==
  /\ At(w, "save")
  /\ held[feed[w]].failures < MaxHold
  /\ UNCHANGED storeVars \/ (Postgres /\ Complete(w))
  /\ GoTo(w, "refused")
  /\ Forget(w)
  /\ refused' = refused \union {feed[w]}
  /\ UNCHANGED <<tickVars, feed, active, finished, held, webVars, lifeVars>>

\* What the refresh does with the answer: Retry after an edit, released after
\* a stored result or a deleted feed, hold after a refused one.
AfterSave(f, answer) ==
  CASE answer = "refused" -> [held EXCEPT ![f] =
                                [failures |-> @.failures + 1, waiting |-> TRUE]]
    [] answer = "stale"   -> Lifted(f)
    [] OTHER              -> [held EXCEPT ![f] = NoHold]

Settle(w) ==
  /\ phase # "down" /\ pc[w] \in Answers
  /\ held' = AfterSave(feed[w], pc[w])
  /\ refused' = IF pc[w] = "refused" THEN refused ELSE refused \ {feed[w]}
  /\ GoTo(w, "finish")
  /\ UNCHANGED <<storeVars, tickVars, feed, snap, used, outcome, active,
                 finished, webVars, lifeVars>>

\* finish: the end time under one lock, the slot under the next.
RecordEnd(w) ==
  /\ At(w, "finish")
  /\ finished' = [finished EXCEPT ![feed[w]] = "since"]
  /\ GoTo(w, "release")
  /\ UNCHANGED <<storeVars, tickVars, feed, snap, used, outcome, active, held,
                 webVars, lifeVars, refused>>

ReleaseSlot(w) ==
  /\ At(w, "release")
  /\ active' = active \ {feed[w]}
  /\ GoTo(w, "idle")
  /\ feed' = [feed EXCEPT ![w] = AnyFeed]
  /\ UNCHANGED <<storeVars, tickVars, snap, used, outcome, finished, held,
                 webVars, lifeVars, refused>>

----------------------------------------------------------------------------
(* Time and the process. *)

NextRunReached(f) ==
  /\ ReachNextRun(f)
  /\ UNCHANGED <<memVars, lifeVars, refused>>

\* The wait of a hold is over.
HoldExpires(f) ==
  /\ held[f].waiting
  /\ held' = Lifted(f)
  /\ refused' = refused \ {f}
  /\ UNCHANGED <<storeVars, tickVars, jobVars, active, finished, webVars,
                 lifeVars>>

\* SIGTERM cancels the context of the tick and of every refresh.
Stop ==
  /\ phase = "up" /\ restarts < MaxRestarts
  /\ phase' = "stopping"
  /\ UNCHANGED <<storeVars, memVars, restarts, refused>>

\* Memory goes with the process.
Gone ==
  /\ phase' = "down"
  /\ tickPc' = "idle" /\ listed' = {} /\ todo' = {}
  /\ list' = [f \in Feeds |-> Unseen]
  /\ pc' = [w \in Workers |-> "idle"]
  /\ feed' = [w \in Workers |-> AnyFeed]
  /\ snap' = [w \in Workers |-> Unseen]
  /\ used' = [w \in Workers |-> NothingBuilt]
  /\ outcome' = [w \in Workers |-> NoOutcome]
  /\ active' = {}
  /\ finished' = [f \in Feeds |-> "none"]
  /\ held' = [f \in Feeds |-> NoHold]
  /\ queueing' = {} /\ retrying' = {} /\ refused' = {}
  /\ UNCHANGED <<storeVars, restarts>>

\* run returns once the HTTP server and Scheduler.Wait have returned.
Exit ==
  /\ phase = "stopping" /\ tickPc = "idle"
  /\ \A w \in Workers : pc[w] = "idle"
  /\ Gone

Crash ==
  /\ phase # "down" /\ restarts < MaxRestarts
  /\ Gone

Restart ==
  /\ phase = "down"
  /\ phase' = "up" /\ restarts' = restarts + 1
  /\ UNCHANGED <<storeVars, memVars, refused>>

Web ==
  \/ OtherWrite
  \/ \E f \in Feeds :
       \/ \E r \in Recipes, l \in SUBSET Filters, e \in BOOLEAN : Save(f, r, l, e)
       \/ \E e \in BOOLEAN : SwitchEnabled(f, e)
       \/ AskRefresh(f) \/ QueueRefresh(f) \/ RetryHeld(f)

Tick ==
  \/ ReadFeeds \/ AttachAndForget \/ EndTick
  \/ \E f \in Feeds : SkipFeed(f) \/ \E w \in Workers : StartRefresh(f, w)

Job(w) ==
  \/ ReadRules(w)
  \/ \E result \in Results : RulesFailed(w, result)
  \/ \E answer \in Results \ {"none"}, e \in BOOLEAN : Extract(w, answer, e)
  \/ JudgeKeeps(w) \/ JudgeDiscards(w)
  \/ SaveDiscarded(w) \/ SaveStored(w) \/ SaveRefused(w)
  \/ Settle(w) \/ RecordEnd(w) \/ ReleaseSlot(w)

Process ==
  \/ Stop \/ Exit \/ Crash \/ Restart
  \/ \E f \in Feeds : NextRunReached(f) \/ HoldExpires(f)

Next == Web \/ Tick \/ (\E w \in Workers : Job(w)) \/ Process

Spec == Init /\ [][Next]_vars

\* Each goroutine runs, holds and restarts come to an end, and neither a read
\* of the library nor a write of a result fails forever.
Fairness ==
  /\ WF_vars(Tick) /\ SF_vars(AttachAndForget)
  /\ \A w \in Workers : WF_vars(Job(w)) /\ SF_vars(SaveStored(w))
  /\ \A f \in Feeds : WF_vars(HoldExpires(f)) /\ WF_vars(RetryHeld(f))
  /\ WF_vars(Exit) /\ WF_vars(Restart)

FairSpec == Spec /\ Fairness

----------------------------------------------------------------------------
(* Properties. *)

Steps == {"idle", "begin", "extract", "judge", "save", "finish", "release"}
           \union Answers

\* Every variable keeps its type.
TypeOK ==
  /\ StoreTypeOK
  /\ phase \in {"up", "stopping", "down"}
  /\ restarts \in Nat
  /\ tickPc \in {"idle", "rows", "dispatch"}
  /\ listed \subseteq Feeds /\ todo \subseteq Feeds
  /\ list \in [Feeds -> Seen]
  /\ pc \in [Workers -> Steps]
  /\ feed \in [Workers -> Feeds]
  /\ snap \in [Workers -> Seen]
  /\ used \in [Workers -> MergedRecipes \union {NothingBuilt}]
  /\ outcome \in [Workers -> [result: Results, etag: BOOLEAN]]
  /\ active \subseteq Feeds
  /\ finished \in [Feeds -> FinishOrder]
  /\ held \in [Feeds -> Hold]
  /\ queueing \subseteq Feeds /\ retrying \subseteq Feeds
  /\ refused \subseteq Feeds

Running(w) == pc[w] # "idle"

\* The steps of a refresh before the store has answered it.
Unanswered(w) == pc[w] \in {"begin", "extract", "judge", "save"}

\* A feed is never refreshed by two goroutines at once, and a slot is taken
\* for exactly the feeds that are being refreshed, whatever list a tick holds
\* (Scheduler.active, reserve and release).
OneRefreshPerFeed ==
  /\ active = {feed[w] : w \in {v \in Workers : Running(v)}}
  /\ \A v, w \in Workers :
       Running(v) /\ Running(w) /\ feed[v] = feed[w] => v = w

\* The row a refresh was started from still holds the failure count, first
\* success and validators that are stored, unless its version moved: a list
\* read before an earlier refresh of the feed was stored starts nothing
\* (Scheduler.finished).
SnapshotFresh ==
  \A w \in Workers :
    LET f == feed[w]  s == snap[w] IN
    Unanswered(w) /\ Current(f, s) =>
      /\ s.failures = row[f].failures
      /\ s.success = row[f].success
      /\ s.etag = row[f].etag

\* The stored failure count is the number of failed refreshes in a row since
\* the last success or edit, although CompleteWithDiagnostics computes it from
\* the row that the tick read.
FailuresCountStreak == \A f \in LiveFeeds : row[f].failures = streak[f]

\* A result the store would accept was produced with the recipe, the links and
\* the library rules in force now, although they were read in three separate
\* queries (List, attachFilterIDs, EffectiveRecipe).
ResultInForce ==
  \A w \in Workers :
    /\ pc[w] \in {"judge", "save"} /\ outcome[w].result \in {"ok", "notmod"}
    /\ Current(feed[w], snap[w])
    => used[w] = Effective(feed[w])

\* A stored validator belongs to a page evaluated with the recipe and rules in
\* force, so that a 304 answering it really means "nothing new".
ValidatorMatchesRecipe ==
  \A f \in LiveFeeds : row[f].etag => built[f] = Effective(f)

\* A feed that was edited, or whose library filter was, is due until a refresh
\* with its new version is stored: the refresh it overtook cannot take the
\* feed's turn.
EditStaysDue == \A f \in LiveFeeds : tried[f] # row[f].version => row[f].due

\* The links of a feed always name filters that exist.
NoDanglingLinks == \A f \in LiveFeeds : row[f].links \subseteq LiveFilters

\* A failure that only the shutdown caused is never sent to the store.
ShutdownNotStored == \A w \in Workers : pc[w] = "save" => outcome[w].result # "cut"

\* While the database keeps refusing a feed's results, the source is not
\* fetched again before the hold's wait is over, or an edit, a resume or a
\* manual refresh lifts it.
RefusedNotRefetched ==
  \A w \in Workers : feed[w] \in refused => ~Unanswered(w)

\* A due feed is refreshed, paused or deleted in the end, whatever is edited,
\* refused or restarted meanwhile.
DueIsRefreshed ==
  \A f \in Feeds : []<>~(f \in LiveFeeds /\ row[f].enabled /\ row[f].due)

\* Nothing is remembered of a deleted feed for long.
DeletedForgotten ==
  \A f \in Feeds : feedState[f] = "deleted" ~>
     (held[f] = NoHold /\ finished[f] = "none" /\ f \notin active)
============================================================================
