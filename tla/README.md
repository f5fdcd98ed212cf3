# A TLA+ model of RSS Workshop

RSS Workshop (Go, `src/`) turns web pages into RSS and Atom feeds: an operator
saves a recipe for a page, a scheduler fetches the page when the feed is due,
stories are extracted, filtered and stored, and readers poll the stored result.
This directory holds TLA+ modules for the parts of it where state, concurrency
and time meet, the TLC configurations that check them, and theorems about them
checked by TLAPS.

## Inventory

What each part of the system keeps and does, how it meets the others, and what
makes it correct. Paths are below `src/`.

| Part | State | Operations | Correct when |
|---|---|---|---|
| Store (`internal/store`) | `feeds`, `items`, `runs`, `filters`, `feed_filters` | save, delete, queue, pause, import, library edits, the merge of a refresh | no edit is overwritten by an older refresh; failure counts, validators and links stay true; change times follow the published output |
| Scheduler (`internal/scheduler/scheduler.go`) | `active`, `finished`, `held`, `solving`, `rendering` under one mutex | tick, reserve, refresh, finish, hold, Retry, Preview | one refresh per feed; fresh rows; a due feed runs; refused results are not fetched again at once |
| Alerts (`scheduler/alerts.go`) | feeds reported, times of the outage alerts | alertRefresh, alertNotSaved, alertListed, due, forget | one alert per failure streak, one recovery per alert; an outage is told, at most hourly |
| Backlog and articles (`scheduler/backlog.go`, `article.go`) | feeds with unfetched articles | record, draining, at most 10 articles per refresh | a backlog drains, conditional requests resume, no story is left behind a 304 |
| FlareSolverr client (`internal/flaresolverr`) | slots, cooling slots | fetch, stats | requests never exceed the slots, a cancelled one cools down |
| Chromium pool (`internal/browser`) | the browser, its renders | render, restart after 100 renders | renders never exceed the slots, no render is cut by a restart |
| Notifier (`internal/notify`) | event queue, batch, drop counters | Notify, run, flush, Close | every event is sent or counted as dropped |
| Output (`internal/feed`, `web.rss`) | none of its own | render, conditional answers | a reader never keeps an outdated copy |
| Handlers (`internal/web`) | none of their own | save, refresh, pause, import, reader links | an acknowledged request takes effect |
| Sessions (`internal/auth`) | session table, failed logins | login, get, logout | at most 32 sessions, none after expiry |
| Row locks on PostgreSQL (`store/save.go`, `library.go`) | locks of feeds and filters | save, filter edit, filter deletion | no deadlock; the rules in force were validated |
| SQLite upgrade (`store/upgrade.go`, `migrations.go`) | database file, copies below `backups/` | copy, reuse, sweep, migrate | a crash at any point leaves a whole database and the copy to go back to |
| PostgreSQL upgrade (`store/postgres.go`) | schema version, advisory lock | initialize, upgrade, cancel | overlapping starts upgrade once; no lock is left behind |
| Quiet feeds (`model/quiet.go`) | times of the feed's row | IsQuiet | a feed that finds stories is not marked |
| Story filters (`internal/filter`) | none | Compile, Combine, evaluate | merged rules keep what each of them keeps |
| Extraction, fetching | none | parsing, one HTTP exchange | outside this model except for their results |
| Process (`cmd/server`) | phase | start, shutdown in order, restart | nothing is stored because of a shutdown |

How they interact. Handlers and the scheduler share the database, and nothing
else but `Scheduler.Retry` and `Preview`. A refresh reads the row of its feed,
works for seconds without a lock, and writes its result in one transaction that
re-reads the version. The scheduler hands each refresh to a goroutine and learns
of its end through two maps. Alerts go to the notifier after the commit.
Readers see the database through two queries. Memory is lost with the process.

Hard behaviours. A tick's list is old when it is used; refreshes, edits,
library edits and deletes interleave; the database refuses writes, and on
PostgreSQL may have applied them; shutdown cancels refreshes half way; several
changes fall in one second; retention removes what a merge inserted; an edit
discards articles while a refresh is fetching them. `PROJECT.json` lists these
as hazards, each at its line with the properties that would notice it.

## Modules

| Module | Models |
|---|---|
| `FeedStore` | The rows, links and filters, and every transaction that writes them, as one action each. |
| `Refresh` | `FeedStore` with the tick goroutine, the refresh goroutines, the handlers and the process around it. |
| `RefreshInv` | The inductive invariant `IndInv` of the theorems. |
| `RefreshQueued` | `Refresh` with a history of queued feeds: the finding about Retry. |
| `Stamped` | Abstract: a document and a stamp that moves forward exactly when it changes. |
| `FeedOutput` | What one feed publishes: merges, retention, edits, change times. Implements `Stamped`. |
| `FeedReader` | `FeedOutput` with a reader that polls between the steps. |
| `FeedOutputDocs` | A statement of `docs/atom.md` that the code does not keep. |
| `Admission` | Which jobs start, the slots of FlareSolverr and Chromium, the requests of a job and the tick's order. |
| `Ledger` | Abstract: events that are owed, told once each, and none left at the end. |
| `Notifier` | The notifier's callers, queues, worker, deliveries and closing. Implements `Ledger`. |
| `NotifierAlerts` | `Notifier` with a history of dropped alerts: the finding about urgency. |
| `CopiedUpgrade` | A start on SQLite: the copy before an upgrade, the upgrade, kills and losses of power. |
| `LockedUpgrade` | Overlapping starts on PostgreSQL, limits and stop signals. |
| `FilterLocks` | Saves, filter edits and deletions on PostgreSQL, by statement and row lock. |
| `BrowserPool` | The browser of the Chromium pool and the renders on it. |
| `Quiet` | The schedule and times of a feed's row, and the mark computed from them. |
| `Alerts` | The events of failing and recovered feeds and of outages. |
| `Backlog` | The articles a refresh fetches, and when the validators are left out. |
| `FilterRules` | Operators: what a filter set keeps, and merging filter sets. |
| `RefreshProofs`, `FeedOutputProofs`, `AdmissionProofs`, `NotifierProofs`, `AlertsProofs`, `BacklogProofs` | The theorems about the component each is named for, `FeedReader` with `FeedOutput`. |
| `StoreProofs` | The theorems about `CopiedUpgrade`, `LockedUpgrade`, `FilterLocks` and `FilterRules`. |
| `PartsProofs` | The theorems about `BrowserPool` and `Quiet`, and about `MCParts` as a whole. |
| `MCRefresh`, `MCFeedOutput`, `MCFeedReader` | Symmetry, a constraint and small dates for TLC. |
| `MCParts` | The eight modules from `CopiedUpgrade` to `FilterRules`, each on a small instance. |

How they fit together. `Refresh` is composed of `FeedStore` and the goroutines;
`FeedReader` of `FeedOutput` and a reader. The other components meet these at
one point each, which both sides state: `Alerts` starts a refresh from the stored
failure count, as `SnapshotFresh` allows; `FilterLocks` refines what `FeedStore` has as
one step per edit; `Admission` treats a render as a request with a slot, `BrowserPool` has what
happens in it; `Notifier` takes the events that `Alerts` hands over; `Quiet` takes from
`FeedOutput` that a refresh stored a new story; `FeedOutput` and `Backlog` take what a filter
set keeps as given, `FilterRules` says what that is for merged ones.
`MCParts` puts parts that share no state side by side: a behaviour is one of
one part, chosen at the start, since a product would only multiply states.

### The refresh cycle

`Refresh` follows a tick in three steps: `ReadFeeds` (the query), `AttachAndForget`
(the links, then `forgetHolds` and `forgetFinished`), and the dispatch loop, one
`SkipFeed` or `StartRefresh` per feed, in any order of the feeds. A refresh goes
through `ReadRules`, `Extract`, the judgement of its outcome
(`JudgeKeeps`, `JudgeDiscards`), one of three saves, `Settle` (Retry, released
or hold), `RecordEnd` and `ReleaseSlot`: the points between two locks or
statements are points between two steps, so every interleaving of them with
handlers and other refreshes is explored. Handlers are two steps where the code
makes two calls (store, then Retry).

Abstractions. `next_run` is reduced to "due", `last_success` to a Boolean,
validators to "there is one". A finish time is "before" or "since" the running
tick's list; clock readings that are equal count as since, as the code does by
comparing with `Before`. A hold keeps its count and whether its time lies ahead.
A source answers 304 with a validator of its own only when asked conditionally.
The feeds use no FlareSolverr or Chromium slot, and no preview or snapshot takes
a worker slot; both are the subject of `Admission`.

History variables: `built` (the effective recipe that produced the stored
stories), `tried` (the version of the last stored result), `streak` (failures
since the last success or edit), `refused` (feeds whose result the database
refused, with no reason since to fetch them again).

### Published output

`FeedOutput` has one feed, a clock in whole seconds that never goes back, the
`feeds` row, the `items` rows and a refresh in progress. `Merge` and
`NotModified` are the transaction of `CompleteWithDiagnostics` for a page that
was read and for a 304, retention included; `Save` is `SaveWithOptions` with its
three changes, each numbered by `Bump` from the one before; `EditFilter` is
`SaveFilter`. A story's identity is its key; its text stands for title, link,
description and image; its body for the article, told apart by the selector and
cleanup rules it was read with. A filter set is the set of keys it keeps. A
selector stands for selector and attribute; feeds that read an attribute, which
cleanup rules do not apply to, are left out. The published document is the
title and, per stored story, text, body and publication date: all that
`Render` and `RenderAtom` read besides the times.

`FeedReader` splits a reader's request at the point where the code does: the
row, then the stories. Only `If-Modified-Since` is modelled; with an ETag the
answer depends on the bytes alone.

`FeedOutput` implements `Stamped` under the mapping
`doc <- Document`, `stamp <- feeds.last_changed` once the feed has succeeded.

### Admission

`Admission` follows `reserve` for feeds and previews: with a FlareSolverr kind in
two steps under the mutex (`ReadStats`, `Decide`), because `Stats` and `Cooling` are
two reads of counters the client changes without that mutex, otherwise in one
(`Reserve`). A job then makes its list request and, if its recipe renders
articles, up to `MaxArticles` more, one at a time, as `fetchArticles` does for such
feeds; before each it waits for a slot (`Acquire`, `GiveUp`). `Interrupt` is the
deferred function of `Client.Fetch` that keeps the slot, `CoolingOver` and `LetGo` are
the two steps of its timer. `DoneWithSolver`, `DoneWithChromium`, `ArticlesFetched`
and `Release` give admissions back where the code does. Articles fetched as plain
HTML need no slot and are no step. A page load of the visual selector (`Snapshot`)
is a preview without articles, except that the code gives its admissions back
with its worker rather than before.

`due` is the order by `next_run`: a feed that falls due, or is edited during its
refresh, goes to the end. Holds, ends of refreshes against older lists and what
a refresh stores are in `Refresh`; both pools are configured.

`WaitsExcused` says why an admitted job may still find every slot taken: a request
was interrupted while it was admitted, or it waits for Chromium behind a render
that needed no admission, of a preview or of an Auto fallback. The comment on
`Client.Cooling` (client.go:88) reads as if no job could wait; the first reason is that
the job of an interrupted request goes on to its next article.

History variable: `excused`, the jobs that were admitted to FlareSolverr while a
request was interrupted.

### Notifications

`Notifier` models the atomic operations of `notify.go` one by one: the channel
send or the default branch of `Notify` (`Queue`, `Drop`), its two writes after a
drop (`CountDrop`, `MarkDrop`), each receive of the worker (`Collect`, `Flush`),
the two swaps of `send` (`SwapDrops`, `SwapAlert`) and each delivery attempt
(`Post`, `PostFails`, `Retry`). `Close` follows `JobsEnd` as in `main.go`. An event
is its kind. A message lists at most `MaxLines` events, and an ntfy body ends where a
line no longer fits: how many it lists is a choice from `MinLines` up, since
names and errors may be long. `DatabaseListed` promises no more server-wide
events than their queue and the shortest list hold. The test message is delivered by its handler
and shares no state with the worker.

History variables: `told` (events of messages whose delivery ended), `dbRaised` and
`dbTold` (server-wide events raised, and listed by such messages). A message
that the service refuses counts as told: giving up after three tries is what the
notifier promises. `Notifier` implements `Ledger` under `owed <- Owed`: an event
counts as owed wherever it waits, in a queue, between the two writes of a caller,
in a counter, the batch or the message.

### Failure alerts

`Alerts` follows `alertRefresh`, `alertNotSaved` and `alertListed`. A refresh ends in two
steps, the commit (`Store`, `LoseAnswer`, `RefuseResult`, `DiscardResult`) and the alert
(`AlertRefresh`, `AlertNotSaved`), so that a save, a deletion, a shutdown or a kill may fall
between them; the tick's list is read (`ListSucceeds`, `ListFails`) before its feeds
are dispatched. A restart may come up with another threshold or without a
notifier. Time is counted in parts of an hour. `LoseAnswer` is the commit on
PostgreSQL that is applied while its answer is lost (store.go:398): the count is
stored, the scheduler takes the result for refused (scheduler.go:564), and
`alertRefresh` does not follow.

`AlertsFollowStreak` relates the last event told of a feed to its stored streak.
It excuses what the code cannot know: a kill between the commit and the alert,
a lost answer to a commit that called for an event (`Calls`), another threshold since, and a feed that was saved and met by a restart since its
alert, whose recovery is then not told, because the count is zero and
the memory gone. A lost answer costs most at the threshold: the next failure is
past the equality of alerts.go:93, so no failing event goes out for that streak,
and only its recovery is told. A recovery lost so is made up for: the memory
still has the feed, and the next success tells it, unless a restart comes first.
`OutagesTold` covers the two alerts that have an hourly limit, from both sides: an
outage met is told unless the process told the same within the hour, and
no process tells it twice within the hour (`hasty`). A restart forgets the times,
as the code does.

### Articles

`Backlog` is one full-content feed: `Request` (with or without the validators,
`Draining`), `FetchArticles` (at most `Limit`, those never fetched first, a deadline that
leaves some, failures of pages), `Complete` (merge and retention by `Ranked`),
`LoseAnswer` (the same merge, whose answer is lost) and `RecordBacklog`. A story is its place in the order that breaks ties; undated
stories are as new as their first merge. The histories `full`, `failed` and `barren`
start again with the validators, so a save resets them.

`recordBacklog` follows only a commit that was answered (scheduler.go:576). After a
lost answer on PostgreSQL the page's validators are stored and the flag is what
it was before. If it was "no", the next request is answered 304 and the stories
the refresh left wait until the page changes or a start forgets the flag:
`NoStoryStranded` excuses this (`barren`) until a later refresh reads the page. If
it was "yes", or unknown, the whole page is requested once more, and
`BacklogEnds` counts from there. A result that the database refused is not
counted either: nothing is stored, the feed is held and asks again.

### Upgrades

`CopiedUpgrade` has one action per step of `OpenWithOptions`, `backupBeforeUpgrade` and
`initializeSQLite`. Every step may fail (`Fails`, with the deferred removal of the
partial copy), the process may be killed (`Killed`) and the machine may lose
power (`LosePower`): then a file keeps what was flushed, and each thing that
was not may or may not be there (`AfterOutage`). The contents of a database are
the number of writes it has seen, so "exactly this database" can be said. Between
starts an older release may run and write.

An earlier identical copy is reused without flushing the directory that its
rename changed (upgrade.go:170). When the start that made it was killed between
`Rename` and `syncDirectory`, and the power fails after the upgrade, that copy may be
back under its partial name: `CopyToGoBackTo` excuses this (`loose`), and keeps
the excuse for the starts that follow. `docs/operations.md` says that abandoned copies are removed by the next start;
the sweep runs only in starts that copy.

`LockedUpgrade` has `OpenPostgres` of several processes: the two transactions under one
advisory lock, the version read again under it, the statement in progress
when a limit or a stop signal ends the start, and the session that a
process leaves behind. `upgradePostgres` asks the server to cancel its statement,
and waits, only from postgres.go:206 on (`Interrupted`, `Canceled`). What runs
under the lock before that, `lockPostgresSchema` in both transactions and the
tables of an empty database, is dropped by the driver at the limit without
such a wait (`StartLimit`), so the server may go on running it with the lock.
`LeftLockExcused` excuses that (`unsent`), as it does a kill and a request that does
not get through: what it promises is about an upgrade in progress.

### Row locks

`FilterLocks` takes each statement of `SaveWithOptions`, `SaveFilter` and `DeleteFilter` that locks
or reads rows as a step. A row lock is held to the end of its transaction.
PostgreSQL's rule that a waiting statement continues with the row as committed
is the reason the rules are read when the lock is granted, not before.

### Chromium and quiet feeds

`BrowserPool` numbers the browsers; `StartNew` and `Reuse` are `startLocked` under the
pool's mutex. `LoseConnection` may strike any browser at any time.

`Quiet` has every write of the columns that `IsQuiet` reads. A refresh may be stored
and its answer lost: the row moves and the feed is held. `MarkedForReason` excuses
(`hurried`) a feed between an edit, a resume or a manual refresh and the refresh this
makes due: a resumed feed is marked until then, which is what the listing shows.

### Filters

`FilterRules` writes rules as trees and evaluates them over the set of keyword
rules a story matches. Its merged sets may be one level deeper than their
deepest part when a root does not use the joining operator; the comment at
combine.go:11 says otherwise, and `Compile` then rejects a combination at the limit.

## Runs

| Run | Asks | Bounds |
|---|---|---|
| `library` | With one feed linked to a library filter: fresh rows, results in force, validators of the recipe in force, edits stay due. | 1 feed, 1 filter, 2 rule sets, 2 workers, 3 versions |
| `holds` | With a database that refuses results and a process that stops and restarts: one refresh per feed, failure counts, shutdown and refused results. | 1 feed, 2 workers, 2 failures, 2 refusals, 1 restart |
| `live` | Under fairness a due feed is refreshed, and deleted feeds leave the maps. | 1 feed, 1 worker, 1 refusal, 1 restart |
| `queued` | Finding: a hold set after Retry keeps a queued feed waiting. | 1 feed, 1 worker |
| `times` | Change times of feed and stories against what is published. | 2 stories, 2 texts, limits 1 and 2, 3 seconds, 2 versions |
| `bodies` | Articles under edits of selector and cleanup rules. | 2 stories, 2 selectors, 2 rule sets, 2 seconds, 3 versions |
| `reader` | A reader between row and stories. | 2 stories, 2 titles, 2 texts, limit 1, 2 seconds |
| `cleanup` | Finding: a cleanup edit discards the article of an unlisted story. | 2 stories, limit 1, 3 seconds |
| `admission` | Admissions cover every request of a job; an admitted job waits only for the two reasons of `WaitsExcused`; under fairness every due feed runs. | 2 feeds, 1 preview, 2 workers, 2 solver slots, 1 Chromium slot, 2 articles, 3 arrivals |
| `events` | Events of callers that meet full queues, a full batch and a closing notifier are told once or counted, and none is left when Close ends; the database's are listed; under fairness what is queued is delivered. | 2 callers, 5 events, 2 feed events and 1 other may wait, 2 tries |
| `alerts` | Finding: the urgency of a dropped alert goes to another message. | 1 caller, 3 events |
| `parts` | Eight small components, each alone; what it asks of each is in the next table. The merging of filters is evaluated as `MergingAssumption`. | below |

| Part of `parts` | Asks | Bounds |
|---|---|---|
| `CopiedUpgrade` | A database is never between two schemas (`UpgradedWhole`); the copy to go back to is there (`CopyToGoBackTo`); copies do not pile up (`CopiesBounded`). | 3 schemas and a later one, 3 directories, 1 write of an older release, 1 loss of power |
| `LockedUpgrade` | Each step is committed once, all together (`UpgradedWhole`); an upgrade that is ended leaves no lock behind (`LeftLockExcused`). | 3 schemas, 2 processes, 3 starts |
| `Alerts` | Events follow the streak, over kills and lost answers; an outage is told, and once an hour at most (`AlertsFollowStreak`, `OutagesTold`). | 1 feed, thresholds 1 and 2 or none, 3 failures, an hour of 2 steps, 1 restart |
| `Backlog` | Stored requests without validators end (`BacklogEnds`); no story is stranded behind a 304 (`NoStoryStranded`); both over lost answers. | 4 stories on 2 pages, 1 article per refresh, 2 stories kept |
| `FilterLocks` | No deadlock (`NoLockCycle`); what is committed was validated (`RulesValidated`). | 2 feeds, 2 filters, 2 transactions, 1 edit per filter |
| `BrowserPool` | No render is cut off, no browser left behind (`NoRenderCut`). | 3 renders, 2 slots, 2 renders per browser, 3 browsers |
| `Quiet` | A marked feed has a reason (`MarkedForReason`). | intervals 1 and 2, a chosen threshold of 2, floor 4, margin 2, 5 units of time |
| `FilterRules` | Merged filters keep what all of them keep; `Says` describes the evaluation. | all rules of two levels over 2 keywords |

Of the parts: three directories hold an earlier copy, a new one and what a kill
left. A second process and a third start let one wait, one upgrade and one come
after both. One restart reaches every pair of settings before and after it.
The first page lists more stories than are kept, which push each other out at
every request; the second has an old story before a new one. A save, an edit and
a deletion deadlock, if they do, in pairs. The intervals of `Quiet` differ, and the
chosen threshold is shorter than the longer one with its margin.

Why the bounds are enough. `MaxVersion`, `MaxFailures`, `MaxHold`, `MaxRestarts`,
`MaxTime`, `MaxLead`, `MaxArrivals` and `MaxEvents` only stop actions; no action depends on them otherwise.
Two refreshes of one feed can overlap only as "one ending, one starting", which
two workers and one feed show; what feeds share is only the slots. Three
versions let an edit overtake a refresh that overtook an edit. Three arrivals and two solver slots let one job be interrupted and two more
compete for the slot that is left; `auto_articles` and `solver_articles` between them
take every path of a job. Two seconds give
changes in one second and in the next; `MaxLead` lets `last_changed` run two
seconds ahead of the clock, which takes a burst of changes. Two stories under a limit of one give every
case of retention: a newcomer that displaces, one that is removed at once, and a
tie. Five events fill the queue, the batch and the message and leave one
to drop, while a second caller is between its two writes. `Symmetric` permutes workers, of which no action
prefers any; it is used for safety only. Deadlock is checked in every run but
`parts`, whose parts may stop, as a process that is not started again does; the
end of the process after `Close` is the stutter `Ended`.

Fairness of `Notifier`, used by `events`: weak fairness of the worker (a
goroutine that runs; every attempt has a timeout), of `Cancel` (`Close` waits no
longer than `FlushGrace`) and of a caller between its two writes. None of callers,
of `JobsEnd` or of `Close`.

Fairness of `Admission`, used by `admission`: weak fairness of the ticker and the
dispatch loop, of each job (its requests have deadlines), of a handler inside
`reserve`, and of the timers of kept slots. None of arrivals. Because arrivals
are bounded, `DueRuns` says that no slot or admission is lost; it does not say
that previews or younger feeds, arriving for ever, cannot keep a feed waiting.

Fairness of `Refresh`, used by `live`. Weak fairness of `Tick`: the ticker fires while
the process is up. Strong fairness of `AttachAndForget` and `SaveStored`: a read
of the library, or a write of a result, does not fail every single time; without
it a database that always refuses keeps a feed out, as it does in reality. Weak
fairness of each goroutine: a refresh has a deadline. Weak fairness of
`HoldExpires`: time passes; of `RetryHeld`: a handler that wrote goes on; of
`Exit` and `Restart`: the operator's supervisor starts the service again.
No fairness is assumed of readers, handlers' arrival, sources or `NextRunReached`.

## Findings

- `queued`: `Scheduler.refresh` calls `hold` after the database refused its
  result, in a step of its own. A manual refresh between the two is queued and
  finds no hold to lift; the hold is then set and the feed waits it out, against
  "Queued means queued" in `web.go`.
- `cleanup`: `clearArticleBodies` takes the stories with the greatest
  `last_seen` for those the latest refresh listed. If retention removed all that
  refresh stored, they are those of an earlier one, and lose articles that
  `docs/atom.md` says they keep.
- `alerts`: `Notify` counts a dropped event and then records that it needed
  attention; `send` swaps both. If the swaps fall between, the message counts
  the event without being urgent, against "An event only counted still decides
  how urgent the message is" in `notify.go`, and the next message is urgent
  whatever it says. Both parts of the event are told, in two messages.

## Proofs

Every theorem holds for all values of the constants that satisfy the named
assumption in front of it; TLC evaluates each of these assumptions in a run.
Every invariant that a passing run checks is stated by a theorem, and so are its
action properties and both refinements. The bounds of the models (`MaxVersion`,
`MaxTime`, ...) are naturals and no more: no argument uses their values.

`RefreshProofs`. Bounds are naturals, `Feeds`, `Recipes` and `Rules`
are not empty, `Workers` is finite and not empty. `Typing` is proved alone, one lemma per
group of actions. The safety properties are not inductive: that a refresh
holds a fresh row follows from what the tick's list said when the refresh was
reserved, and that from `finished`. `IndInv` adds two facts. `ListOK`: an entry of the
list is out of date only if the version of the feed moved, or a refresh of it
was answered since the list was read, and then that refresh still has to
record its end or is recorded as "since", so `CanReserve` refuses the entry. `JobOK`: a
refresh not yet answered has seen the row as it is, unless the version
moved, and has used the recipe in force if it has a result. The lemmas
`EditStepsInv`, `TickQuietInv`, `StartRefreshInv`, `QuietJobInv`, `SaveInv` and `GoneInv` keep it, `NextInv` puts
them together, and `StoreSafe`, `EditDue`, `StreakCounted`, `OneRefresh`, `FreshSnapshots`, `ResultsInForce`,
`ShutdownKept` and `HeldNotFetched` follow.

`FeedOutputProofs`. `FeedTyped`, `StoriesNotAhead`, `ArticlesSelected` and `ArticlesCleaned` have the invariants,
`FeedImplementsStamped` the refinement of `Stamped`, `EntryTimesMove` and `NewStoriesOnly` the action properties. The first
question is why a change always gets a later time than the one published:
`ChangeTime` and `Bump` take the greater of the clock and `last_changed + 1`, so a step
publishes a change exactly when it moves the time (`MergePublishes`, `EditPublishes`).
That needs to know which merges change the document: `KeptAre` and `RetainedFull` say
that retention removes a story only for a newcomer that stays, or when more are
stored than allowed, and `Room` that the latter happens only when all of them were first stored in an
earlier second. `BodiesMatchSelector` and `CleanedBodies` rest on `JobCurrent` (a refresh
that is accepted read with the recipe in force) and `ListedKnown` (while any body is stored, the
stories with the greatest `last_seen` are those the last refresh stored).
`ReaderSafe` adds `ReaderBehind`: what a reader holds is of the feed's past, and a time the
feed still has goes with the document it still has. The answer's row is read
before its stories, so a copy is never older than its time.

`AdmissionProofs`. An admission is given while fewer are out than there are slots not kept,
in two steps under the mutex. `SolverRoom` is what survives the client's own
counting: admissions and kept slots fit the pool together unless every admission is
excused, because an interrupted request keeps a slot that its own job was
admitted for. `Admitted` says which stages of which jobs need one. From these follow `SlotsKept`
(nothing exceeds its slots), `AdmittedRequests` and `ExcusedWaits`.

`NotifierProofs`. The invariant bounds the batch by what `batch.add` leaves room for, and says what is
empty at which step of the worker (`Stages`), that nobody calls once the worker is told to
stop (`Stopping`), and that what `flush` has emptied stays empty (`Flushes`). The refinement
`NotifierImplementsLedger` is one lemma per step: every step moves events from one term of `Owed`
to another (`QueueOK`, `TakeOK`, `SwapDropsOK`, ...), raises one, or tells a message (`EndDeliveryOK`),
and the last message holds all that is owed (`LastMessage`). `DatabaseHeard` is counting: a
server-wide event is dropped only behind a full queue of them.

`AlertsProofs` (`StreaksTold`, `OutagesEnd`). What a feed was last told is nowhere stored. The memory has
it until a restart (`Remembered`), and the stored count until a save (`StandsOver`), so only both
together lose it, which is the case the property excuses. `Owing` is the property with what a result
that is stored and not yet told owes it; `OneAlert` says that an alert of this streak went out at
the threshold, which the next failure is past. `LoseAnswerInv`: a lost answer that calls for no event owes
none, because what is stored agrees with what was told, and one that does excuses
the feed. For the hourly limit, `Outages` has the time of the last event as
the process remembers it (`last`) equal to the one it was really sent (`toldAge`).

`BacklogProofs` (`BacklogDrains`, `NothingStranded`). For the first, a refresh that asks for the whole page
again does so because the one before it stored more articles of the page than
there were, and left a story that is stored without one: `Counted` has the number of such
refreshes at most that of the page's stories with an article, which is below the
number that can be stored. A lost answer sets the number to zero and the next
refresh to one, which is the smallest bound. For the second, `FetchedOK` and `StoredOK`: each listed story has an
article, was tried, or is left, before and after retention, so a flag "no" means that
none is left, or that the refresh brought none, could not be counted or was not answered. `JobOK`
ties the flag to what the refresh asked for; an edit makes the job stale and clears
the validators, and the argument starts again.

`StoreProofs`, SQLite (`CopyKept`, `CopiesFew`, `SchemaKept`, `UpgradeNamed`). `CopyInv` follows one directory: what each step of a
start has flushed of it (`MineOK`), so that it is complete on the disk when it gets
its final name (`FinalsComplete`), and that the database about to be upgraded has such
a copy with a flushed name (`CopiedFirst`), which becomes the copy of the database that was
replaced (`OriginKept`). Nothing touches a final directory, so every other step keeps
what is `Durable`. `BoundInv` adds that a copy gets its final name only where no other
holds the same database, because `ReuseCopy` has looked, and that the only partial
directory is the one of this start, because the sweep has removed the others. `SchemaInv` needs only which schemas the start writes to.

`StoreProofs`, PostgreSQL (`UpgradeOnce`, `LockExcused`, `LockNamed`). `UpgradeInv`: the lock is held by the one process that
looks at the schema or changes it, and what a process has read under the lock
is still so. `Abandons` is the only step that leaves a session behind, and
`InterruptedCancels` is none: it keeps the process until the server has answered.

`StoreProofs`, row locks (`Validated`, `NoDeadlock`, `RowsNamed`). `LockInv`: an exclusive lock is the only one on its row; a save holds
the filters it has read, an edit its filter and the feeds it has validated, and
each feed of the edit's filter is validated or still in its list. There is no circle
because every transaction takes its rows in one order, the filters before the feeds
and each by id: `OrderInv` says that what it holds comes before what it has still to lock, so a
transaction waits for one whose next row is further on (`OrderedWaits`), and of finitely
many rows one is last.

`StoreProofs`, filters (`CombinedKeeps`). Merged sets keep a story exactly if every set does. The theorem
assumes of the evaluation only that a rule matches as `Says` has it, given which
of the rules below it match: that a recursive evaluation does so for trees of any
depth is induction over data, which these provers cannot do. TLC checks it for
rules of two levels.

`PartsProofs`, the pool (`RendersKept`, `PoolBounded`). `active` is the number of renders, so a browser is replaced only
when no render is on it or it has been lost.

`PartsProofs`, quiet feeds (`MarkedHonestly`, `QuietTyped`). After a refresh with a new story, and no request since, the next one
is due an interval and the jitter after that story; no threshold is shorter than
an interval and the margin (`ThresholdOutlasts`, from the assumption that
the automatic one is not, which `CodeThresholds` proves of the code's numbers).

`PartsProofs`, the composition. `PartsKeepSpecs`: each step of `PartsSpec` is a step of one part and a
stutter of the others, so a behaviour of `MCParts` is one of each part. What is proved of the parts
alone thereby holds of the specification that TLC runs: `DatabaseWhole`, `PartsFollowStreaks`, `PartsTellOutages`,
`PartsEndBacklogs`, `PartsStrandNothing` and `PartsTyped`. The facts of `AlertsProofs` and `BacklogProofs` come through
INSTANCE with the renaming that `MCParts` uses.

What the proofs changed in the models. `FeedOutput` chose its discarded and spared stories by CASE
with guards that overlapped; they are now disjoint. `Notifier` keeps the batch and the message as
counts, which is all their order in the code decides. `Alerts`' deletion of a feed no longer
made a result that was already stored count as not overtaken. `FilterLocks` assumes that there are finitely
many feeds and filters. `Backlog` states the order of articles and of stories instead of sorting them;
its state graph is the same.

Only model-checked, because fairness and ENABLED are beyond the prover: the liveness properties of `live`,
`admission` and `events`. What recursive data would need induction for is named
above; where a first element of a finite set was enough (`FirstElement`, `OrderedWaits`) the library's facts on
finite sets and their strict inclusion gave it. The runs that expect a violation show one, and need no proof.

## Not modelled

- Extraction, character sets, HTML sanitising, rendering of XML and HTML,
  metrics, the selector tool, the browser scripts, configuration and the release
  scripts hold no state that others act on, or are data processing whose
  result the models take as an input.
- Sessions (`internal/auth`): a table in memory under one mutex, every operation one
  critical section. Its cap and expiry are sequential code with unit tests.
- The bounds that `filter.Compile` checks and its normalisation of text.
- The limits on the number of feeds and filters, and the deadline of history
  pruning: an expired deadline is a `Rollback`.
- The service behind FlareSolverr's protocol and the page policy of Chromium: a
  request has an outcome.
- The test message of the notifier and its statistics.
- The clock is assumed not to go back: the code compares `last_changed` with
  `last_changed+1` to survive that for the feed, but `last_seen` and the retention order
  are plain clock readings.
- Changes of `PUBLIC_BASE_URL` and releases that write stories differently change
  bytes without `Last-Modified`, which `docs/atom.md` states.

## What could follow

An abstract specification for `Refresh`: a feed whose edits and results take effect one after the
other, implemented with the mapping that drops the goroutines. One for `Alerts`, in which an
event follows the streak at once. The limits that `filter.Compile` checks, so that a combination at the
limit can be followed from the editor to the refresh.
