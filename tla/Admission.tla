----------------------------- MODULE Admission -----------------------------
(***************************************************************************)
(* Which jobs start, and what they then wait for: Scheduler.reserve with   *)
(* its worker, FlareSolverr and Chromium admissions, the dispatch loop of  *)
(* a tick, previews, the requests a job makes, and the slots of the        *)
(* FlareSolverr client, one of which stays taken ("cooling") for a while   *)
(* after an interrupted request.                                           *)
(*                                                                         *)
(* What a refresh stores is the subject of Refresh: here its save takes    *)
(* the feed out of the due ones, or puts it behind them when an edit       *)
(* discards the result.  Both pools are configured.                        *)
(***************************************************************************)
EXTENDS Naturals, Sequences, SequencesExt, FiniteSets

CONSTANTS
  Feeds,          \* jobs of the tick
  Previews,       \* jobs of handlers: previews and page loads
  Kinds,          \* how their pages are fetched
  Workers,        \* STATIC_WORKERS
  SolverSlots,    \* FLARESOLVERR_SLOTS
  ChromiumSlots,  \* BROWSER_SLOTS
  MaxArticles,    \* article pages of one job
  MaxArrivals     \* bound: feeds that fall due and previews asked for

VARIABLES
  job,         \* per job, its next step, kind, outcome and articles left
  solving,     \* jobs admitted to FlareSolverr
  rendering,   \* jobs admitted to Chromium
  mu,          \* who holds Scheduler.mu between two reads of the client
  cooling,     \* Client.cooling: slots kept after an interrupted request
  leaving,     \* slots no longer counted there and not yet given back
  due,         \* the due feeds, oldest first
  list,        \* what dispatch has not yet looked at
  finished,    \* feeds that finished since the list was read
  arrivals,    \* feeds that fell due and previews so far
  \* History: admitted while some request was interrupted.
  excused

vars == <<job, solving, rendering, mu, cooling, leaving, due, list, finished,
          arrivals, excused>>

Jobs == Feeds \union Previews

\* The fetch mode of the list page, and whether that mode renders the articles.
AllKinds == {"static", "static_articles", "auto", "auto_articles", "chromium",
             "chromium_articles", "solver", "solver_articles"}
IsAuto(kind) == kind \in {"auto", "auto_articles"}

ASSUME AdmissionAssumption ==
  /\ Kinds \subseteq AllKinds /\ Feeds \intersect Previews = {}
  /\ "none" \notin Feeds \union Previews
  /\ Workers \in Nat \ {0} /\ SolverSlots \in Nat \ {0}
  /\ ChromiumSlots \in Nat \ {0}
  /\ MaxArticles \in Nat /\ MaxArrivals \in Nat

UsesSolver(kind) == kind \in {"solver", "solver_articles"}
ArticlesUseSolver(kind) == kind = "solver_articles"
ArticlesUseChromium(kind) ==
  kind \in {"static_articles", "auto_articles", "chromium_articles"}
RendersPages(kind) == kind = "chromium" \/ ArticlesUseChromium(kind)

Idle == [pc |-> "idle", kind |-> "static", ok |-> FALSE, left |-> 0]

\* Where a job of a kind starts: a static request needs no slot.
Started(kind) ==
  [pc |-> IF IsAuto(kind) \/ kind \in {"static", "static_articles"}
          THEN "static" ELSE "list_wait",
   kind |-> kind, ok |-> FALSE, left |-> 0]

Active == {j \in Jobs : job[j].pc # "idle"}
Waiting == {j \in Jobs : job[j].pc \in {"list_wait", "article_wait"}}
Using == {j \in Jobs : job[j].pc \in {"list_use", "article_use"}}
Requests == {j \in Using : UsesSolver(job[j].kind)}
Renders == Using \ Requests

\* Client.Stats: the slots taken.
Used == Cardinality(Requests) + cooling + leaving

DueFeeds == {d.feed : d \in Range(due)}

NoHolder == [job |-> "none", kind |-> "static", active |-> 0]
Free == mu = NoHolder

Init ==
  /\ job = [j \in Jobs |-> Idle]
  /\ solving = {} /\ rendering = {} /\ mu = NoHolder
  /\ cooling = 0 /\ leaving = 0
  /\ due = <<>> /\ list = <<>> /\ finished = {} /\ arrivals = 0
  /\ excused = {}

----------------------------------------------------------------------------
(* Scheduler.reserve. *)

Greater(a, b) == IF a >= b THEN a ELSE b

\* Wrong variant: only what uses a slot now, or may, is counted.
SolverFreeUncooled(active) ==
  Greater(active, Cardinality(solving)) < SolverSlots

SolverFree(active) ==
  Greater(active, Cardinality(solving) + cooling) < SolverSlots

ChromiumFree == Cardinality(rendering) < ChromiumSlots

\* Wrong variant: a refresh starts without a Chromium slot, like a preview.
NeedsChromiumNever(j, kind) == FALSE

\* A refresh that renders starts only with an admission.
NeedsChromium(j, kind) == j \in Feeds /\ RendersPages(kind)

\* The checks before those of FlareSolverr.
HasWorker(j) ==
  j \notin Active /\ Cardinality(Active) < Workers /\ j \notin finished

\* A job starts, with the admissions of its kind.
Start(j, kind) ==
  /\ job' = [job EXCEPT ![j] = Started(kind)]
  /\ solving' = IF UsesSolver(kind) THEN solving \union {j} ELSE solving
  /\ rendering' = IF RendersPages(kind) /\ ChromiumFree
                  THEN rendering \union {j} ELSE rendering

Refuse == UNCHANGED <<job, solving, rendering>>

\* The reads of Stats and of Cooling are two steps under the lock.
ReadStats(j, kind) ==
  /\ Free /\ UsesSolver(kind) /\ HasWorker(j)
  /\ mu' = [job |-> j, kind |-> kind, active |-> Used]

Decide(j) ==
  /\ mu.job = j /\ mu' = NoHolder
  /\ IF SolverFree(mu.active) THEN Start(j, mu.kind) ELSE Refuse

\* The whole of reserve for a job that needs no FlareSolverr slot, or is
\* refused before that is looked at.
Reserve(j, kind) ==
  /\ Free /\ UNCHANGED mu
  /\ IF HasWorker(j) /\ ~(NeedsChromium(j, kind) /\ ~ChromiumFree)
     THEN ~UsesSolver(kind) /\ Start(j, kind)
     ELSE Refuse

----------------------------------------------------------------------------
(* The tick and the handlers. *)

\* A feed falls due, behind those that already are.
FeedDue(f, kind) ==
  /\ arrivals < MaxArrivals
  /\ f \notin DueFeeds
  /\ due' = Append(due, [feed |-> f, kind |-> kind])
  /\ arrivals' = arrivals + 1
  /\ UNCHANGED <<job, solving, rendering, mu, cooling, leaving, list, finished,
                 excused>>

\* List, sortFeeds and forgetFinished.
Tick ==
  /\ list = <<>> /\ due # <<>> /\ Free
  /\ list' = due /\ finished' = {}
  /\ UNCHANGED <<job, solving, rendering, mu, cooling, leaving, due, arrivals,
                 excused>>

\* dispatch looks at its next feed.
DispatchReads ==
  /\ list # <<>> /\ ReadStats(Head(list).feed, Head(list).kind)
  /\ UNCHANGED <<job, solving, rendering, cooling, leaving, due, list, finished,
                 arrivals, excused>>

Dispatch ==
  /\ list # <<>> /\ list' = Tail(list)
  /\ LET next == Head(list)
     IN Decide(next.feed) \/ Reserve(next.feed, next.kind)
  /\ UNCHANGED <<cooling, leaving, due, finished, arrivals, excused>>

\* Preview and Snapshot: a refusal is answered at once.
PreviewReads(j, kind) ==
  /\ arrivals < MaxArrivals /\ arrivals' = arrivals + 1
  /\ ReadStats(j, kind)
  /\ UNCHANGED <<job, solving, rendering, cooling, leaving, due, list, finished,
                 excused>>

PreviewDecides(j) ==
  /\ Decide(j)
  /\ UNCHANGED <<cooling, leaving, due, list, finished, arrivals, excused>>

Preview(j, kind) ==
  /\ j \notin Active
  /\ arrivals < MaxArrivals /\ arrivals' = arrivals + 1
  /\ Reserve(j, kind)
  /\ UNCHANGED <<cooling, leaving, due, list, finished, excused>>

----------------------------------------------------------------------------
(* The requests of a job. *)

At(j, pc) == job[j].pc = pc
Goes(j, pc) == job' = [job EXCEPT ![j].pc = pc]

\* A job needs its kind and outcome no longer once it has asked for its last
\* page.
Fetched(j) == job' = [job EXCEPT ![j] = [Idle EXCEPT !.pc = "fetched"]]

\* extract without a browser; Auto renders when it finds no stories.
FetchStatic(j) ==
  /\ At(j, "static")
  /\ \/ \E ok \in BOOLEAN :
          job' = [job EXCEPT ![j].pc = "listed", ![j].ok = ok]
     \/ IsAuto(job[j].kind) /\ Goes(j, "list_wait")
  /\ UNCHANGED <<solving, rendering, mu, cooling, leaving, due, list, finished,
                 arrivals, excused>>

\* A slot of the client or of the pool.
Acquire(j) ==
  /\ j \in Waiting
  /\ IF UsesSolver(job[j].kind) THEN Used < SolverSlots
     ELSE Cardinality(Renders) < ChromiumSlots
  /\ Goes(j, IF At(j, "list_wait") THEN "list_use" ELSE "article_use")
  /\ UNCHANGED <<solving, rendering, mu, cooling, leaving, due, list, finished,
                 arrivals, excused>>

\* A request is over: the list page is there or not; another article follows,
\* or none, because that was the last or the job's deadline has passed.
Over(j, outcomes) ==
  IF job[j].pc \in {"list_wait", "list_use"}
  THEN \E ok \in outcomes :
         job' = [job EXCEPT ![j].pc = "listed", ![j].ok = ok]
  ELSE \/ job[j].left > 1
          /\ job' = [job EXCEPT ![j].pc = "article_wait", ![j].left = @ - 1]
       \/ Fetched(j)

\* The wait for a slot ends with a deadline.
GiveUp(j) ==
  /\ j \in Waiting /\ Over(j, {FALSE})
  /\ UNCHANGED <<solving, rendering, mu, cooling, leaving, due, list, finished,
                 arrivals, excused>>

\* A complete answer, a request that never connected, a render: the slot is
\* given back.
Answer(j) ==
  /\ j \in Using /\ Over(j, BOOLEAN)
  /\ UNCHANGED <<solving, rendering, mu, cooling, leaving, due, list, finished,
                 arrivals, excused>>

\* A solver request is cancelled or breaks off: its slot is kept.
Interrupt(j) ==
  /\ j \in Requests /\ Over(j, {FALSE})
  /\ cooling' = cooling + 1 /\ excused' = solving
  /\ UNCHANGED <<solving, rendering, mu, leaving, due, list, finished, arrivals>>

\* The timer of a kept slot fires: cooling.Add(-1), then the slot.
CoolingOver ==
  /\ cooling > 0 /\ cooling' = cooling - 1 /\ leaving' = leaving + 1
  /\ UNCHANGED <<job, solving, rendering, mu, due, list, finished, arrivals,
                 excused>>

LetGo ==
  /\ leaving > 0 /\ leaving' = leaving - 1
  /\ UNCHANGED <<job, solving, rendering, mu, cooling, due, list, finished,
                 arrivals, excused>>

----------------------------------------------------------------------------
(* The rest of a job. *)

\* Wrong variants: no job keeps an admission past its list page.
KeepsNothing(j) == FALSE

KeepsSolver(j) == job[j].ok /\ ArticlesUseSolver(job[j].kind)

KeepsChromium(j) == job[j].ok /\ ArticlesUseChromium(job[j].kind)

DoneWithSolver(j) ==
  /\ Free /\ At(j, "listed") /\ Goes(j, "solved")
  /\ IF KeepsSolver(j) THEN UNCHANGED <<solving, excused>>
     ELSE solving' = solving \ {j} /\ excused' = excused \ {j}
  /\ UNCHANGED <<rendering, mu, cooling, leaving, due, list, finished, arrivals>>

\* What fetchArticles asks of a browser, one page after the other.
DoneWithChromium(j) ==
  /\ Free /\ At(j, "solved")
  /\ rendering' = IF KeepsChromium(j) THEN rendering ELSE rendering \ {j}
  /\ \/ Fetched(j)
     \/ /\ job[j].ok
        /\ ArticlesUseSolver(job[j].kind) \/ ArticlesUseChromium(job[j].kind)
        /\ \E left \in 1..MaxArticles :
             job' = [job EXCEPT ![j].pc = "article_wait", ![j].left = left]
  /\ UNCHANGED <<solving, mu, cooling, leaving, due, list, finished, arrivals,
                 excused>>

\* After its last article a refresh renders nothing more.
ArticlesFetched(f) ==
  /\ Free /\ At(f, "fetched") /\ Goes(f, "save")
  /\ rendering' = rendering \ {f}
  /\ UNCHANGED <<solving, mu, cooling, leaving, due, list, finished, arrivals,
                 excused>>

\* A feed is due once.
NotDue(f) ==
  IF f \in DueFeeds
  THEN RemoveAt(due, CHOOSE i \in DOMAIN due : due[i].feed = f)
  ELSE due

Save(f) ==
  /\ At(f, "save") /\ Goes(f, "saved")
  /\ \/ due' = NotDue(f) /\ UNCHANGED arrivals
     \/ /\ arrivals < MaxArrivals /\ arrivals' = arrivals + 1
        /\ \E kind \in Kinds :
             due' = Append(NotDue(f), [feed |-> f, kind |-> kind])
  /\ UNCHANGED <<solving, rendering, mu, cooling, leaving, list, finished, excused>>

\* finish, and then release.
Finish(f) ==
  /\ Free /\ At(f, "saved") /\ Goes(f, "finished")
  /\ finished' = finished \union {f}
  /\ UNCHANGED <<solving, rendering, mu, cooling, leaving, due, list, arrivals,
                 excused>>

\* Wrong variant: the admission to FlareSolverr is never given back here.
ReleasedSolver(j) == solving

Released(j) == solving \ {j}

Release(j) ==
  /\ Free /\ At(j, IF j \in Feeds THEN "finished" ELSE "fetched")
  /\ job' = [job EXCEPT ![j] = Idle]
  /\ solving' = Released(j) /\ rendering' = rendering \ {j}
  /\ excused' = excused \ {j}
  /\ UNCHANGED <<mu, cooling, leaving, due, list, finished, arrivals>>

----------------------------------------------------------------------------
Scheduling == Tick \/ DispatchReads \/ Dispatch

Handlers ==
  \E j \in Previews, kind \in Kinds : PreviewReads(j, kind) \/ Preview(j, kind)

Run(j) ==
  \/ FetchStatic(j) \/ Acquire(j) \/ GiveUp(j) \/ Answer(j) \/ Interrupt(j)
  \/ DoneWithSolver(j) \/ DoneWithChromium(j) \/ Release(j)
  \/ j \in Feeds /\ (ArticlesFetched(j) \/ Save(j) \/ Finish(j))
  \/ j \in Previews /\ PreviewDecides(j)

\* Everything that fell due has run, and the bound allows no more.
Quiet ==
  /\ arrivals = MaxArrivals /\ due = <<>> /\ list = <<>> /\ Active = {}
  /\ Used = 0 /\ UNCHANGED vars

Next ==
  \/ \E f \in Feeds, kind \in Kinds : FeedDue(f, kind)
  \/ Scheduling \/ Handlers
  \/ \E j \in Jobs : Run(j)
  \/ CoolingOver \/ LetGo \/ Quiet

Spec == Init /\ [][Next]_vars

\* The ticker fires, goroutines run on and their requests have deadlines, and
\* the timer of a kept slot fires.
Fairness ==
  /\ WF_vars(Scheduling) /\ WF_vars(CoolingOver) /\ WF_vars(LetGo)
  /\ \A j \in Jobs : WF_vars(Run(j))

FairSpec == Spec /\ Fairness

----------------------------------------------------------------------------
(* Properties. *)

TypeOK ==
  /\ job \in [Jobs -> [pc: {"idle", "static", "list_wait", "list_use", "listed",
                            "solved", "article_wait", "article_use", "fetched",
                            "save", "saved", "finished"},
                       kind: AllKinds, ok: BOOLEAN, left: 0..MaxArticles]]
  /\ Cardinality(Active) <= Workers
  /\ solving \subseteq Active /\ rendering \subseteq Active
  /\ Used <= SolverSlots /\ Cardinality(Renders) <= ChromiumSlots
  /\ cooling \in Nat /\ leaving \in Nat
  /\ mu = NoHolder \/ mu \in [job: Jobs, kind: Kinds, active: 0..SolverSlots]
  /\ due \in Seq([feed: Feeds, kind: Kinds])
  /\ list \in Seq([feed: Feeds, kind: Kinds])
  /\ finished \subseteq Feeds /\ excused \subseteq solving
  /\ arrivals \in 0..MaxArrivals

\* A job makes a FlareSolverr request only while it is admitted there, and a
\* refresh of a kind that renders, a render: an admission is never given back
\* too early.
RequestsAdmitted ==
  \A j \in Waiting \union Using :
    /\ UsesSolver(job[j].kind) => j \in solving
    /\ j \in Feeds /\ RendersPages(job[j].kind) => j \in rendering

\* A job that was admitted to FlareSolverr finds every slot taken only if a
\* request was interrupted while it was admitted: slots kept before were
\* counted, though the job and the slot it will take are counted in different
\* places at different times.
SolverWaitExcused(j) ==
  UsesSolver(job[j].kind) /\ Cardinality(Requests) + cooling >= SolverSlots
    => j \in excused

\* A job admitted to Chromium waits there only behind a render that started
\* without an admission: of a preview, or of an Auto fallback.
ChromiumWaitExcused(j) ==
  j \in rendering /\ Cardinality(Renders) >= ChromiumSlots
    => \E r \in Renders \ rendering :
         r \in Previews \/ ~RendersPages(job[r].kind)

\* An admission means a free slot, but for these two reasons (solverFree,
\* reserve, Client.Cooling).
WaitsExcused ==
  \A j \in Waiting : SolverWaitExcused(j) /\ ChromiumWaitExcused(j)

\* Every feed that falls due runs in the end: no admission and no slot leaks.
DueRuns == \A f \in Feeds : []<>(f \notin DueFeeds)
=============================================================================
