------------------------------- MODULE Quiet -------------------------------
(***************************************************************************)
(* A feed that refreshes without finding a story is marked quiet: the only *)
(* sign of selectors that match nothing new any more.  A threshold shorter *)
(* than the time to the next refresh would mark feeds that find a story    *)
(* every time.  This is the schedule and the times of one feed's row, and  *)
(* the listing that reads them; Refresh has the scheduler, FeedOutput what *)
(* counts as a new story and the seconds by which two changes of one       *)
(* second differ, which are nothing in the units of this clock.            *)
(***************************************************************************)
EXTENDS Integers

CONSTANTS
  Periods,      \* refresh intervals
  Choices,      \* QuietDayChoices, in units of time
  Floor,        \* QuietFloor
  Multiple,     \* QuietIntervals
  Margin,       \* QuietMargin
  Jitter,       \* the longest jitter
  Backoffs,     \* delays after a failure
  MaxFails,     \* bound: failures in a row
  MaxTime       \* bound: the clock stops here

VARIABLES
  now,
  feed,     \* the row
  job,      \* its refresh: none, running, or running with a row since edited
  held,     \* Scheduler.Held
  \* History.
  dry,      \* a refresh stored nothing new since the last new story
  hurried   \* since the last stored refresh a request made the feed due

quietVars == <<now, feed, job, held, dry, hurried>>

QuietNever == -1
Zero == 0     \* time.Time{}

Larger(a, b) == IF a < b THEN b ELSE a

QuietAfter(interval) == Larger(Floor, Multiple * interval)

\* What the constants are: the automatic threshold outlasts an interval and
\* the margin.  MCParts has it as its assumption.
QuietAssumption ==
  /\ Periods \subseteq Nat /\ Choices \subseteq Nat \ {Zero}
  /\ Floor \in Nat /\ Multiple \in Nat /\ Margin \in Nat /\ Jitter \in Nat
  /\ Backoffs \subseteq Nat /\ MaxTime \in Nat /\ MaxFails \in Nat
  /\ \A interval \in Periods : QuietAfter(interval) >= interval + Margin

Days == Choices \union {0, QuietNever}

\* The row of a feed that was never refreshed.
NewFeed(interval, days) ==
  [enabled |-> TRUE, interval |-> interval, days |-> days, next |-> now,
   failures |-> 0, attempt |-> Zero, success |-> Zero, changed |-> Zero,
   new |-> Zero]

QuietInit ==
  /\ now = 1 /\ job = "none" /\ held = FALSE /\ dry = FALSE /\ hurried = TRUE
  /\ \E interval \in Periods, days \in Days : feed = NewFeed(interval, days)

----------------------------------------------------------------------------
(* The refresh, and what it stores. *)

StartRefresh ==
  /\ job = "none" /\ feed.enabled /\ feed.next <= now /\ ~held
  /\ job' = "running"
  /\ UNCHANGED <<now, feed, held, dry, hurried>>

\* A page that was read, or a 304; found tells whether a story it inserted was
\* kept, moved whether its output changed otherwise, answered whether the
\* scheduler learns of the commit: if not, it holds the feed.
Succeed(found, moved, jitter, answered) ==
  /\ job = "running" /\ job' = "none" /\ held' = ~answered
  /\ feed' = [feed EXCEPT !.failures = 0, !.attempt = now, !.success = now,
                !.next = now + feed.interval + jitter,
                !.new = IF found THEN now ELSE @,
                !.changed = IF found \/ moved \/ @ = Zero THEN now ELSE @]
  /\ dry' = ~found /\ hurried' = FALSE
  /\ UNCHANGED now

Fail(delay, answered) ==
  /\ feed.failures < MaxFails
  /\ job = "running" /\ job' = "none" /\ held' = ~answered
  /\ feed' = [feed EXCEPT !.failures = @ + 1, !.attempt = now,
                          !.next = now + delay]
  /\ hurried' = FALSE
  /\ UNCHANGED <<now, dry>>

\* The database refused the result: nothing is stored, the schedule neither.
Refuse ==
  /\ job = "running" /\ job' = "none" /\ held' = TRUE
  /\ UNCHANGED <<now, feed, dry, hurried>>

\* The result was of a row since edited.
Discard ==
  /\ job = "stale" /\ job' = "none" /\ held' = FALSE
  /\ UNCHANGED <<now, feed, dry, hurried>>

HoldEnds ==
  /\ held /\ held' = FALSE /\ UNCHANGED <<now, feed, job, dry, hurried>>

----------------------------------------------------------------------------
(* The operator. *)

\* A save, from the editor, makes the feed due; it moves the time of the output
\* when the output shows it: another title, URL or interval.
SaveFeed(interval, days, enabled, renamed) ==
  /\ feed' = [feed EXCEPT !.interval = interval, !.days = days,
                !.enabled = enabled, !.next = now, !.failures = 0,
                !.changed = IF renamed \/ interval # feed.interval
                            THEN now ELSE @]
  /\ job' = IF job = "none" THEN job ELSE "stale"
  /\ held' = FALSE /\ hurried' = TRUE
  /\ UNCHANGED <<now, dry>>

\* Resuming a paused feed makes it due.
SetEnabled(enabled) ==
  /\ feed' = [feed EXCEPT !.enabled = enabled,
                !.next = IF enabled /\ ~feed.enabled THEN now ELSE @]
  /\ held' = (held /\ ~enabled)
  /\ hurried' = (hurried \/ (enabled /\ ~feed.enabled))
  /\ UNCHANGED <<now, job, dry>>

QueueFeed ==
  /\ feed' = [feed EXCEPT !.next = now] /\ held' = FALSE /\ hurried' = TRUE
  /\ UNCHANGED <<now, job, dry>>

ClockTicks ==
  /\ now < MaxTime /\ now' = now + 1
  /\ UNCHANGED <<feed, job, held, dry, hurried>>

QuietNext ==
  \/ StartRefresh \/ Refuse \/ Discard \/ HoldEnds \/ QueueFeed \/ ClockTicks
  \/ \E answered \in BOOLEAN :
       \/ \E found, moved \in BOOLEAN, jitter \in 0 .. Jitter :
            Succeed(found, moved, jitter, answered)
       \/ \E delay \in Backoffs : Fail(delay, answered)
  \/ \E interval \in Periods, days \in Days, renamed \in BOOLEAN :
       SaveFeed(interval, days, feed.enabled, renamed)
  \/ \E enabled \in BOOLEAN :
       \/ SetEnabled(enabled)
       \/ SaveFeed(feed.interval, feed.days, enabled, FALSE)

QuietSpec == QuietInit /\ [][QuietNext]_quietVars

----------------------------------------------------------------------------
(* The mark. *)

\* Wrong variant: a chosen threshold may be shorter than the interval.
QuietThresholdChosen(f) == IF f.days > 0 THEN f.days ELSE QuietAfter(f.interval)

\* Of a feed that may be marked.
QuietThreshold(f) ==
  IF f.days > 0 THEN Larger(f.days, f.interval + Margin)
  ELSE QuietAfter(f.interval)

QuietSince(f) == IF f.new # Zero THEN f.new ELSE f.changed

IsQuiet(f) ==
  /\ f.days # QuietNever /\ f.enabled /\ f.failures = 0
  /\ f.success # Zero /\ f.changed # Zero /\ f.success >= f.attempt
  /\ now - QuietSince(f) >= QuietThreshold(f)

\* The library's list and the metrics.
Marked == ~held /\ IsQuiet(feed)

----------------------------------------------------------------------------
(* Properties. *)

QuietTypeOK ==
  /\ now \in Nat /\ held \in BOOLEAN /\ dry \in BOOLEAN /\ hurried \in BOOLEAN
  /\ job \in {"none", "running", "stale"}
  /\ feed \in [enabled: BOOLEAN, interval: Periods, days: Days, next: Nat,
               failures: Nat, attempt: Nat, success: Nat, changed: Nat,
               new: Nat]

\* A feed whose every refresh finds a story is not marked quiet: a marked one
\* was refreshed since its last new story and had none, or its next refresh is
\* later than the margin allows for waiting and fetching.  Excused is the time
\* from an edit, a resume or a request to the refresh it makes due.
MarkedForReason ==
  Marked => dry \/ hurried \/ now >= feed.next + Margin - Jitter
=============================================================================
