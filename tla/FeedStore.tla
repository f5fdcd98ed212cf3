----------------------------- MODULE FeedStore -----------------------------
(***************************************************************************)
(* The database behind internal/store: one row per feed, the filter        *)
(* library, and the transactions that the scheduler and the HTTP handlers  *)
(* run on them.  Every action below is one transaction (or one UPDATE),    *)
(* so it is atomic here; what a caller reads before it and does after it   *)
(* are separate steps of the module Refresh.                               *)
(*                                                                         *)
(* Data abstraction.  next_run is reduced to "due" (next_run <= now),      *)
(* last_success to "succeeded once", the ETag/Last-Modified validators to  *)
(* "some validator is stored", recipes and library rules to model values.  *)
(* The stories themselves are the subject of the module FeedOutput.        *)
(***************************************************************************)
EXTENDS Naturals, FiniteSets

CONSTANTS
  Feeds,        \* feed IDs; an ID is random and never issued twice
  Filters,      \* library filter IDs, likewise
  Recipes,      \* the recipes an operator may save
  Rules,        \* the rules a library filter may hold
  MaxVersion,   \* bound: edits stop once a feed's version reaches this
  MaxFailures   \* bound: a source fails only while the feed's count is below

VARIABLES
  feedState,    \* "unused", "live" or "deleted", per feed ID
  row,          \* the feeds row and its feed_filters rows
  filterState,  \* "unused", "live" or "deleted", per library filter ID
  rules,        \* the rules column of the filters table
  \* History variables: what the stored columns are meant to stand for.
  built,        \* the effective recipe that produced the stored stories
  tried,        \* the recipe version of the last stored result
  streak        \* failed results stored since the last success or edit

storeVars == <<feedState, row, filterState, rules, built, tried, streak>>

ASSUME BoundsAssumption == MaxVersion \in Nat /\ MaxFailures \in Nat
ASSUME ValuesAssumption == Feeds # {} /\ Recipes # {} /\ Rules # {}

LifeCycle == {"unused", "live", "deleted"}

\* The columns of a feeds row that this model tells apart.
Row == [version: Nat, enabled: BOOLEAN, due: BOOLEAN, failures: Nat,
        success: BOOLEAN, etag: BOOLEAN, recipe: Recipes,
        links: SUBSET Filters]

\* The part of a row that a refresh goes by, from the list to its result.
Seen == [version: Nat, failures: Nat, success: BOOLEAN, etag: BOOLEAN,
         recipe: Recipes, links: SUBSET Filters]
See(r) == [version |-> r.version, failures |-> r.failures,
           success |-> r.success, etag |-> r.etag,
           recipe |-> r.recipe, links |-> r.links]

\* A recipe together with the library rules merged into it.
Merged(recipe, links) ==
  [recipe |-> recipe, rules |-> [x \in links |-> rules[x]]]

\* What EffectiveRecipe would return for the row as it is stored now.
Effective(f) == Merged(row[f].recipe, row[f].links)

\* Every value Merged can have, and the mark of a feed without stories.
MergedRecipes ==
  UNION {[recipe: Recipes, rules: [l -> Rules]] : l \in SUBSET Filters}
NothingBuilt == [recipe |-> "none", rules |-> <<>>]

LiveFeeds   == {f \in Feeds : feedState[f] = "live"}
LiveFilters == {x \in Filters : filterState[x] = "live"}

\* The row of a feed that no refresh has touched yet.
NewRow(recipe, links, enabled) ==
  [version |-> 1, enabled |-> enabled, due |-> TRUE, failures |-> 0,
   success |-> FALSE, etag |-> FALSE, recipe |-> recipe, links |-> links]

\* Stands for the row of a feed that has none.
BlankRow == NewRow(CHOOSE r \in Recipes : TRUE, {}, FALSE)

StoreInit ==
  /\ feedState = [f \in Feeds |-> "unused"]
  /\ row = [f \in Feeds |-> BlankRow]
  /\ filterState = [x \in Filters |-> "unused"]
  /\ rules = [x \in Filters |-> CHOOSE r \in Rules : TRUE]
  /\ built = [f \in Feeds |-> NothingBuilt]
  /\ tried = [f \in Feeds |-> 0]
  /\ streak = [f \in Feeds |-> 0]

----------------------------------------------------------------------------
(* Feed saves. *)

\* SaveWithOptions with an empty ID: a new row, due at once.
CreateFeed(f, recipe, links, enabled) ==
  /\ feedState[f] = "unused"
  /\ links \subseteq LiveFilters
  /\ feedState' = [feedState EXCEPT ![f] = "live"]
  /\ row' = [row EXCEPT ![f] = NewRow(recipe, links, enabled)]
  /\ UNCHANGED <<filterState, rules, built, tried, streak>>

\* Import: new rows without library links, always paused.
ImportFeeds(new, recipe) ==
  /\ new # {}
  /\ \A f \in new : feedState[f] = "unused"
  /\ feedState' = [f \in Feeds |-> IF f \in new THEN "live" ELSE feedState[f]]
  /\ row' = [f \in Feeds |-> IF f \in new THEN NewRow(recipe, {}, FALSE)
                                          ELSE row[f]]
  /\ UNCHANGED <<filterState, rules, built, tried, streak>>

\* Wrong variant: an edit that leaves the schedule as it was.
EditedNotDue(r, recipe, links, enabled) ==
  [NewRow(recipe, links, enabled) EXCEPT
     !.version = r.version + 1, !.due = r.due, !.success = r.success]

\* The row r after a save: the validators, the error and the failure count are
\* cleared, the feed becomes due and its version moves.
Edited(r, recipe, links, enabled) ==
  [version |-> r.version + 1, enabled |-> enabled, due |-> TRUE,
   failures |-> 0, success |-> r.success, etag |-> FALSE,
   recipe |-> recipe, links |-> links]

\* SaveWithOptions with an ID.  links is the stored list when the request
\* leaves it out, enabled the stored value when KeepEnabled is set; both are
\* among the values the caller may choose.
EditFeed(f, recipe, links, enabled) ==
  /\ feedState[f] = "live"
  /\ row[f].version < MaxVersion
  /\ links \subseteq LiveFilters
  /\ row' = [row EXCEPT ![f] = Edited(@, recipe, links, enabled)]
  /\ streak' = [streak EXCEPT ![f] = 0]
  /\ UNCHANGED <<feedState, filterState, rules, built, tried>>

\* Delete, whose foreign keys also remove the feed's filter links.
DeleteFeed(f) ==
  /\ feedState[f] = "live"
  /\ feedState' = [feedState EXCEPT ![f] = "deleted"]
  /\ row' = [row EXCEPT ![f] = BlankRow]
  /\ built' = [built EXCEPT ![f] = NothingBuilt]
  /\ tried' = [tried EXCEPT ![f] = 0]
  /\ streak' = [streak EXCEPT ![f] = 0]
  /\ UNCHANGED <<filterState, rules>>

\* Queue: only next_run.  A deleted feed matches no row.
QueueFeed(f) ==
  /\ row' = IF feedState[f] = "live" THEN [row EXCEPT ![f].due = TRUE] ELSE row
  /\ UNCHANGED <<feedState, filterState, rules, built, tried, streak>>

\* SetEnabled: resuming a paused feed makes it due; the version stays.
Switched(r, enabled) ==
  [version |-> r.version, enabled |-> enabled,
   due |-> r.due \/ (enabled /\ ~r.enabled),
   failures |-> r.failures, success |-> r.success, etag |-> r.etag,
   recipe |-> r.recipe, links |-> r.links]

SetEnabled(f, enabled) ==
  /\ feedState[f] = "live"
  /\ row' = [row EXCEPT ![f] = Switched(@, enabled)]
  /\ UNCHANGED <<feedState, filterState, rules, built, tried, streak>>

----------------------------------------------------------------------------
(* The filter library. *)

\* SaveFilter with an empty ID.
CreateFilter(x, r) ==
  /\ filterState[x] = "unused"
  /\ filterState' = [filterState EXCEPT ![x] = "live"]
  /\ rules' = [rules EXCEPT ![x] = r]
  /\ UNCHANGED <<feedState, row, built, tried, streak>>

\* Wrong variants: a filter edit that leaves the version alone, and one that
\* leaves the validators alone.
RefilteredSameVersion(r) == [r EXCEPT !.due = TRUE, !.etag = FALSE]
RefilteredSameValidators(r) ==
  [r EXCEPT !.due = TRUE, !.version = r.version + 1]

\* The row r after an edit of a filter it links: no validators, due, a new
\* version, and the failure count as it was.
Refiltered(r) ==
  [version |-> r.version + 1, enabled |-> r.enabled, due |-> TRUE,
   failures |-> r.failures, success |-> r.success, etag |-> FALSE,
   recipe |-> r.recipe, links |-> r.links]

\* SaveFilter with an ID, which does that in one transaction with the rules.
EditFilter(x, r) ==
  LET users == {f \in LiveFeeds : x \in row[f].links} IN
  /\ filterState[x] = "live"
  /\ \A f \in users : row[f].version < MaxVersion
  /\ rules' = [rules EXCEPT ![x] = r]
  /\ row' = [f \in Feeds |->
       IF f \in users
       THEN Refiltered(row[f])
       ELSE row[f]]
  /\ UNCHANGED <<feedState, filterState, built, tried, streak>>

\* DeleteFilter refuses a filter that some feed uses.
DeleteFilter(x) ==
  /\ filterState[x] = "live"
  /\ \A f \in LiveFeeds : x \notin row[f].links
  /\ filterState' = [filterState EXCEPT ![x] = "deleted"]
  /\ UNCHANGED <<feedState, row, rules, built, tried, streak>>

----------------------------------------------------------------------------
(* The result of a refresh. *)

\* Wrong variant: the version is not compared.
CurrentAnyVersion(f, snap) == feedState[f] = "live"

\* A refresh that read the row snap and ended with result "ok", "notmod" or
\* "fail" may still be stored: CompleteWithDiagnostics finds the row and the
\* version it read.
Current(f, snap) == feedState[f] = "live" /\ row[f].version = snap.version

\* Wrong variant: a success takes one failure back.
CompletedPayback(stored, snap, result, etag) ==
  [stored EXCEPT !.due = FALSE, !.success = @ \/ result # "fail",
     !.etag = IF result = "fail" THEN @ ELSE etag,
     !.failures = IF result = "fail" THEN snap.failures + 1
                                     ELSE snap.failures - 1]

\* The row CompleteWithDiagnostics writes.  The failure count comes from the
\* row the refresh read, not from the stored one.
Completed(stored, snap, result, etag) ==
  LET failed == result = "fail" IN
  [version |-> stored.version, enabled |-> stored.enabled, due |-> FALSE,
   failures |-> IF failed THEN snap.failures + 1 ELSE 0,
   success |-> stored.success \/ ~failed,
   etag |-> IF failed THEN stored.etag ELSE etag,
   recipe |-> stored.recipe, links |-> stored.links]

\* CompleteWithDiagnostics up to its commit.
CompleteFeed(f, snap, used, result, etag) ==
  /\ Current(f, snap)
  /\ row' = [row EXCEPT ![f] = Completed(@, snap, result, etag)]
  /\ built' = [built EXCEPT ![f] = IF result = "ok" THEN used ELSE @]
  /\ tried' = [tried EXCEPT ![f] = snap.version]
  /\ streak' = [streak EXCEPT ![f] = IF result = "fail" THEN @ + 1 ELSE 0]
  /\ UNCHANGED <<feedState, filterState, rules>>

\* Time passes and a feed's next_run is reached.
ReachNextRun(f) ==
  /\ feedState[f] = "live" /\ ~row[f].due
  /\ row' = [row EXCEPT ![f].due = TRUE]
  /\ UNCHANGED <<feedState, filterState, rules, built, tried, streak>>

----------------------------------------------------------------------------
StoreTypeOK ==
  /\ feedState \in [Feeds -> LifeCycle]
  /\ row \in [Feeds -> Row]
  /\ filterState \in [Filters -> LifeCycle]
  /\ rules \in [Filters -> Rules]
  /\ built \in [Feeds -> MergedRecipes \union {NothingBuilt}]
  /\ tried \in [Feeds -> Nat]
  /\ streak \in [Feeds -> Nat]
============================================================================
