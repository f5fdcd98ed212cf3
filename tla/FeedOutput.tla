----------------------------- MODULE FeedOutput -----------------------------
(***************************************************************************)
(* What one feed publishes, and when: its stored stories, the times that   *)
(* drive conditional requests (feeds.last_changed, items.last_changed),    *)
(* the article bodies an edit discards, and retention.  The steps that     *)
(* change them are the transactions CompleteWithDiagnostics,               *)
(* SaveWithOptions and SaveFilter (internal/store).                        *)
(*                                                                         *)
(* The clock counts whole seconds and never goes back.  Title stands for   *)
(* the title, the URL and the whole minutes of the interval; a story's     *)
(* text for its title, link, description and image.                        *)
(***************************************************************************)
EXTENDS Naturals, FiniteSets

CONSTANTS
  Keys,        \* story identities, in key order
  Dates,       \* the date each story carries, 0 for none
  Titles, Texts,
  Selectors,   \* article selectors; a recipe may have none
  RuleSets,    \* content cleanup rules
  KeepSets,    \* the stories a filter set may keep
  Limits,      \* the values of MAX_ITEMS an operator configures
  MaxTime,     \* bound on the clock
  MaxVersion,  \* bound: edits stop once the version reaches this
  MaxLead      \* bound: no page is merged while last_changed is this many
               \* seconds ahead of the clock

VARIABLES
  now,         \* the clock
  limit,       \* MAX_ITEMS
  feed,        \* the feeds row
  stored,      \* the keys of the items rows
  story,       \* the items rows
  lastRead,    \* of the newest run kept that read the page: "empty" when it
               \* stored no story, else "some"; "none" without such a run
  job,         \* the refresh in progress
  \* History variables.
  listed,      \* of the last refresh that read the page with articles on:
               \* the stories it stored, and when
  spared       \* stories the last cleanup edit was to leave alone

storeVars == <<feed, stored, story, lastRead, listed, spared>>
vars == <<now, limit, storeVars, job>>

ASSUME OutputAssumption ==
  /\ Keys \subseteq Nat /\ IsFiniteSet(Keys)
  /\ Dates \in [Keys -> Nat]
  /\ Titles # {} /\ Texts # {} /\ RuleSets # {} /\ Limits # {}
  /\ "none" \notin Titles
  /\ Limits \subseteq Nat \ {0}
  /\ KeepSets # {} /\ KeepSets \subseteq SUBSET Keys
  /\ MaxTime \in Nat \ {0} /\ MaxVersion \in Nat /\ MaxLead \in Nat

Later(a, b) == IF a >= b THEN a ELSE b

\* A stored article body is told apart by the selector and rules it was read
\* with; "off" is a feed without full articles, and a story without a body.
Articles == Selectors \union {"off"}
Body == [article: Articles, rules: RuleSets]
NoBody == [article |-> "off", rules |-> CHOOSE r \in RuleSets : TRUE]

\* keep stands for the filters, validator for etag and modified, changed for
\* last_changed, success for last_success, new for last_new.
Feed == [title: Titles, article: Articles, rules: RuleSets, keep: KeepSets,
         version: Nat, validator: BOOLEAN, changed: Nat, success: BOOLEAN,
         new: Nat]

Story == [text: Texts, body: Body, published: Nat, first: Nat, seen: Nat,
          changed: Nat]
NoStory == [text |-> CHOOSE t \in Texts : TRUE, body |-> NoBody,
            published |-> 0, first |-> 0, seen |-> 0, changed |-> 0]
NoStories == [k \in Keys |-> NoStory]

\* The body a refresh fetches under row r.
BodyOf(r) == IF r.article = "off" THEN NoBody
             ELSE [article |-> r.article, rules |-> r.rules]

\* The part of the row that a refresh goes by.
Job == [running: BOOLEAN, version: Nat, article: Articles, rules: RuleSets,
        keep: KeepSets]
NoJob == [running |-> FALSE, version |-> 0, article |-> "off",
          rules |-> NoBody.rules, keep |-> CHOOSE x \in KeepSets : TRUE]

----------------------------------------------------------------------------
(* What is published. *)

Content(s) == [text |-> s.text, body |-> s.body, published |-> s.published]

\* The document of Render and RenderAtom.
Document == [title |-> feed.title,
             stories |-> [k \in stored |-> Content(story[k])]]

Nothing == [title |-> "none", stories |-> <<>>]

\* When the story last changed.  A row not merged since schema 5 publishes
\* its last_seen.
StoryTime(s) == IF s.changed = 0 THEN s.seen ELSE s.changed

----------------------------------------------------------------------------
\* A feed never refreshed, or one an older release refreshed: the upgrade to
\* schema 5 takes last_changed from last_success, and leaves the stories' at 0.
NewFeed ==
  /\ feed \in {[title |-> t, article |-> a, rules |-> r, keep |-> f,
                version |-> 1, validator |-> FALSE, changed |-> 0,
                success |-> FALSE, new |-> 0] :
               t \in Titles, a \in Articles, r \in RuleSets, f \in KeepSets}
  /\ stored = {}
  /\ story = NoStories
  /\ lastRead = "none"

\* The older release stored a story.
UpgradedStory(text, body) ==
  [text |-> text, body |-> body, published |-> 1, first |-> 1, seen |-> 1,
   changed |-> 0]

UpgradedStories ==
  \E k \in feed.keep, t \in Texts, b \in {NoBody, BodyOf(feed)} :
    /\ stored = {k}
    /\ story = [NoStories EXCEPT ![k] = UpgradedStory(t, b)]

UpgradedFeed ==
  /\ feed \in {[title |-> t, article |-> a, rules |-> r, keep |-> f,
                version |-> 1, validator |-> TRUE, changed |-> 1,
                success |-> TRUE, new |-> 1] :
               t \in Titles, a \in Articles, r \in RuleSets, f \in KeepSets}
  /\ UpgradedStories
  /\ lastRead = "some"

Init ==
  /\ now = 1
  /\ limit \in Limits
  /\ NewFeed \/ UpgradedFeed
  /\ job = NoJob
  /\ listed = [keys |-> stored, at |-> 1]
  /\ spared = {}

----------------------------------------------------------------------------
(* A refresh. *)

WithBody == {k \in stored : story[k].body # NoBody}

\* The scheduler starts it with the row as it is.
Start ==
  /\ ~job.running
  /\ job' = [running |-> TRUE, version |-> feed.version,
             article |-> feed.article, rules |-> feed.rules,
             keep |-> feed.keep]
  /\ UNCHANGED <<now, limit, storeVars>>

\* It fails, or the store finds another version: no story changes.
GiveUp ==
  /\ job.running
  /\ job' = NoJob
  /\ UNCHANGED <<now, limit, storeVars>>

\* The time a merge gives what it changes: after every earlier one.
ChangeTime == Later(now, feed.changed + 1)

\* An empty body means "not fetched this time".
MergedBody(old, body) == IF body = NoBody THEN old ELSE body

\* Wrong variant: a legacy row takes the time of the merge.
MergedTimeLegacy(s, text, body) ==
  IF s.changed = 0 \/ s.text # text \/ s.body # MergedBody(s.body, body)
  THEN ChangeTime ELSE s.changed

\* The change time of a stored story after a merge.
MergedTime(s, text, body) ==
  IF s.text # text \/ s.body # MergedBody(s.body, body)
  THEN ChangeTime ELSE StoryTime(s)

\* INSERT ... ON CONFLICT DO UPDATE for one listed story.
Upserted(k, text, body) ==
  IF k \in stored
  THEN [text |-> text, body |-> MergedBody(story[k].body, body),
        published |-> story[k].published, first |-> story[k].first,
        seen |-> now, changed |-> MergedTime(story[k], text, body)]
  ELSE [text |-> text, body |-> body,
        published |-> IF Dates[k] = 0 THEN now ELSE Dates[k],
        first |-> now, seen |-> now, changed |-> ChangeTime]

\* Retention keeps the newest stories: ORDER BY published DESC, key.
Ahead(j, k, rows) ==
  \/ rows[j].published > rows[k].published
  \/ rows[j].published = rows[k].published /\ j < k
Retained(all, rows) ==
  {k \in all : Cardinality({j \in all : Ahead(j, k, rows)}) < limit}

\* Wrong variants: every merged story counts, whether or not retention keeps
\* it; only stories that come or go count.
OutputChangedByAny(touched, inserted, kept) ==
  feed.changed = 0 \/ stored \ kept # {} \/ touched # {}
OutputChangedByNew(touched, inserted, kept) ==
  feed.changed = 0 \/ stored \ kept # {} \/ inserted \intersect kept # {}

\* Whether a merge changed the output.  A story it inserted and retention
\* removed again was never published.
OutputChanged(touched, inserted, kept) ==
  \/ feed.changed = 0
  \/ (stored \union touched) \ (kept \union inserted) # {}
  \/ touched \intersect kept # {}

\* Wrong variants: the time numbered for changes; a story counts as new though
\* retention removed it again.
NewTimeNumbered(inserted, kept) ==
  IF inserted \intersect kept # {} THEN ChangeTime ELSE feed.new
NewTimeOfAny(inserted, kept) == IF inserted # {} THEN now ELSE feed.new

\* last_new moves for a story that was not stored and now is.
NewTime(inserted, kept) ==
  IF inserted \intersect kept # {} THEN now ELSE feed.new

\* Wrong variant: the row is not looked at again.
CurrentUnchecked == job.running

\* The row is read again, and must be the one the refresh started from.
Current == job.running /\ job.version = feed.version

\* The merge of CompleteWithDiagnostics; a 304 merges no story.
MergeItems(L, text, got) ==
  LET rows == [k \in Keys |->
                IF k \in L
                THEN Upserted(k, text[k],
                              IF k \in got THEN BodyOf(job) ELSE NoBody)
                ELSE story[k]]
      kept == Retained(stored \union L, rows)
      touched == {k \in L : rows[k].changed = ChangeTime}
      inserted == {k \in touched : rows[k].first = now}
  IN /\ feed' = [feed EXCEPT
           !.success = TRUE, !.validator = TRUE,
           !.new = NewTime(inserted, kept),
           !.changed = IF OutputChanged(touched, inserted, kept)
                       THEN ChangeTime ELSE @]
     /\ stored' = kept
     /\ story' = [k \in Keys |-> IF k \in kept THEN rows[k] ELSE NoStory]

\* The page was read: the stories the filters keep, and the articles fetched.
Merge ==
  /\ Current /\ feed.changed < now + MaxLead
  /\ \E L \in SUBSET job.keep : \E text \in [L -> Texts], got \in SUBSET L :
       /\ MergeItems(L, text, got)
       /\ lastRead' = IF L = {} THEN "empty" ELSE "some"
       /\ listed' = IF job.article = "off" THEN listed
                    ELSE [keys |-> L, at |-> now]
  /\ spared' = spared \intersect stored'
  /\ job' = NoJob
  /\ UNCHANGED <<now, limit>>

\* The source answered the stored validators with 304: retention still runs.
NotModified ==
  /\ Current /\ feed.validator
  /\ MergeItems({}, <<>>, {})
  /\ spared' = spared \intersect stored'
  /\ job' = NoJob
  /\ UNCHANGED <<now, limit, lastRead, listed>>

\* MaxRuns further runs, each a failure or a 304, push the last one that read
\* the page out of the runs kept.  Only a save that discards bodies asks.
ForgetRuns ==
  /\ lastRead # "none" /\ WithBody # {}
  /\ lastRead' = "none"
  /\ UNCHANGED <<now, limit, feed, stored, story, listed, spared, job>>

----------------------------------------------------------------------------
(* Edits. *)

\* bumpChanged.
Bump(changed) == IF changed >= now THEN changed + 1 ELSE now

\* Wrong variant: only the stories merged in this very second are listed.
ListedBodiesNow == {k \in WithBody : lastRead # "empty" /\ story[k].seen >= now}

\* The bodies of the stories the latest refresh that read the page listed, by
\* the time the merge gave them.
ListedBodies ==
  {k \in WithBody : /\ lastRead # "empty"
                    /\ \A j \in stored : story[k].seen >= story[j].seen}

\* Wrong variant: another selector keeps the bodies.
DiscardedBySwitch(article, rules) ==
  CASE (article = "off") # (feed.article = "off") -> WithBody
    [] article # "off" /\ feed.article # "off" /\ rules # feed.rules
         -> ListedBodies
    [] OTHER -> {}

\* The stories whose stored body a save discards.
Discarded(article, rules) ==
  CASE article # feed.article -> WithBody
    [] article = feed.article /\ article # "off" /\ rules # feed.rules
         -> ListedBodies
    [] OTHER -> {}

\* SaveWithOptions of a stored feed: each of the three changes it may publish
\* takes a time of its own.  ask is "apply filters to history".
Save(title, article, rules, keep, ask) ==
  LET cleared == Discarded(article, rules)
      pruned == IF ask THEN stored \ keep ELSE {}
      titled == IF title # feed.title THEN Bump(feed.changed) ELSE feed.changed
      emptied == IF cleared # {} THEN Bump(titled) ELSE titled
  IN /\ feed' = [feed EXCEPT
           !.title = title, !.article = article, !.rules = rules,
           !.keep = keep, !.version = @ + 1, !.validator = FALSE,
           !.changed = IF pruned # {} THEN Bump(emptied) ELSE emptied]
     /\ stored' = stored \ pruned
     /\ story' = [k \in Keys |->
                   CASE k \in pruned -> NoStory
                     [] k \in cleared \ pruned ->
                          [story[k] EXCEPT !.body = NoBody, !.changed = emptied]
                     [] OTHER -> story[k]]
     /\ spared' = stored' \intersect
                  (IF article # feed.article \/ article = "off" THEN {}
                   ELSE IF rules = feed.rules THEN spared
                   ELSE stored \ listed.keys)

Edit ==
  /\ feed.version < MaxVersion
  /\ \E t \in Titles, a \in Articles, r \in RuleSets, f \in KeepSets,
        ask \in BOOLEAN : Save(t, a, r, f, ask)
  /\ UNCHANGED <<now, limit, lastRead, listed, job>>

\* SaveFilter, for a feed that uses the filter.
EditFilter ==
  /\ feed.version < MaxVersion
  /\ \E f \in KeepSets, ask \in BOOLEAN :
       LET pruned == IF ask THEN stored \ f ELSE {}
       IN /\ feed' = [feed EXCEPT
                !.keep = f, !.version = @ + 1, !.validator = FALSE,
                !.changed = IF pruned # {} THEN Bump(@) ELSE @]
          /\ stored' = stored \ pruned
          /\ story' = [k \in Keys |-> IF k \in pruned THEN NoStory
                                      ELSE story[k]]
  /\ spared' = spared \intersect stored'
  /\ UNCHANGED <<now, limit, lastRead, listed, job>>

----------------------------------------------------------------------------
(* The clock and the operator. *)

Tick ==
  /\ now < MaxTime
  /\ now' = now + 1
  /\ UNCHANGED <<limit, storeVars, job>>

\* MAX_ITEMS changes with a restart, which drops the refresh in progress.
\* The scheduler's first tick comes a second later.
Restart ==
  /\ now < MaxTime
  /\ now' = now + 1
  /\ limit' \in Limits
  /\ job' = NoJob
  /\ UNCHANGED storeVars

----------------------------------------------------------------------------
\* Every step but a restart.
Step ==
  \/ Start \/ GiveUp \/ Merge \/ NotModified \/ ForgetRuns
  \/ Edit \/ EditFilter
  \/ Tick

Next == Step \/ Restart

Spec == Init /\ [][Next]_vars

----------------------------------------------------------------------------
(* Properties. *)

\* The variables keep their types, no row outlives its story, and no more
\* stories are stored than some MAX_ITEMS allows.
TypeOK ==
  /\ now \in 1..MaxTime
  /\ limit \in Limits
  /\ feed \in Feed /\ feed.new <= now
  /\ stored \subseteq Keys /\ \E n \in Limits : Cardinality(stored) <= n
  /\ story \in [Keys -> Story]
  /\ \A k \in Keys \ stored : story[k] = NoStory
  /\ lastRead \in {"none", "empty", "some"}
  /\ job \in Job
  /\ listed.keys \subseteq Keys /\ listed.at \in 1..now
  /\ spared \subseteq stored

\* The feed's modification time moves when the published document changes and
\* only then, always forward: within one second, over a legacy row, when
\* retention removes what a merge inserted, and when one save renames, clears
\* and prunes.
Abstract == INSTANCE Stamped WITH
  doc <- IF feed.success THEN Document ELSE Nothing,
  stamp <- IF feed.success THEN feed.changed ELSE 0
Published == Abstract!Spec

\* While a story stays stored, its change time moves exactly when its content
\* does, and then past every time the feed had published.
EntryTimes ==
  [][\A k \in stored \intersect stored' :
       IF Content(story'[k]) = Content(story[k])
       THEN StoryTime(story'[k]) = StoryTime(story[k])
       ELSE StoryTime(story'[k]) > feed.changed]_vars

\* No story is dated after the feed: the merge and the save number changes from
\* the feed's time alone.
StoriesBehindFeed == \A k \in stored : StoryTime(story[k]) <= feed.changed

\* last_new moves exactly when a story that was not stored now is.
NewMeansInserted ==
  [][IF stored' \subseteq stored THEN feed'.new = feed.new
                                 ELSE feed'.new = now]_vars

\* A published article was read with the selector of the feed as it is: no save
\* leaves one behind, and no refresh in progress brings one back.
BodiesMatchSelector ==
  \A k \in stored : story[k].body # NoBody => story[k].body.article = feed.article

\* An article cleaned by other rules than the feed's belongs to a story that
\* the refresh before the last change of rules did not list.
CleanedBodies ==
  \A k \in stored :
    story[k].body # NoBody /\ story[k].body.rules # feed.rules => k \in spared
============================================================================
