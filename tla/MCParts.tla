------------------------------ MODULE MCParts ------------------------------
(***************************************************************************)
(* Parts of the program that share no state, checked in one run: a         *)
(* behaviour is one of one part, and the variables of the others are not   *)
(* in use.  A product of the parts would only multiply their states.       *)
(***************************************************************************)
EXTENDS CopiedUpgrade, LockedUpgrade, FilterLocks, BrowserPool, Quiet

CONSTANTS
  AlertFeeds, Settings, Hour, MaxFailures, MaxRestarts,   \* Alerts
  Dated, Limit, Kept,                                     \* Backlog
  Names                                                   \* FilterRules

\* A page of stories without a date, more than are kept, and one with an old
\* story before a new one.
Pages == {<<1, 2, 3>>, <<4, 2>>}

VARIABLES part,
  row, task, phase, setting, reported, announced, last, list, restarts, told,
  alerts, well, since, excused, toldAge, hasty, read, outageTold,
  page, selector, etag, stored, bodies, recent, backlog, round, full, failed,
  barren

Alerting == INSTANCE Alerts WITH Feeds <- AlertFeeds, job <- task
Articles == INSTANCE Backlog WITH job <- round
Merging == INSTANCE FilterRules

ASSUME PartsAssumption ==
  /\ UpgradeAssumption /\ LockAssumption /\ LockingAssumption
  /\ PoolAssumption /\ QuietAssumption
  /\ Alerting!AlertsAssumption /\ Articles!BacklogAssumption

\* What StoreProofs proves of every rule, and assumes of their
\* evaluation, holds of the rules of two levels over Names.
ASSUME MergingAssumption ==
  LET leaves == {Merging!Keyword(n) : n \in Names}
      ruleset == leaves \union
        {Merging!Group(op, below) :
           op \in {"all", "any"}, below \in (SUBSET leaves) \ {{}}}
      sets == Merging!FilterSets(ruleset)
  IN \A story \in SUBSET Names :
       LET matched == Merging!Matched(ruleset, story)
           kept == {set \in sets : Merging!Keeps(set, matched)}
       IN /\ \A rule \in ruleset :
               rule \in matched <=> Merging!Says(rule, matched)
          /\ \A own, used \in sets :
               Merging!Keeps(Merging!Combine(own, {used}), matched)
                 <=> {own, used} \subseteq kept

alertingVars == <<row, task, phase, setting, reported, announced, last, list,
                  restarts, told, alerts, well, since, excused, toldAge, hasty,
                  read, outageTold>>
articlesVars == <<page, selector, etag, stored, bodies, recent, backlog,
                  round, full, failed, barren>>

partsVars == <<part, upgradeVars, lockVars, lockingVars, poolVars, quietVars,
               alertingVars, articlesVars>>

----------------------------------------------------------------------------
Parts == {"copied", "locked", "locking", "pool", "marking", "alerting",
          "articles"}

\* A part that is not in use stays in one of its initial states.
PartsInit ==
  /\ part \in Parts
  /\ UpgradeInit /\ (part # "copied" => db = NoDatabase)
  /\ LockInit /\ (part # "locked" => schema = 0)
  /\ LockingInit /\ (part # "locking" => \A f \in Feeds : links[f] = {})
  /\ PoolInit
  /\ QuietInit
  /\ part # "marking" =>
       feed = NewFeed(CHOOSE interval \in Periods : TRUE, QuietNever)
  /\ Alerting!AlertsInit
  /\ part # "alerting" => setting = CHOOSE n \in Settings : TRUE
  /\ Articles!BacklogInit
  /\ part # "articles" => ~selector /\ page = CHOOSE p \in Pages : TRUE

CopiedStep ==
  /\ part = "copied" /\ UpgradeNext
  /\ UNCHANGED <<part, lockVars, lockingVars, poolVars, quietVars,
                 alertingVars, articlesVars>>
LockedStep ==
  /\ part = "locked" /\ LockNext
  /\ UNCHANGED <<part, upgradeVars, lockingVars, poolVars, quietVars,
                 alertingVars, articlesVars>>
LockingStep ==
  /\ part = "locking" /\ LockingNext
  /\ UNCHANGED <<part, upgradeVars, lockVars, poolVars, quietVars,
                 alertingVars, articlesVars>>
PoolStep ==
  /\ part = "pool" /\ PoolNext
  /\ UNCHANGED <<part, upgradeVars, lockVars, lockingVars, quietVars,
                 alertingVars, articlesVars>>
MarkingStep ==
  /\ part = "marking" /\ QuietNext
  /\ UNCHANGED <<part, upgradeVars, lockVars, lockingVars, poolVars,
                 alertingVars, articlesVars>>
AlertingStep ==
  /\ part = "alerting" /\ Alerting!AlertsNext
  /\ UNCHANGED <<part, upgradeVars, lockVars, lockingVars, poolVars, quietVars,
                 articlesVars>>
ArticlesStep ==
  /\ part = "articles" /\ Articles!BacklogNext
  /\ UNCHANGED <<part, upgradeVars, lockVars, lockingVars, poolVars, quietVars,
                 alertingVars>>

PartsNext ==
  \/ CopiedStep \/ LockedStep \/ LockingStep \/ PoolStep \/ MarkingStep
  \/ AlertingStep \/ ArticlesStep

PartsSpec == PartsInit /\ [][PartsNext]_partsVars

----------------------------------------------------------------------------
(* The properties of the parts that are instances, and of several parts;    *)
(* the others are checked as their modules state them.                      *)

\* Every variable of the part in use has its type.
TypeOK ==
  CASE part = "copied" -> UpgradeTypeOK
    [] part = "locked" -> LockTypeOK
    [] part = "locking" -> LockingTypeOK
    [] part = "pool" -> PoolTypeOK
    [] part = "marking" -> QuietTypeOK
    [] part = "alerting" -> Alerting!AlertsTypeOK
    [] part = "articles" -> Articles!BacklogTypeOK

\* No start, however it ends, leaves a database between two schemas: SQLite's
\* is of the schema the start found or the current one, PostgreSQL's steps are
\* committed once and together (upgrade.go, postgres.go).
UpgradedWhole == SchemaWhole /\ UpgradedOnce

\* The failing and recovered events of a feed follow its streak over saves,
\* overtaken alerts, restarts and lost answers, which may lose the event of
\* their own result only (alerts.go, scheduler.go).
AlertsFollowStreak == part = "alerting" => Alerting!AlertsFollowStreak

\* A database that cannot be read or written is told, never twice within an
\* hour, and a told outage that is over is not left standing (alerts.go).
OutagesTold == part = "alerting" => Alerting!OutagesTold

\* While its page stays the same, a feed returns to conditional requests after
\* as many stored full refreshes as the page lists or the feed keeps stories,
\* counted since the last lost answer (backlog.go).
BacklogEnds == part = "articles" => Articles!BacklogEnds

\* Behind a 304 no story waits for an article that was never tried, unless the
\* refresh that left it brought no article or recorded no flag (backlog.go,
\* article.go).
NoStoryStranded == part = "articles" => Articles!NoStoryStranded
=============================================================================
