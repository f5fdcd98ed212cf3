------------------------------- MODULE Alerts -------------------------------
(***************************************************************************)
(* Which events the scheduler hands to the notifier: a feed that reaches   *)
(* the configured number of failures in a row or recovers, a result the    *)
(* database refused, and a library the tick could not read.  The failure   *)
(* counts are stored; everything else here is memory that a restart loses. *)
(*                                                                         *)
(* Refresh shows that a result is stored only for the row the refresh had  *)
(* read, which is why a job starts from the stored count here.  Notifier   *)
(* has what becomes of an event.  Time passes in parts of an hour.         *)
(***************************************************************************)
EXTENDS Naturals

CONSTANTS
  Feeds,
  Settings,     \* values of NOTIFY_AFTER_FAILURES; 0: no NOTIFY_URL
  Hour,         \* alertInterval, in steps of time
  MaxFailures,  \* bound: failures in a row
  MaxRestarts   \* bound: starts after the first

VARIABLES
  row,        \* per feed: stored failures, whether the feed exists
  job,        \* per feed: its refresh
  phase,      \* the process
  setting,    \* Scheduler.NotifyAfter, 0 without a notifier
  reported,   \* alerts.reported
  announced,  \* alerts.announced
  last,       \* the age of alerts.unavailable and alerts.notSaved
  list,       \* the feeds of the tick's list, not yet dispatched
  restarts,
  \* History.
  told,       \* per feed: the last event, "failing" or "recovered"
  alerts,     \* per feed: failing events since its last success or save,
              \* under this setting
  well,       \* feeds whose last stored result was a success
  since,      \* per feed: saved, restarted since its failing went out
  excused,    \* feeds with an event lost to a kill or to a lost answer of the
              \* database, or another setting since
  toldAge,    \* per kind: how long ago this process last sent the event
  hasty,      \* the kinds a process sent twice within the hour
  read,       \* the tick's last read of the library, at this time
  outageTold  \* db_unavailable went out and db_available has not

alertVars == <<row, job, phase, setting, reported, announced, last, list,
               restarts, told, alerts, well, since, excused, toldAge, hasty,
               read, outageTold>>

memory == <<reported, announced, last>>
history ==
  <<told, alerts, well, since, excused, toldAge, hasty, read, outageTold>>

Kinds == {"unavailable", "not_saved"}
Never == Hour            \* the zero time is long ago
NoJob == [pc |-> "none", failures |-> 0, ok |-> FALSE, stale |-> FALSE]
NoList == {}

\* What the constants are; MCParts has it as its assumption.
AlertsAssumption ==
  /\ Settings \subseteq Nat /\ Settings # {} /\ Hour \in Nat \ {0}
  /\ MaxFailures \in Nat /\ MaxRestarts \in Nat

Existing == {f \in Feeds : row[f].exists}

AlertsInit ==
  /\ row = [f \in Feeds |-> [failures |-> 0, exists |-> TRUE]]
  /\ job = [f \in Feeds |-> NoJob]
  /\ phase = "up" /\ setting \in Settings /\ restarts = 0
  /\ reported = {} /\ announced = FALSE /\ last = [k \in Kinds |-> Never]
  /\ list = NoList
  /\ told = [f \in Feeds |-> "recovered"] /\ alerts = [f \in Feeds |-> 0]
  /\ well = {} /\ since = [f \in Feeds |-> {}] /\ excused = {}
  /\ toldAge = [k \in Kinds |-> Never] /\ hasty = {}
  /\ read = "none" /\ outageTold = FALSE

----------------------------------------------------------------------------
(* Refreshes. *)

Refresh(f) ==
  /\ phase = "up" /\ f \in list /\ row[f].exists /\ job[f].pc = "none"
  /\ job' = [job EXCEPT ![f] = [NoJob EXCEPT !.pc = "run",
                                             !.failures = row[f].failures]]
  /\ list' = list \ {f}
  /\ UNCHANGED <<row, phase, setting, memory, restarts, history>>

Notifying == setting # 0
\* NotifyAfter, at least 1.
Threshold == setting

Reaches(j) == j.failures + 1 = Threshold

\* Wrong variant: the stored count alone decides.
RecoversByCount(f, j) == j.failures >= Threshold

Recovers(f, j) == j.failures >= Threshold \/ f \in reported

\* Whether alertRefresh would send an event of a job that ends with ok.
Calls(f, ok) ==
  Notifying /\ IF ok THEN Recovers(f, job[f]) ELSE Reaches(job[f])

\* CompleteWithDiagnostics commits.  A failure of a stopping server is not
\* stored.
Commits(f, ok) ==
  /\ job[f].pc = "run" /\ ~job[f].stale /\ (ok \/ phase = "up")
  /\ ok \/ row[f].failures < MaxFailures
  /\ row' = [row EXCEPT ![f].failures = IF ok THEN 0 ELSE @ + 1]
  /\ alerts' = IF ok THEN [alerts EXCEPT ![f] = 0] ELSE alerts
  /\ well' = IF ok THEN well \union {f} ELSE well \ {f}
  /\ UNCHANGED <<phase, setting, memory, list, restarts, told, since, toldAge,
                 hasty, read, outageTold>>

Store(f, ok) ==
  /\ Commits(f, ok)
  /\ job' = [job EXCEPT ![f].pc = "stored", ![f].ok = ok]
  /\ UNCHANGED excused

\* PostgreSQL has committed, and its answer is lost: the result is stored and
\* taken for a refused one, so alertRefresh does not follow.
LoseAnswer(f, ok) ==
  /\ Commits(f, ok)
  /\ job' = [job EXCEPT ![f].pc = "refused"]
  /\ excused' = IF Calls(f, ok) THEN excused \union {f} ELSE excused

\* The database refuses the result and stores nothing.
RefuseResult(f) ==
  /\ job[f].pc = "run"
  /\ job' = [job EXCEPT ![f].pc = "refused"]
  /\ UNCHANGED <<row, phase, setting, memory, list, restarts, history>>

\* The feed was saved or deleted meanwhile, or the failure was the shutdown's.
DiscardResult(f) ==
  /\ job[f].pc = "run" /\ (job[f].stale \/ phase = "stopping")
  /\ job' = [job EXCEPT ![f] = NoJob]
  /\ UNCHANGED <<row, phase, setting, memory, list, restarts, history>>

\* A save came between the commit and the alert, so the alert is of the
\* streak the save ended.
Overtaken(f) == job[f].stale

\* The events a feed's alert sends, and what the history says of them.
TellFailing(f) ==
  /\ reported' = reported \union {f}
  /\ told' = [told EXCEPT ![f] = "failing"]
  /\ alerts' = [alerts EXCEPT ![f] = IF Overtaken(f) THEN @ ELSE @ + 1]
  /\ since' = [since EXCEPT ![f] = IF Overtaken(f) THEN {"saved"} ELSE {}]
  /\ excused' = excused \ {f}

TellRecovered(f) ==
  /\ reported' = reported \ {f}
  /\ told' = [told EXCEPT ![f] = "recovered"]
  /\ since' = [since EXCEPT ![f] = {}] /\ excused' = excused \ {f}
  /\ UNCHANGED alerts

TellNothing == UNCHANGED <<reported, told, alerts, since, excused>>

\* alertRefresh.
AlertRefresh(f) ==
  /\ job[f].pc = "stored" /\ job' = [job EXCEPT ![f] = NoJob]
  /\ CASE Calls(f, job[f].ok) /\ ~job[f].ok -> TellFailing(f)
       [] Calls(f, job[f].ok) /\ job[f].ok -> TellRecovered(f)
       [] OTHER -> TellNothing
  /\ UNCHANGED <<row, phase, setting, announced, last, list, restarts, well,
                 toldAge, hasty, read, outageTold>>

----------------------------------------------------------------------------
(* The database's events. *)

\* Wrong variant: an event held back counts as sent.
DueAlways(kind) == [sends |-> last[kind] >= Hour, age |-> 0]

\* alerts.due: what is sent, and the age of the last one sent.
Due(kind) == [sends |-> last[kind] >= Hour,
              age |-> IF last[kind] >= Hour THEN 0 ELSE last[kind]]

\* An event that Due allows goes out, and is remembered.
Tell(kind) ==
  /\ last' = [last EXCEPT ![kind] = Due(kind).age]
  /\ IF Due(kind).sends
     THEN /\ toldAge' = [toldAge EXCEPT ![kind] = 0]
          /\ hasty' = IF toldAge[kind] < Hour THEN hasty \union {kind} ELSE hasty
     ELSE UNCHANGED <<toldAge, hasty>>

AlertNotSaved(f) ==
  /\ job[f].pc = "refused" /\ job' = [job EXCEPT ![f] = NoJob]
  /\ IF Notifying THEN Tell("not_saved") ELSE UNCHANGED <<last, toldAge, hasty>>
  /\ read' = IF read = "failed" THEN read ELSE "refused"
  /\ UNCHANGED <<row, phase, setting, reported, announced, list, restarts,
                 told, alerts, well, since, excused, outageTold>>

\* The tick cannot read the library.
ListFails ==
  /\ phase = "up" /\ list = NoList /\ read' = "failed"
  /\ IF Notifying
     THEN /\ Tell("unavailable")
          /\ announced' = (announced \/ Due("unavailable").sends)
          /\ outageTold' = (outageTold \/ Due("unavailable").sends)
     ELSE UNCHANGED <<last, toldAge, hasty, announced, outageTold>>
  /\ UNCHANGED <<row, job, phase, setting, reported, list, restarts, told,
                 alerts, well, since, excused>>

\* The end is sent once, if the outage was announced.
Resolves == announced

\* The tick reads the library; alerts.forget follows.  The feeds are then
\* started one by one.
ListSucceeds(due) ==
  /\ phase = "up" /\ list = NoList /\ read' = "ok"
  /\ announced' = (announced /\ ~(Notifying /\ Resolves))
  /\ outageTold' = (outageTold /\ ~(Notifying /\ Resolves))
  /\ reported' = reported \intersect Existing
  /\ due \subseteq Existing /\ list' = due
  /\ UNCHANGED <<row, job, phase, setting, last, restarts, told, alerts, well,
                 since, excused, toldAge, hasty>>

SkipRest ==
  /\ list # NoList /\ list' = NoList
  /\ UNCHANGED <<row, job, phase, setting, memory, restarts, history>>

TimePasses ==
  /\ last' = [k \in Kinds |-> IF last[k] < Hour THEN last[k] + 1 ELSE Hour]
  /\ toldAge' = [k \in Kinds |-> IF toldAge[k] < Hour THEN toldAge[k] + 1
                                 ELSE Hour]
  /\ read' = "none"
  /\ UNCHANGED <<row, job, phase, setting, reported, announced, list, restarts,
                 told, alerts, well, since, excused, hasty, outageTold>>

----------------------------------------------------------------------------
(* The editor, and the process. *)

\* A save bumps the version and clears the count.
SaveFeed(f) ==
  /\ phase = "up" /\ row[f].exists
  /\ row' = [row EXCEPT ![f].failures = 0]
  /\ job' = [job EXCEPT ![f].stale = job[f].pc \in {"run", "stored"}]
  /\ alerts' = [alerts EXCEPT ![f] = 0] /\ well' = well \ {f}
  /\ since' = [since EXCEPT ![f] = @ \union {"saved"}]
  /\ excused' = IF told[f] = "failing" THEN excused ELSE excused \ {f}
  /\ UNCHANGED <<phase, setting, memory, list, restarts, told, toldAge, hasty,
                 read, outageTold>>

DeleteFeed(f) ==
  /\ phase = "up" /\ row[f].exists
  /\ row' = [row EXCEPT ![f].exists = FALSE]
  /\ job' = [job EXCEPT ![f].stale = @ \/ job[f].pc = "run"]
  /\ UNCHANGED <<phase, setting, memory, list, restarts, history>>

\* A signal: no refresh starts any more.
Stop ==
  /\ phase = "up" /\ phase' = "stopping" /\ list' = NoList
  /\ UNCHANGED <<row, job, setting, memory, restarts, history>>

\* Scheduler.Wait: the process ends once every refresh has.
Exit ==
  /\ phase = "stopping" /\ \A f \in Feeds : job[f].pc = "none"
  /\ phase' = "down"
  /\ UNCHANGED <<row, job, setting, memory, list, restarts, history>>

Kill ==
  /\ phase # "down" /\ phase' = "down" /\ list' = NoList
  /\ job' = [f \in Feeds |-> NoJob]
  /\ excused' = excused \union {f \in Feeds : job[f].pc = "stored"}
  /\ UNCHANGED <<row, setting, memory, restarts, told, alerts, well, since,
                 toldAge, hasty, read, outageTold>>

\* The memory starts empty, and an outage before it is not resolved.
Restart(s) ==
  /\ phase = "down" /\ restarts < MaxRestarts /\ restarts' = restarts + 1
  /\ phase' = "up" /\ setting' = s
  /\ reported' = {} /\ announced' = FALSE /\ last' = [k \in Kinds |-> Never]
  /\ since' = [f \in Feeds |-> since[f] \union {"restarted"}]
  /\ excused' = IF s = setting THEN excused ELSE Feeds
  /\ alerts' = IF s = setting THEN alerts ELSE [f \in Feeds |-> 0]
  /\ toldAge' = [k \in Kinds |-> Never] /\ read' = "none" /\ outageTold' = FALSE
  /\ UNCHANGED <<row, job, list, told, well, hasty>>

AlertsNext ==
  \/ \E f \in Feeds :
       \/ Refresh(f)
       \/ \E ok \in BOOLEAN : Store(f, ok) \/ LoseAnswer(f, ok)
       \/ RefuseResult(f) \/ DiscardResult(f) \/ AlertRefresh(f)
       \/ AlertNotSaved(f) \/ SaveFeed(f) \/ DeleteFeed(f)
  \/ ListFails \/ \E due \in SUBSET Feeds : ListSucceeds(due)
  \/ SkipRest \/ TimePasses \/ Stop \/ Exit \/ Kill
  \/ \E s \in Settings : Restart(s)

AlertsSpec == AlertsInit /\ [][AlertsNext]_alertVars

----------------------------------------------------------------------------
(* Properties. *)

Rows == [failures : 0 .. MaxFailures, exists : BOOLEAN]
Jobs == [pc : {"none", "run", "stored", "refused"},
         failures : 0 .. MaxFailures, ok : BOOLEAN, stale : BOOLEAN]

AlertsTypeOK ==
  /\ row \in [Feeds -> Rows] /\ job \in [Feeds -> Jobs]
  /\ phase \in {"up", "stopping", "down"} /\ setting \in Settings
  /\ reported \subseteq Feeds /\ announced \in BOOLEAN
  /\ last \in [Kinds -> 0 .. Hour] /\ list \subseteq Feeds
  /\ restarts \in 0 .. MaxRestarts
  /\ told \in [Feeds -> {"failing", "recovered"}]
  /\ alerts \in [Feeds -> 0 .. MaxFailures] /\ well \subseteq Feeds
  /\ since \in [Feeds -> SUBSET {"saved", "restarted"}]
  /\ excused \subseteq Feeds /\ toldAge \in [Kinds -> 0 .. Hour]
  /\ hasty \subseteq Kinds
  /\ read \in {"none", "ok", "failed", "refused"} /\ outageTold \in BOOLEAN

\* The events of a feed follow its streak over saves and restarts: past the
\* threshold it was reported as failing, once for the streak, and after a
\* stored success it is not.  Excused are a feed both saved and met by a
\* restart since its alert, one whose event was lost because the process was
\* killed between the commit and the alert or the commit's answer was lost, and
\* a changed setting.
AlertsFollowStreak ==
  \A f \in Existing \ excused :
    job[f].pc # "stored" /\ Notifying /\ since[f] # {"saved", "restarted"} =>
      /\ row[f].failures >= Threshold => told[f] = "failing"
      /\ f \in well => told[f] = "recovered"
      /\ alerts[f] <= 1

\* A library that could not be read, and a result that was refused, are told
\* unless the process told the same within the hour, and never twice within
\* it; a library that was read is not left reported as unavailable.
OutagesTold ==
  Notifying =>
    /\ read = "failed" => toldAge["unavailable"] < Hour
    /\ read = "refused" => toldAge["not_saved"] < Hour
    /\ read = "ok" => ~outageTold
    /\ hasty = {}
=============================================================================
