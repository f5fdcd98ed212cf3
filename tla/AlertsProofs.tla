---------------------------- MODULE AlertsProofs ----------------------------
(***************************************************************************)
(* The events of a feed follow its streak, and the database's outages are  *)
(* told and resolved, for every number of feeds, threshold, restart and    *)
(* failure.  What a feed was last told is nowhere stored: the argument is  *)
(* that the memory has it until a restart, and the stored count until a    *)
(* save, so that only both together lose it.                               *)
(***************************************************************************)
EXTENDS Alerts, TLAPS

Both == {"saved", "restarted"}

\* What a job has read, and what its result has made of the row.
JobsOK ==
  \A f \in Feeds :
    /\ job[f].pc = "run" /\ ~job[f].stale => job[f].failures = row[f].failures
    /\ job[f].pc = "stored" =>
         /\ f \in well <=> job[f].ok /\ ~job[f].stale
         /\ job[f].ok \/ job[f].stale => row[f].failures = 0
         /\ ~job[f].ok /\ ~job[f].stale =>
              row[f].failures = job[f].failures + 1

\* An alert that went out in this streak went out at the threshold, which the
\* next result of the streak is past.
OneAlert ==
  \A f \in Feeds :
    /\ alerts[f] \in {0, 1}
    /\ alerts[f] = 1 =>
         /\ Notifying /\ row[f].failures >= Threshold
         /\ job[f].pc = "stored" => job[f].failures >= Threshold

\* Until a restart the memory knows what was told.
Remembered ==
  \A f \in Existing :
    told[f] = "failing" /\ "restarted" \notin since[f] => f \in reported

\* Until a save the stored count does.
StandsOver ==
  Notifying => \A f \in Feeds \ excused :
    told[f] = "failing" /\ "saved" \notin since[f] =>
      \/ row[f].failures >= Threshold
      \/ job[f].pc = "stored" /\ job[f].ok /\ job[f].failures >= Threshold

\* The property, with what a result that is stored and not yet told owes it.
Owing ==
  Notifying => \A f \in Existing \ excused :
    since[f] # Both =>
      /\ job[f].pc = "stored" /\ ~job[f].ok /\ ~job[f].stale
           /\ job[f].failures >= Threshold => told[f] = "failing"
      /\ job[f].pc # "stored" =>
           /\ row[f].failures >= Threshold => told[f] = "failing"
           /\ f \in well => told[f] = "recovered"

Streaks == JobsOK /\ OneAlert /\ Remembered /\ StandsOver /\ Owing

Outages ==
  /\ outageTold <=> announced
  /\ \A k \in Kinds : toldAge[k] = last[k]
  /\ hasty = {}
  /\ OutagesTold

AlertsInv == AlertsTypeOK /\ Streaks /\ Outages

----------------------------------------------------------------------------
LEMMA AlertsInvInit == AlertsAssumption /\ AlertsInit => AlertsInv
<1> SUFFICES ASSUME AlertsAssumption, AlertsInit PROVE AlertsInv
  OBVIOUS
<1> USE DEF AlertsAssumption, AlertsInit, NoList, Never, NoJob
<1>1. row \in [Feeds -> Rows] /\ job \in [Feeds -> Jobs]
  BY DEF Rows, Jobs
<1>2. /\ alerts \in [Feeds -> 0 .. MaxFailures] /\ restarts \in 0 .. MaxRestarts
      /\ last \in [Kinds -> 0 .. Hour] /\ toldAge \in [Kinds -> 0 .. Hour]
  OBVIOUS
<1>3. /\ told \in [Feeds -> {"failing", "recovered"}]
      /\ since \in [Feeds -> SUBSET {"saved", "restarted"}]
  OBVIOUS
<1>4. AlertsTypeOK
  BY <1>1, <1>2, <1>3, Zenon DEF AlertsTypeOK
<1>5. Streaks
  BY DEF Streaks, JobsOK, OneAlert, Remembered, StandsOver, Owing, Existing,
         Notifying, Threshold, Both
<1>6. Outages
  BY DEF Outages, OutagesTold
<1> QED
  BY <1>4, <1>5, <1>6 DEF AlertsInv

\* A step that stores and tells nothing of a feed.
Aside ==
  /\ UNCHANGED <<row, setting, reported, told, alerts, well, since, excused>>
  /\ \A f \in Feeds :
       /\ job'[f].pc \in {"run", "stored"} => job'[f] = job[f]
       /\ job[f].pc = "stored" => job'[f] = job[f]

LEMMA StreaksKept ==
  ASSUME Streaks, Aside
  PROVE  Streaks'
<1>1. JobsOK' /\ OneAlert'
  BY DEF Aside, Streaks, JobsOK, OneAlert, Notifying, Threshold
<1>2. Remembered' /\ StandsOver' /\ Owing'
  BY DEF Aside, Streaks, Remembered, StandsOver, Owing, Existing, Notifying,
         Threshold
<1> QED
  BY <1>1, <1>2 DEF Streaks

LEMMA OutagesKept ==
  ASSUME Outages,
         UNCHANGED <<setting, announced, last, toldAge, hasty, read, outageTold>>
  PROVE  Outages'
BY DEF Outages, OutagesTold, Notifying

----------------------------------------------------------------------------
(* The steps of a refresh. *)

LEMMA JobsInv ==
  ASSUME AlertsAssumption, AlertsInv, NEW f \in Feeds,
         Refresh(f) \/ RefuseResult(f) \/ DiscardResult(f)
  PROVE  AlertsInv'
<1> USE DEF AlertsInv, memory, history, NoJob
<1>1. Outages'
  BY OutagesKept DEF Refresh, RefuseResult, DiscardResult
<1>2. CASE Refresh(f)
  <2>1. AlertsTypeOK'
    BY <1>2 DEF Refresh, AlertsTypeOK, Rows, Jobs
  <2>2. JobsOK' /\ OneAlert'
    BY <1>2
       DEF Refresh, Streaks, AlertsTypeOK, JobsOK, OneAlert, Notifying,
           Threshold
  <2>3. Remembered' /\ StandsOver' /\ Owing'
    BY <1>2
       DEF Refresh, Streaks, AlertsTypeOK, Remembered, StandsOver, Owing,
           Existing, Notifying, Threshold
  <2> QED
    BY <1>1, <2>1, <2>2, <2>3 DEF Streaks
<1>3. CASE RefuseResult(f) \/ DiscardResult(f)
  <2>1. job' \in [Feeds -> Jobs]
    <3>1. NoJob \in Jobs /\ [job[f] EXCEPT !.pc = "refused"] \in Jobs
      BY DEF AlertsTypeOK, Jobs, AlertsAssumption
    <3> QED
      BY <1>3, <3>1 DEF RefuseResult, DiscardResult, AlertsTypeOK
  <2>2. AlertsTypeOK'
    BY <1>3, <2>1 DEF RefuseResult, DiscardResult, AlertsTypeOK
  <2>3. /\ job[f].pc = "run" /\ job'[f].pc \notin {"run", "stored"}
        /\ \A g \in Feeds : g # f => job'[g] = job[g]
    <3>1. \/ job' = [job EXCEPT ![f].pc = "refused"]
          \/ job' = [job EXCEPT ![f] = NoJob]
      BY <1>3, Zenon DEF RefuseResult, DiscardResult
    <3>2. job \in [Feeds -> Jobs] /\ job[f].pc = "run"
      BY <1>3 DEF RefuseResult, DiscardResult, AlertsTypeOK
    <3> QED
      BY <3>1, <3>2 DEF Jobs
  <2>4. Aside
    BY <1>3, <2>3 DEF RefuseResult, DiscardResult, Aside
  <2> QED
    BY <1>1, <2>2, <2>4, StreaksKept
<1> QED
  BY <1>2, <1>3

LEMMA StoreType ==
  ASSUME AlertsAssumption, AlertsInv, NEW f \in Feeds, NEW ok \in BOOLEAN,
         Store(f, ok) \/ LoseAnswer(f, ok)
  PROVE  AlertsTypeOK'
<1>0. /\ row \in [Feeds -> Rows] /\ job \in [Feeds -> Jobs]
      /\ MaxFailures \in Nat
      /\ alerts \in [Feeds -> 0 .. MaxFailures] /\ well \subseteq Feeds
  BY DEF AlertsInv, AlertsTypeOK, AlertsAssumption
<1>1. row' \in [Feeds -> Rows]
  <2>1. row' = [row EXCEPT ![f].failures = IF ok THEN 0 ELSE @ + 1]
    BY Zenon DEF Store, LoseAnswer, Commits
  <2>2. ok \/ row[f].failures < MaxFailures
    BY Zenon DEF Store, LoseAnswer, Commits
  <2>3. [row[f] EXCEPT !.failures = IF ok THEN 0 ELSE @ + 1] \in Rows
    BY <1>0, <2>2 DEF Rows
  <2> QED
    BY <1>0, <2>1, <2>3
<1>2. alerts' \in [Feeds -> 0 .. MaxFailures] /\ well' \subseteq Feeds
  <2>1. alerts' = [alerts EXCEPT ![f] = 0] \/ alerts' = alerts
    BY Zenon DEF Store, LoseAnswer, Commits
  <2>2. well' = well \union {f} \/ well' = well \ {f}
    BY Zenon DEF Store, LoseAnswer, Commits
  <2> QED
    BY <1>0, <2>1, <2>2
<1>3. job' \in [Feeds -> Jobs]
  <2>1. \/ job' = [job EXCEPT ![f].pc = "stored", ![f].ok = ok]
        \/ job' = [job EXCEPT ![f].pc = "refused"]
    BY Zenon DEF Store, LoseAnswer
  <2>2. /\ [job[f] EXCEPT !.pc = "stored", !.ok = ok] \in Jobs
        /\ [job[f] EXCEPT !.pc = "refused"] \in Jobs
    BY <1>0 DEF Jobs
  <2> QED
    BY <1>0, <2>1, <2>2
<1> QED
  BY <1>1, <1>2, <1>3
     DEF Store, LoseAnswer, Commits, AlertsTypeOK, memory, AlertsInv

LEMMA StoreInv ==
  ASSUME AlertsAssumption, AlertsInv, NEW f \in Feeds, NEW ok \in BOOLEAN,
         Store(f, ok)
  PROVE  AlertsInv'
<1> USE DEF AlertsAssumption, AlertsInv, Streaks, Store, Commits, memory, Rows,
          Jobs
<1>1. AlertsTypeOK'
  BY StoreType
<1>2. JobsOK'
  BY DEF AlertsTypeOK, JobsOK
<1>3. OneAlert'
  BY DEF AlertsTypeOK, JobsOK, OneAlert, Notifying, Threshold
<1>4. Remembered'
  BY DEF AlertsTypeOK, Remembered, Existing
<1>5. StandsOver'
  BY DEF AlertsTypeOK, JobsOK, StandsOver, Notifying, Threshold
<1>6. Owing'
  BY DEF AlertsTypeOK, JobsOK, Owing, Both, Existing, Notifying, Threshold
<1>7. Outages'
  BY OutagesKept
<1> QED
  BY <1>1, <1>2, <1>3, <1>4, <1>5, <1>6, <1>7

\* An answer that is lost owes the feed no event, or the feed is excused: a
\* failure past the threshold follows one that was told, and a success that
\* calls for no event finds nothing told.
LEMMA LoseAnswerInv ==
  ASSUME AlertsAssumption, AlertsInv, NEW f \in Feeds, NEW ok \in BOOLEAN,
         LoseAnswer(f, ok)
  PROVE  AlertsInv'
<1> USE DEF AlertsAssumption, AlertsInv, Streaks, LoseAnswer, Commits, memory,
          Rows, Jobs
<1>1. AlertsTypeOK'
  BY StoreType
<1>2. JobsOK'
  BY DEF AlertsTypeOK, JobsOK
<1>3. OneAlert'
  BY DEF AlertsTypeOK, JobsOK, OneAlert, Notifying, Threshold
<1>4. Remembered'
  BY DEF AlertsTypeOK, Remembered, Existing
<1>5. job[f].failures = row[f].failures
  BY DEF JobsOK
<1>6. StandsOver'
  BY <1>5
     DEF AlertsTypeOK, StandsOver, Notifying, Threshold, Calls, Recovers
<1>7. Owing'
  BY <1>5
     DEF AlertsTypeOK, Remembered, StandsOver, Owing, Both, Existing,
         Notifying, Threshold, Calls, Recovers, Reaches
<1>8. Outages'
  BY OutagesKept
<1> QED
  BY <1>1, <1>2, <1>3, <1>4, <1>6, <1>7, <1>8

LEMMA EditType ==
  ASSUME AlertsAssumption, AlertsInv, NEW f \in Feeds,
         SaveFeed(f) \/ DeleteFeed(f)
  PROVE  AlertsTypeOK'
<1>0. /\ row \in [Feeds -> Rows] /\ job \in [Feeds -> Jobs]
      /\ MaxFailures \in Nat
  BY DEF AlertsInv, AlertsTypeOK, AlertsAssumption
<1>1. job' \in [Feeds -> Jobs]
  <2>1. \E b \in BOOLEAN : job' = [job EXCEPT ![f].stale = b]
    <3>1. CASE SaveFeed(f)
      <4>1. (job[f].pc \in {"run", "stored"}) \in BOOLEAN
        OBVIOUS
      <4>2. job' = [job EXCEPT ![f].stale = (job[f].pc \in {"run", "stored"})]
        BY <3>1, Zenon DEF SaveFeed
      <4> QED
        BY <4>1, <4>2, Zenon
    <3>2. CASE DeleteFeed(f)
      <4>1. (job[f].stale \/ job[f].pc = "run") \in BOOLEAN
        OBVIOUS
      <4>2. job' = [job EXCEPT ![f].stale = (job[f].stale \/ job[f].pc = "run")]
        BY <3>2, Zenon DEF DeleteFeed
      <4> QED
        BY <4>1, <4>2, Zenon
    <3> QED
      BY <3>1, <3>2
  <2>2. PICK b \in BOOLEAN : job' = [job EXCEPT ![f].stale = b]
    BY <2>1
  <2>3. [job[f] EXCEPT !.stale = b] \in Jobs
    BY <1>0 DEF Jobs
  <2> QED
    BY <1>0, <2>2, <2>3
<1>2. row' \in [Feeds -> Rows]
  <2>1. \/ row' = [row EXCEPT ![f].failures = 0]
        \/ row' = [row EXCEPT ![f].exists = FALSE]
    BY Zenon DEF SaveFeed, DeleteFeed
  <2>2. [row[f] EXCEPT !.failures = 0] \in Rows
    BY <1>0 DEF Rows
  <2>3. [row[f] EXCEPT !.exists = FALSE] \in Rows
    BY <1>0 DEF Rows
  <2> QED
    BY <1>0, <2>1, <2>2, <2>3
<1> QED
  BY <1>1, <1>2
     DEF SaveFeed, DeleteFeed, AlertsTypeOK, AlertsAssumption, memory, history,
         AlertsInv

LEMMA EditInv ==
  ASSUME AlertsAssumption, AlertsInv, NEW f \in Feeds,
         SaveFeed(f) \/ DeleteFeed(f)
  PROVE  AlertsInv'
<1> USE DEF AlertsAssumption, AlertsInv, Streaks, memory, history, Rows, Jobs
<1>1. AlertsTypeOK'
  BY EditType
<1>2. Outages'
  BY OutagesKept DEF SaveFeed, DeleteFeed
<1>3. CASE SaveFeed(f)
  <2>1. JobsOK'
    BY <1>3 DEF SaveFeed, AlertsTypeOK, JobsOK
  <2>2. OneAlert'
    BY <1>3 DEF SaveFeed, AlertsTypeOK, JobsOK, OneAlert, Notifying, Threshold
  <2>3. Remembered'
    BY <1>3 DEF SaveFeed, AlertsTypeOK, Remembered, Existing
  <2>4. StandsOver'
    BY <1>3
       DEF SaveFeed, AlertsTypeOK, JobsOK, StandsOver, Notifying, Threshold
  <2>5. Owing'
    BY <1>3
       DEF SaveFeed, AlertsTypeOK, JobsOK, Owing, Both, Existing, Notifying,
           Threshold
  <2> QED
    BY <1>1, <1>2, <2>1, <2>2, <2>3, <2>4, <2>5
<1>4. CASE DeleteFeed(f)
  <2>1. JobsOK'
    BY <1>4 DEF DeleteFeed, AlertsTypeOK, JobsOK
  <2>2. OneAlert'
    BY <1>4 DEF DeleteFeed, AlertsTypeOK, OneAlert, Notifying, Threshold
  <2>3. Remembered'
    BY <1>4 DEF DeleteFeed, AlertsTypeOK, Remembered, Existing
  <2>4. StandsOver'
    BY <1>4 DEF DeleteFeed, AlertsTypeOK, StandsOver, Notifying, Threshold
  <2>5. Owing'
    BY <1>4 DEF DeleteFeed, AlertsTypeOK, Owing, Existing, Notifying, Threshold
  <2> QED
    BY <1>1, <1>2, <2>1, <2>2, <2>3, <2>4, <2>5
<1> QED
  BY <1>3, <1>4

\* The alert of a stored result.
LEMMA TellFailingInv ==
  ASSUME AlertsAssumption, AlertsInv, NEW f \in Feeds, AlertRefresh(f),
         Calls(f, FALSE), ~job[f].ok
  PROVE  AlertsTypeOK' /\ Streaks'
<1> USE DEF AlertsAssumption, AlertsInv, Streaks, NoJob, Rows, Jobs, Overtaken,
          TellFailing
<1>0. Notifying /\ Reaches(job[f])
  BY DEF Calls
<1>1. TellFailing(f)
  <2>1. Calls(f, job[f].ok) /\ ~job[f].ok
    BY Zenon DEF Calls
  <2> QED
    BY <2>1 DEF AlertRefresh
<1>2. OneAlert'
  BY <1>0, <1>1
     DEF AlertRefresh, AlertsTypeOK, JobsOK, OneAlert, Notifying, Threshold,
         Reaches
<1>3. AlertsTypeOK'
  <2>1. since' \in [Feeds -> SUBSET {"saved", "restarted"}]
    <3>1. (IF job[f].stale THEN {"saved"} ELSE {})
            \in SUBSET {"saved", "restarted"}
      OBVIOUS
    <3> QED
      BY <1>1, <3>1 DEF AlertsTypeOK
  <2>2. alerts' \in [Feeds -> 0 .. MaxFailures]
    <3>1. \A g \in Feeds :
            /\ alerts'[g] \in {0, 1}
            /\ alerts'[g] = 1 => MaxFailures >= 1
      <4>1. /\ \A g \in Feeds : row'[g].failures \in 0 .. MaxFailures
            /\ MaxFailures \in Nat
        BY DEF AlertRefresh, AlertsTypeOK
      <4>2. Notifying' => setting' \in Nat /\ setting' > 0
        BY DEF AlertRefresh, AlertsTypeOK, Notifying
      <4> QED
        BY <1>2, <4>1, <4>2 DEF OneAlert, Threshold
    <3>2. DOMAIN alerts' = Feeds /\ alerts' = [g \in Feeds |-> alerts'[g]]
      BY <1>0, <1>1 DEF AlertsTypeOK
    <3> QED
      BY <3>1, <3>2
  <2>3. job' \in [Feeds -> Jobs]
    BY DEF AlertRefresh, AlertsTypeOK
  <2> QED
    BY <1>1, <2>1, <2>2, <2>3 DEF AlertRefresh, AlertsTypeOK
<1>4. JobsOK'
  BY <1>0, <1>1 DEF AlertRefresh, AlertsTypeOK, JobsOK
<1>5. Remembered'
  BY <1>0, <1>1 DEF AlertRefresh, AlertsTypeOK, Remembered, Existing
<1>6. StandsOver'
  BY <1>0, <1>1
     DEF AlertRefresh, AlertsTypeOK, JobsOK, StandsOver, Notifying, Threshold,
         Reaches
<1>7. Owing'
  BY <1>0, <1>1
     DEF AlertRefresh, AlertsTypeOK, JobsOK, Owing, Existing, Notifying,
         Threshold, Reaches, Both
<1> QED
  BY <1>2, <1>3, <1>4, <1>5, <1>6, <1>7

LEMMA TellRecoveredInv ==
  ASSUME AlertsAssumption, AlertsInv, NEW f \in Feeds, AlertRefresh(f),
         Calls(f, TRUE), job[f].ok
  PROVE  AlertsTypeOK' /\ Streaks'
<1> USE DEF AlertsAssumption, AlertsInv, Streaks, NoJob, Rows, Jobs,
          TellRecovered
<1>0. Notifying /\ Recovers(f, job[f])
  BY DEF Calls
<1>1. TellRecovered(f)
  BY Zenon DEF AlertRefresh
<1>2. OneAlert'
  BY <1>0, <1>1
     DEF AlertRefresh, AlertsTypeOK, JobsOK, OneAlert, Notifying, Threshold
<1>3. AlertsTypeOK'
  BY <1>1, <1>2 DEF AlertRefresh, AlertsTypeOK
<1>4. JobsOK'
  BY <1>0, <1>1 DEF AlertRefresh, AlertsTypeOK, JobsOK
<1>5. Remembered'
  BY <1>0, <1>1 DEF AlertRefresh, AlertsTypeOK, Remembered, Existing
<1>6. StandsOver'
  BY <1>0, <1>1
     DEF AlertRefresh, AlertsTypeOK, JobsOK, StandsOver, Notifying, Threshold
<1>7. Owing'
  BY <1>0, <1>1
     DEF AlertRefresh, AlertsTypeOK, JobsOK, Owing, Existing, Notifying,
         Threshold, Both
<1> QED
  BY <1>2, <1>3, <1>4, <1>5, <1>6, <1>7

\* A result that calls for no event leaves nothing untold: a feed reported as
\* failing is in the memory, or was stored with a count past the threshold.
LEMMA TellNothingInv ==
  ASSUME AlertsAssumption, AlertsInv, NEW f \in Feeds, AlertRefresh(f),
         ~Calls(f, job[f].ok)
  PROVE  AlertsTypeOK' /\ Streaks'
<1> USE DEF AlertsAssumption, AlertsInv, Streaks, NoJob, Rows, Jobs,
          TellNothing
<1>0. /\ Notifying /\ job[f].ok => ~Recovers(f, job[f])
      /\ Notifying /\ ~job[f].ok => ~Reaches(job[f])
  BY DEF Calls
<1>1. TellNothing
  BY Zenon DEF AlertRefresh
<1>2. OneAlert'
  BY <1>0, <1>1
     DEF AlertRefresh, AlertsTypeOK, JobsOK, OneAlert, Notifying, Threshold
<1>3. AlertsTypeOK'
  BY <1>1, <1>2 DEF AlertRefresh, AlertsTypeOK
<1>4. JobsOK'
  BY <1>0, <1>1 DEF AlertRefresh, AlertsTypeOK, JobsOK
<1>5. Remembered'
  BY <1>0, <1>1 DEF AlertRefresh, AlertsTypeOK, Remembered, Existing
<1>6. StandsOver'
  BY <1>0, <1>1
     DEF AlertRefresh, AlertsTypeOK, JobsOK, StandsOver, Notifying, Threshold,
         Recovers
<1>7. Owing'
  <2> SUFFICES ASSUME Notifying, NEW g \in Existing, g \notin excused,
                      since[g] # Both
      PROVE /\ job'[g].pc = "stored" /\ ~job'[g].ok /\ ~job'[g].stale
                 /\ job'[g].failures >= Threshold => told[g] = "failing"
            /\ job'[g].pc # "stored" =>
                 /\ row[g].failures >= Threshold => told[g] = "failing"
                 /\ g \in well => told[g] = "recovered"
    BY <1>0, <1>1 DEF AlertRefresh, Owing, Existing, Notifying, Threshold
  <2>1. CASE g # f
    BY <2>1 DEF AlertRefresh, AlertsTypeOK, Owing, Existing
  <2>2. CASE g = f /\ job[f].ok
    <3>1. f \notin reported /\ ~(job[f].failures >= Threshold)
      BY <1>0, <2>2 DEF Recovers
    <3>2. row[f].failures = 0 /\ Threshold > 0
      BY <2>2
         DEF AlertRefresh, AlertsTypeOK, JobsOK, Existing, Threshold, Notifying
    <3>3. ASSUME "restarted" \notin since[f] PROVE told[f] # "failing"
      BY <2>2, <3>1, <3>3 DEF Remembered, Existing
    <3>4. ASSUME "saved" \notin since[f] PROVE told[f] # "failing"
      BY <2>2, <3>1, <3>2, <3>4
         DEF StandsOver, AlertsTypeOK, Existing, Threshold
    <3>5. "saved" \notin since[f] \/ "restarted" \notin since[f]
      BY <2>2 DEF Both, AlertsTypeOK, Existing
    <3>6. told[f] # "failing"
      BY <3>3, <3>4, <3>5
    <3> QED
      BY <2>2, <3>2, <3>6 DEF AlertRefresh, AlertsTypeOK, Existing, Threshold
  <2>3. CASE g = f /\ ~job[f].ok
    <3>1. job'[f].pc = "none" /\ f \notin well
      BY <2>3 DEF AlertRefresh, AlertsTypeOK, JobsOK, Existing
    <3>2. row[f].failures >= Threshold =>
            job[f].failures >= Threshold /\ ~job[f].stale
      <4>1. /\ Threshold \in Nat \ {0} /\ job[f].failures \in Nat
            /\ job[f].failures + 1 # Threshold
        BY <1>0, <2>3 DEF AlertsTypeOK, Notifying, Threshold, Reaches
      <4>2. /\ job[f].stale => row[f].failures = 0
            /\ ~job[f].stale => row[f].failures = job[f].failures + 1
        BY <2>3, Zenon DEF AlertRefresh, JobsOK
      <4> QED
        BY <4>1, <4>2
    <3>3. row[f].failures >= Threshold => told[f] = "failing"
      BY <2>3, <3>2 DEF AlertRefresh, Owing, Existing
    <3> QED
      BY <2>3, <3>1, <3>3
  <2> QED
    BY <2>1, <2>2, <2>3
<1> QED
  BY <1>2, <1>3, <1>4, <1>5, <1>6, <1>7

LEMMA AlertRefreshInv ==
  ASSUME AlertsAssumption, AlertsInv, NEW f \in Feeds, AlertRefresh(f)
  PROVE  AlertsInv'
<1>1. Outages'
  BY OutagesKept DEF AlertRefresh, AlertsInv
<1>2. AlertsTypeOK' /\ Streaks'
  <2>1. CASE Calls(f, job[f].ok) /\ ~job[f].ok
    <3>1. Calls(f, FALSE)
      BY <2>1, Zenon DEF Calls
    <3> QED
      BY <2>1, <3>1, TellFailingInv
  <2>2. CASE Calls(f, job[f].ok) /\ job[f].ok
    <3>1. Calls(f, TRUE)
      BY <2>2, Zenon DEF Calls
    <3> QED
      BY <2>2, <3>1, TellRecoveredInv
  <2> QED
    BY <2>1, <2>2, TellNothingInv
<1> QED
  BY <1>1, <1>2 DEF AlertsInv

----------------------------------------------------------------------------
(* The events of the database, the tick and the process. *)

\* What Due lets out, and the age of the last one.
LEMMA Tells ==
  ASSUME AlertsAssumption, AlertsInv, NEW kind \in Kinds, Tell(kind)
  PROVE  /\ last' \in [Kinds -> 0 .. Hour]
         /\ toldAge' = last' /\ hasty' = {}
         /\ toldAge'[kind] < Hour
         /\ \A k \in Kinds : k # kind => toldAge'[k] = toldAge[k]
<1>1. /\ last \in [Kinds -> 0 .. Hour] /\ toldAge \in [Kinds -> 0 .. Hour]
      /\ \A k \in Kinds : toldAge[k] = last[k]
      /\ hasty = {} /\ Hour \in Nat \ {0}
  BY DEF AlertsAssumption, AlertsInv, AlertsTypeOK, Outages
<1>2. toldAge = last
  BY <1>1
<1>3. CASE last[kind] >= Hour
  <2>1. /\ last' = [last EXCEPT ![kind] = 0]
        /\ toldAge' = [toldAge EXCEPT ![kind] = 0]
    BY <1>3 DEF Tell, Due
  <2>2. hasty' = {}
    BY <1>1, <1>3 DEF Tell, Due
  <2> QED
    BY <1>1, <1>2, <2>1, <2>2
<1>4. CASE ~(last[kind] >= Hour)
  <2>1. last' = last /\ toldAge' = toldAge /\ hasty' = hasty
    BY <1>1, <1>4 DEF Tell, Due
  <2>2. last[kind] < Hour
    BY <1>1, <1>4
  <2> QED
    BY <1>1, <1>2, <2>1, <2>2
<1> QED
  BY <1>3, <1>4

LEMMA ListFailsInv ==
  ASSUME AlertsAssumption, AlertsInv, ListFails
  PROVE  AlertsInv'
<1>1. Streaks'
  <2>1. Aside
    BY DEF ListFails, Aside
  <2> QED
    BY <2>1, StreaksKept DEF AlertsInv
<1>2. CASE Notifying
  <2>1. Tell("unavailable") /\ "unavailable" \in Kinds
    BY <1>2 DEF ListFails, Kinds
  <2>2. /\ last' \in [Kinds -> 0 .. Hour] /\ toldAge' = last' /\ hasty' = {}
        /\ toldAge'["unavailable"] < Hour
    BY <2>1, Tells
  <2>3. announced' \in BOOLEAN /\ outageTold' = announced'
    BY <1>2 DEF ListFails, AlertsTypeOK, Outages, AlertsInv
  <2>4. AlertsTypeOK'
    BY <1>2, <2>2, <2>3 DEF ListFails, AlertsTypeOK, NoList, AlertsInv
  <2>5. Outages'
    BY <2>2, <2>3 DEF Outages, OutagesTold, ListFails
  <2> QED
    BY <1>1, <2>4, <2>5 DEF AlertsInv
<1>3. CASE ~Notifying
  <2>1. AlertsTypeOK' /\ Outages'
    BY <1>3
       DEF ListFails, AlertsTypeOK, Outages, OutagesTold, Notifying, NoList,
           AlertsInv
  <2> QED
    BY <1>1, <2>1 DEF AlertsInv
<1> QED
  BY <1>2, <1>3

LEMMA AlertNotSavedInv ==
  ASSUME AlertsAssumption, AlertsInv, NEW f \in Feeds, AlertNotSaved(f)
  PROVE  AlertsInv'
<1>1. Streaks'
  <2>1. Aside
    BY DEF AlertNotSaved, AlertsInv, AlertsTypeOK, NoJob, Aside
  <2> QED
    BY <2>1, StreaksKept DEF AlertsInv
<1>2. CASE Notifying
  <2>1. Tell("not_saved")
    BY <1>2 DEF AlertNotSaved
  <2>2. "not_saved" \in Kinds /\ "unavailable" \in Kinds
    BY DEF Kinds
  <2>3. /\ last' \in [Kinds -> 0 .. Hour] /\ toldAge' = last' /\ hasty' = {}
        /\ toldAge'["not_saved"] < Hour
        /\ \A k \in Kinds : k # "not_saved" => toldAge'[k] = toldAge[k]
    BY <2>1, <2>2, Tells
  <2>4. AlertsTypeOK'
    BY <2>3
       DEF AlertNotSaved, AlertsTypeOK, NoJob, Jobs, AlertsInv,
           AlertsAssumption
  <2>5. outageTold' = outageTold /\ announced' = announced /\ setting' = setting
    BY DEF AlertNotSaved
  <2>6. read' = IF read = "failed" THEN read ELSE "refused"
    BY DEF AlertNotSaved
  <2>7. Outages'
    BY <2>2, <2>3, <2>5, <2>6 DEF Outages, OutagesTold, Notifying, AlertsInv
  <2> QED
    BY <1>1, <2>4, <2>7 DEF AlertsInv
<1>3. CASE ~Notifying
  <2>1. AlertsTypeOK'
    BY <1>3
       DEF AlertNotSaved, AlertsTypeOK, NoJob, Jobs, AlertsInv,
           AlertsAssumption
  <2>2. Outages'
    BY <1>3 DEF AlertNotSaved, Outages, OutagesTold, Notifying, AlertsInv
  <2> QED
    BY <1>1, <2>1, <2>2 DEF AlertsInv
<1> QED
  BY <1>2, <1>3

\* The tick and the clock.
LEMMA TickInv ==
  ASSUME AlertsAssumption, AlertsInv,
         SkipRest \/ TimePasses \/ \E due \in SUBSET Feeds : ListSucceeds(due)
  PROVE  AlertsInv'
<1> USE DEF AlertsAssumption, AlertsInv, memory, history, NoList
<1>1. CASE SkipRest
  <2>1. AlertsTypeOK' /\ Outages'
    BY <1>1, OutagesKept DEF SkipRest, AlertsTypeOK
  <2>2. Aside
    BY <1>1 DEF SkipRest, Aside
  <2> QED
    BY <2>1, <2>2, StreaksKept
<1>2. CASE TimePasses
  <2>1. AlertsTypeOK'
    BY <1>2 DEF TimePasses, AlertsTypeOK
  <2>2. Outages'
    BY <1>2 DEF TimePasses, AlertsTypeOK, Outages, OutagesTold
  <2>3. Aside
    BY <1>2 DEF TimePasses, Aside
  <2> QED
    BY <2>1, <2>2, <2>3, StreaksKept
<1>3. ASSUME NEW due \in SUBSET Feeds, ListSucceeds(due)
      PROVE  AlertsInv'
  <2>1. AlertsTypeOK'
    BY <1>3 DEF ListSucceeds, AlertsTypeOK, Existing
  <2>2. Outages'
    BY <1>3 DEF ListSucceeds, Outages, OutagesTold, Notifying, Resolves
  <2>3. Remembered'
    BY <1>3 DEF ListSucceeds, Streaks, Remembered, Existing
  <2>4. JobsOK' /\ OneAlert' /\ StandsOver' /\ Owing'
    BY <1>3
       DEF ListSucceeds, Streaks, JobsOK, OneAlert, StandsOver, Owing,
           Existing, Notifying, Threshold
  <2> QED
    BY <2>1, <2>2, <2>3, <2>4 DEF Streaks
<1> QED
  BY <1>1, <1>2, <1>3

\* The end of the process, and its next start.
LEMMA ProcessInv ==
  ASSUME AlertsAssumption, AlertsInv, Stop \/ Exit \/ Kill
  PROVE  AlertsInv'
<1> USE DEF AlertsAssumption, AlertsInv, memory, history, NoList
<1>1. Outages'
  BY OutagesKept DEF Stop, Exit, Kill
<1>2. CASE Stop \/ Exit
  <2>1. AlertsTypeOK'
    BY <1>2 DEF Stop, Exit, AlertsTypeOK
  <2>2. Aside
    BY <1>2 DEF Stop, Exit, Aside
  <2> QED
    BY <1>1, <2>1, <2>2, StreaksKept
<1>3. CASE Kill
  <2>1. AlertsTypeOK'
    BY <1>3 DEF Kill, AlertsTypeOK, NoJob, Jobs
  <2>2. JobsOK' /\ OneAlert' /\ Remembered'
    BY <1>3
       DEF Kill, NoJob, Streaks, JobsOK, OneAlert, Remembered, Existing,
           Notifying, Threshold
  <2>3. StandsOver' /\ Owing'
    BY <1>3
       DEF Kill, NoJob, Streaks, StandsOver, Owing, Existing, Notifying,
           Threshold
  <2> QED
    BY <1>1, <2>1, <2>2, <2>3 DEF Streaks
<1> QED
  BY <1>2, <1>3

LEMMA RestartInv ==
  ASSUME AlertsAssumption, AlertsInv, NEW s \in Settings, Restart(s)
  PROVE  AlertsInv'
<1> USE DEF AlertsAssumption, AlertsInv, Restart, Never
<1>1. since' \in [Feeds -> SUBSET {"saved", "restarted"}]
  <2>1. \A f \in Feeds :
          since[f] \union {"restarted"} \in SUBSET {"saved", "restarted"}
    BY DEF AlertsTypeOK
  <2> QED
    BY <2>1
<1>2. alerts' \in [Feeds -> 0 .. MaxFailures] /\ excused' \subseteq Feeds
  BY DEF AlertsTypeOK
<1>3. last' \in [Kinds -> 0 .. Hour] /\ toldAge' = last'
  BY DEF AlertsTypeOK
<1>4. restarts' \in 0 .. MaxRestarts
  BY DEF AlertsTypeOK
<1>5. AlertsTypeOK'
  BY <1>1, <1>2, <1>3, <1>4 DEF AlertsTypeOK
<1>6. Outages'
  BY <1>3 DEF Outages, OutagesTold
<1>7. JobsOK' /\ OneAlert'
  BY DEF AlertsTypeOK, Streaks, JobsOK, OneAlert, Notifying, Threshold
<1>8. Remembered'
  BY DEF AlertsTypeOK, Streaks, Remembered, Existing
<1>9. StandsOver'
  BY DEF AlertsTypeOK, Streaks, StandsOver, Notifying, Threshold
<1>10. Owing'
  BY DEF AlertsTypeOK, Streaks, Owing, Both, Existing, Notifying, Threshold
<1> QED
  BY <1>5, <1>6, <1>7, <1>8, <1>9, <1>10 DEF Streaks

LEMMA AlertsInvStep ==
  ASSUME AlertsAssumption, AlertsInv, [AlertsNext]_alertVars
  PROVE  AlertsInv'
<1>1. CASE UNCHANGED alertVars
  <2>1. Aside
    BY <1>1 DEF alertVars, Aside
  <2>2. AlertsTypeOK'
    BY <1>1 DEF alertVars, AlertsInv, AlertsTypeOK
  <2>3. Outages'
    BY <1>1, OutagesKept DEF alertVars, AlertsInv
  <2> QED
    BY <2>1, <2>2, <2>3, StreaksKept DEF AlertsInv
<1> QED
  BY <1>1, JobsInv, StoreInv, LoseAnswerInv, AlertRefreshInv, AlertNotSavedInv, EditInv,
     ListFailsInv, TickInv, ProcessInv, RestartInv, Zenon
     DEF AlertsNext

LEMMA AlertsSafe == AlertsInv => AlertsFollowStreak /\ OutagesTold
BY DEF AlertsInv, Streaks, Outages, Owing, OneAlert, AlertsFollowStreak,
       Existing, Both, Threshold, Notifying, AlertsTypeOK

\* The failing and recovered events of a feed follow its streak over saves,
\* overtaken alerts, restarts and lost answers: one when the threshold is
\* reached, one when the feed recovers (alertRefresh, alerts.forget).  Excused
\* are only feeds whose own event was lost, to a kill or with an answer, those
\* both saved and met by a restart, and another setting.
THEOREM StreaksTold ==
  AlertsAssumption => (AlertsSpec => []AlertsFollowStreak)
<1> SUFFICES ASSUME AlertsAssumption PROVE AlertsSpec => []AlertsFollowStreak
  OBVIOUS
<1>1. AlertsInit => AlertsInv
  BY AlertsInvInit
<1>2. AlertsInv /\ [AlertsNext]_alertVars => AlertsInv'
  BY AlertsInvStep
<1>3. AlertsInv => AlertsFollowStreak
  BY AlertsSafe
<1> QED
  BY <1>1, <1>2, <1>3, PTL DEF AlertsSpec

\* The variables of the alerts keep their types: the rows and their refreshes,
\* what is remembered, what was told and when.
THEOREM AlertsTyped == AlertsAssumption => (AlertsSpec => []AlertsTypeOK)
<1> SUFFICES ASSUME AlertsAssumption PROVE AlertsSpec => []AlertsTypeOK
  OBVIOUS
<1>1. AlertsInit => AlertsInv
  BY AlertsInvInit
<1>2. AlertsInv /\ [AlertsNext]_alertVars => AlertsInv'
  BY AlertsInvStep
<1>3. AlertsInv => AlertsTypeOK
  BY DEF AlertsInv
<1> QED
  BY <1>1, <1>2, <1>3, PTL DEF AlertsSpec

\* A library that cannot be read and a result that is refused are told within
\* the hour and never twice in it, and an outage that is over is resolved
\* (alerts.due).
THEOREM OutagesEnd == AlertsAssumption => (AlertsSpec => []OutagesTold)
<1> SUFFICES ASSUME AlertsAssumption PROVE AlertsSpec => []OutagesTold
  OBVIOUS
<1>1. AlertsInit => AlertsInv
  BY AlertsInvInit
<1>2. AlertsInv /\ [AlertsNext]_alertVars => AlertsInv'
  BY AlertsInvStep
<1>3. AlertsInv => OutagesTold
  BY AlertsSafe
<1> QED
  BY <1>1, <1>2, <1>3, PTL DEF AlertsSpec
=============================================================================
