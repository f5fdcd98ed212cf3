--------------------------- MODULE RefreshProofs ---------------------------
(***************************************************************************)
(* Safety of the refresh cycle for every number of feeds, filters, workers *)
(* and edits: its variables have their types, and IndInv of RefreshInv is  *)
(* inductive.  The bounds of the model only restrict its steps, so nothing *)
(* below depends on their values.                                          *)
(***************************************************************************)
EXTENDS RefreshInv, TLAPS

----------------------------------------------------------------------------
(* Types. *)

\* The blank values have the types of the values they stand for.
LEMMA BlankTypes ==
  /\ \A r \in Recipes, l \in SUBSET Filters, e \in BOOLEAN :
       NewRow(r, l, e) \in Row
  /\ BlankRow \in Row
  /\ Unseen \in Seen
  /\ NoOutcome \in [result: Results, etag: BOOLEAN]
  /\ AnyFeed \in Feeds
<1>1. (CHOOSE r \in Recipes : TRUE) \in Recipes
  BY ValuesAssumption
<1>2. AnyFeed \in Feeds
  BY ValuesAssumption DEF AnyFeed
<1>3. \A r \in Recipes, l \in SUBSET Filters, e \in BOOLEAN :
        NewRow(r, l, e) \in Row
  BY DEF NewRow, Row
<1>4. BlankRow \in Row
  BY <1>1, <1>3 DEF BlankRow
<1>5. \A r \in Row : See(r) \in Seen
  BY DEF See, Seen, Row
<1>6. Unseen \in Seen
  BY <1>4, <1>5 DEF Unseen
<1>7. NoOutcome \in [result: Results, etag: BOOLEAN]
  BY DEF NoOutcome, Outcome, Results
<1> QED
  BY <1>2, <1>3, <1>4, <1>6, <1>7

LEMMA SeeType == \A r \in Row : See(r) \in Seen
BY DEF See, Seen, Row

LEMMA RelinkType ==
  ASSUME NEW s \in Seen, NEW l \in SUBSET Filters
  PROVE  [s EXCEPT !.links = l] \in Seen
BY DEF Seen

\* Merging rules into a recipe gives a merged recipe.
LEMMA MergedType ==
  ASSUME StoreTypeOK, NEW r \in Recipes, NEW l \in SUBSET Filters
  PROVE  Merged(r, l) \in MergedRecipes
<1>1. [x \in l |-> rules[x]] \in [l -> Rules]
  BY DEF StoreTypeOK
<1>2. Merged(r, l) \in [recipe: Recipes, rules: [l -> Rules]]
  BY <1>1 DEF Merged
<1> QED
  BY <1>2 DEF MergedRecipes

LEMMA InitType == Init => TypeOK
<1> SUFFICES ASSUME Init PROVE TypeOK
  OBVIOUS
<1> USE DEF Init
<1>1. StoreTypeOK
  <2>1. (CHOOSE r \in Rules : TRUE) \in Rules
    BY ValuesAssumption
  <2> QED
    BY <2>1, BlankTypes DEF StoreInit, StoreTypeOK, LifeCycle
<1>2. held \in [Feeds -> Hold]
  BY DEF MemInit, Hold, NoHold
<1>3. pc \in [Workers -> Steps]
  BY DEF MemInit, Steps
<1>4. outcome \in [Workers -> [result: Results, etag: BOOLEAN]]
  BY BlankTypes DEF MemInit
<1>5. used \in [Workers -> MergedRecipes \union {NothingBuilt}]
  BY DEF MemInit
<1>6. snap \in [Workers -> Seen] /\ list \in [Feeds -> Seen]
  BY BlankTypes DEF MemInit
<1> QED
  BY <1>1, <1>2, <1>3, <1>4, <1>5, <1>6, BlankTypes
     DEF TypeOK, MemInit, FinishOrder

----------------------------------------------------------------------------
(* The store's own steps. *)

\* The writes of the handlers and the clock: everything but a result.
Edits ==
  \/ \E f \in Feeds, r \in Recipes, l \in SUBSET Filters, e \in BOOLEAN :
       CreateFeed(f, r, l, e) \/ EditFeed(f, r, l, e)
  \/ \E new \in SUBSET Feeds, r \in Recipes : ImportFeeds(new, r)
  \/ \E f \in Feeds : DeleteFeed(f) \/ QueueFeed(f) \/ ReachNextRun(f)
  \/ \E f \in Feeds, e \in BOOLEAN : SetEnabled(f, e)
  \/ \E x \in Filters, r \in Rules : CreateFilter(x, r) \/ EditFilter(x, r)
  \/ \E x \in Filters : DeleteFilter(x)

LEMMA EditsType == StoreTypeOK /\ Edits => StoreTypeOK'
<1> SUFFICES ASSUME StoreTypeOK, Edits PROVE StoreTypeOK'
  OBVIOUS
<1>1. ASSUME NEW f \in Feeds, NEW r \in Recipes, NEW l \in SUBSET Filters,
             NEW e \in BOOLEAN, CreateFeed(f, r, l, e)
      PROVE  StoreTypeOK'
  BY <1>1, BlankTypes DEF StoreTypeOK, CreateFeed, LifeCycle
<1>2. ASSUME NEW f \in Feeds, NEW r \in Recipes, NEW l \in SUBSET Filters,
             NEW e \in BOOLEAN, EditFeed(f, r, l, e)
      PROVE  StoreTypeOK'
  <2>1. Edited(row[f], r, l, e) \in Row
    BY DEF StoreTypeOK, Row, Edited
  <2> QED
    BY <1>2, <2>1 DEF StoreTypeOK, EditFeed
<1>3. ASSUME NEW new \in SUBSET Feeds, NEW r \in Recipes, ImportFeeds(new, r)
      PROVE  StoreTypeOK'
  BY <1>3, BlankTypes DEF StoreTypeOK, ImportFeeds, LifeCycle
<1>4. ASSUME NEW f \in Feeds, DeleteFeed(f)
      PROVE  StoreTypeOK'
  BY <1>4, BlankTypes DEF StoreTypeOK, DeleteFeed, LifeCycle
<1>5. ASSUME NEW f \in Feeds, QueueFeed(f) \/ ReachNextRun(f)
      PROVE  StoreTypeOK'
  <2>1. [row[f] EXCEPT !.due = TRUE] \in Row
    BY DEF StoreTypeOK, Row
  <2>2. row' \in [Feeds -> Row]
    BY <1>5, <2>1 DEF StoreTypeOK, QueueFeed, ReachNextRun
  <2> QED
    BY <1>5, <2>2 DEF StoreTypeOK, QueueFeed, ReachNextRun
<1>6. ASSUME NEW f \in Feeds, NEW e \in BOOLEAN, SetEnabled(f, e)
      PROVE  StoreTypeOK'
  <2>1. Switched(row[f], e) \in Row
    BY DEF StoreTypeOK, Row, Switched
  <2> QED
    BY <1>6, <2>1 DEF StoreTypeOK, SetEnabled
<1>7. ASSUME NEW x \in Filters, NEW r \in Rules, CreateFilter(x, r)
      PROVE  StoreTypeOK'
  BY <1>7 DEF StoreTypeOK, CreateFilter, LifeCycle
<1>8. ASSUME NEW x \in Filters, NEW r \in Rules, EditFilter(x, r)
      PROVE  StoreTypeOK'
  <2>1. \A f \in Feeds : Refiltered(row[f]) \in Row
    BY DEF StoreTypeOK, Row, Refiltered
  <2>2. row' \in [Feeds -> Row]
    BY <1>8, <2>1 DEF StoreTypeOK, EditFilter
  <2> QED
    BY <1>8, <2>2 DEF StoreTypeOK, EditFilter
<1>9. ASSUME NEW x \in Filters, DeleteFilter(x)
      PROVE  StoreTypeOK'
  BY <1>9 DEF StoreTypeOK, DeleteFilter, LifeCycle
<1> QED
  BY <1>1, <1>2, <1>3, <1>4, <1>5, <1>6, <1>7, <1>8, <1>9 DEF Edits

LEMMA CompleteType ==
  ASSUME StoreTypeOK, NEW f \in Feeds, NEW snap0 \in Seen,
         NEW used0 \in MergedRecipes \union {NothingBuilt},
         NEW result \in {"none", "ok", "notmod", "fail", "cut"},
         NEW etag \in BOOLEAN, CompleteFeed(f, snap0, used0, result, etag)
  PROVE  StoreTypeOK'
<1>1. Completed(row[f], snap0, result, etag) \in Row
  BY DEF StoreTypeOK, Row, Seen, Completed
<1> QED
  BY <1>1 DEF CompleteFeed, StoreTypeOK, Seen

\* A step that leaves the database alone keeps its types.
LEMMA StoreSame == StoreTypeOK /\ UNCHANGED storeVars => StoreTypeOK'
BY DEF StoreTypeOK, storeVars

\* The steps of the handlers and the clock that write to the database.
EditSteps ==
  \/ OtherWrite
  \/ \E f \in Feeds :
       \/ \E r \in Recipes, l \in SUBSET Filters, e \in BOOLEAN : Save(f, r, l, e)
       \/ \E e \in BOOLEAN : SwitchEnabled(f, e)
       \/ QueueRefresh(f) \/ NextRunReached(f)

LEMMA EditStepsEdit ==
  EditSteps => /\ Edits
               /\ UNCHANGED <<tickVars, jobVars, active, finished, held, phase,
                             restarts, refused>>
<1>1. OtherWrite => Edits /\ UNCHANGED <<memVars, lifeVars, refused>>
  BY DEF OtherWrite, Edits
<1>2. ASSUME NEW f \in Feeds, NEW r \in Recipes, NEW l \in SUBSET Filters,
             NEW e \in BOOLEAN, Save(f, r, l, e)
      PROVE  Edits /\ UNCHANGED <<tickVars, jobVars, active, finished, held,
                                  phase, restarts, refused>>
  BY <1>2 DEF Save, Edits, lifeVars
<1>3. ASSUME NEW f \in Feeds, NEW e \in BOOLEAN, SwitchEnabled(f, e)
      PROVE  Edits /\ UNCHANGED <<tickVars, jobVars, active, finished, held,
                                  phase, restarts, refused>>
  BY <1>3 DEF SwitchEnabled, Edits, lifeVars
<1>4. ASSUME NEW f \in Feeds, QueueRefresh(f) \/ NextRunReached(f)
      PROVE  Edits /\ UNCHANGED <<tickVars, jobVars, active, finished, held,
                                  phase, restarts, refused>>
  BY <1>4 DEF QueueRefresh, NextRunReached, Edits, lifeVars, memVars
<1> QED
  BY <1>1, <1>2, <1>3, <1>4 DEF EditSteps, memVars, lifeVars

\* The pending requests of the handlers are sets of feeds.
LEMMA EditStepsType == TypeOK /\ EditSteps => TypeOK'
<1> SUFFICES ASSUME TypeOK, EditSteps PROVE TypeOK'
  OBVIOUS
<1>1. StoreTypeOK'
  BY EditStepsEdit, EditsType DEF TypeOK
<1>2. queueing' \subseteq Feeds /\ retrying' \subseteq Feeds
  BY DEF TypeOK, EditSteps, OtherWrite, Save, SwitchEnabled, QueueRefresh,
         NextRunReached, memVars, webVars
<1> QED
  BY <1>1, <1>2, EditStepsEdit DEF TypeOK, tickVars, jobVars

----------------------------------------------------------------------------
(* The steps that touch memory, and the result of a refresh. *)

LEMMA HoldTypes ==
  ASSUME held \in [Feeds -> Hold], NEW f \in Feeds
  PROVE  /\ Lifted(f) \in [Feeds -> Hold]
         /\ \A answer : AfterSave(f, answer) \in [Feeds -> Hold]
<1>1. Lifted(f) \in [Feeds -> Hold]
  BY DEF Lifted, Hold
<1>2. [held EXCEPT ![f] = [failures |-> held[f].failures + 1, waiting |-> TRUE]]
        \in [Feeds -> Hold]
  BY DEF Hold
<1>3. [held EXCEPT ![f] = NoHold] \in [Feeds -> Hold]
  BY DEF Hold, NoHold
<1> QED
  BY <1>1, <1>2, <1>3 DEF AfterSave

LEMMA TickType == TypeOK /\ Tick => TypeOK'
<1> SUFFICES ASSUME TypeOK, Tick PROVE TypeOK'
  OBVIOUS
<1>1. StoreTypeOK'
  BY StoreSame DEF TypeOK, Tick, ReadFeeds, AttachAndForget, EndTick, SkipFeed,
                   StartRefresh
<1>2. CASE ReadFeeds
  <2>1. list' \in [Feeds -> Seen]
    BY <1>2, SeeType, BlankTypes DEF ReadFeeds, TypeOK, StoreTypeOK, LiveFeeds
  <2>2. finished' \in [Feeds -> FinishOrder]
    BY <1>2 DEF ReadFeeds, TypeOK, FinishOrder
  <2> QED
    BY <1>1, <1>2, <2>1, <2>2
       DEF ReadFeeds, TypeOK, LiveFeeds, jobVars, webVars, lifeVars
<1>3. CASE AttachAndForget
  <2>1. \A f \in Feeds : list[f] \in Seen /\ row[f].links \in SUBSET Filters
    BY DEF TypeOK, StoreTypeOK, Row
  <2>2. list' \in [Feeds -> Seen]
    BY <1>3, <2>1, RelinkType, BlankTypes DEF AttachAndForget
  <2>3. held' \in [Feeds -> Hold]
    BY <1>3 DEF AttachAndForget, ForgetHolds, TypeOK, Hold, NoHold
  <2>4. finished' \in [Feeds -> FinishOrder]
    BY <1>3 DEF AttachAndForget, ForgetFinished, TypeOK, FinishOrder
  <2> QED
    BY <1>1, <1>3, <2>2, <2>3, <2>4
       DEF AttachAndForget, TypeOK, jobVars, webVars, lifeVars
<1>4. CASE EndTick
  BY <1>1, <1>4, BlankTypes DEF EndTick, TypeOK, jobVars, webVars, lifeVars
<1>5. ASSUME NEW f \in Feeds, SkipFeed(f)
      PROVE  TypeOK'
  BY <1>1, <1>5, BlankTypes
     DEF SkipFeed, Pass, TypeOK, jobVars, webVars, lifeVars
<1>6. ASSUME NEW f \in Feeds, NEW w \in Workers, StartRefresh(f, w)
      PROVE  TypeOK'
  <2>1. pc' \in [Workers -> Steps] /\ snap' \in [Workers -> Seen]
    BY <1>6 DEF StartRefresh, TypeOK, Steps
  <2> QED
    BY <1>1, <1>6, <2>1, BlankTypes
       DEF StartRefresh, Pass, TypeOK, webVars, lifeVars
<1> QED
  BY <1>2, <1>3, <1>4, <1>5, <1>6 DEF Tick

\* The steps of a refresh that leave the database alone.
QuietJob(w) ==
  \/ ReadRules(w)
  \/ \E result \in Results : RulesFailed(w, result)
  \/ \E answer \in Results \ {"none"}, e \in BOOLEAN : Extract(w, answer, e)
  \/ JudgeKeeps(w) \/ JudgeDiscards(w) \/ SaveDiscarded(w)
  \/ Settle(w) \/ RecordEnd(w) \/ ReleaseSlot(w)

LEMMA ForgetType ==
  ASSUME TypeOK, NEW w \in Workers, Forget(w)
  PROVE  /\ snap' \in [Workers -> Seen]
         /\ used' \in [Workers -> MergedRecipes \union {NothingBuilt}]
         /\ outcome' \in [Workers -> [result: Results, etag: BOOLEAN]]
<1>1. snap' \in [Workers -> Seen]
  BY BlankTypes DEF Forget, TypeOK
<1>2. used' \in [Workers -> MergedRecipes \union {NothingBuilt}]
  BY DEF Forget, TypeOK
<1>3. outcome' \in [Workers -> [result: Results, etag: BOOLEAN]]
  BY BlankTypes DEF Forget, TypeOK
<1> QED
  BY <1>1, <1>2, <1>3

LEMMA QuietJobType ==
  ASSUME TypeOK, NEW w \in Workers, QuietJob(w)
  PROVE  TypeOK'
<1>1. StoreTypeOK'
  BY StoreSame DEF TypeOK, QuietJob, ReadRules, RulesFailed, Extract,
     JudgeKeeps, JudgeDiscards, SaveDiscarded, Settle, RecordEnd, ReleaseSlot
<1>2. CASE ReadRules(w)
  <2>1. Merged(snap[w].recipe, snap[w].links) \in MergedRecipes
    BY MergedType DEF TypeOK, Seen
  <2>2. pc' \in [Workers -> Steps]
    BY <1>2 DEF ReadRules, GoTo, TypeOK, Steps
  <2>3. used' \in [Workers -> MergedRecipes \union {NothingBuilt}]
    BY <1>2, <2>1 DEF ReadRules, TypeOK
  <2> QED
    BY <1>1, <1>2, <2>2, <2>3 DEF ReadRules, TypeOK, tickVars, webVars, lifeVars
<1>3. ASSUME NEW result \in Results, NEW e \in BOOLEAN,
             GoTo(w, "judge"),
             outcome' = [outcome EXCEPT ![w] = Outcome(result, e)],
             UNCHANGED <<tickVars, feed, snap, used, active, finished, held,
                         webVars, lifeVars, refused>>
      PROVE  TypeOK'
  <2>1. pc' \in [Workers -> Steps]
    BY <1>3 DEF GoTo, TypeOK, Steps
  <2>2. outcome' \in [Workers -> [result: Results, etag: BOOLEAN]]
    BY <1>3 DEF Outcome, TypeOK
  <2> QED
    BY <1>1, <1>3, <2>1, <2>2 DEF TypeOK, tickVars, webVars, lifeVars
<1>4. ASSUME NEW result \in Results, RulesFailed(w, result)
      PROVE  TypeOK'
  BY <1>3, <1>4 DEF RulesFailed
<1>5. ASSUME NEW answer \in Results \ {"none"}, NEW e \in BOOLEAN,
             Extract(w, answer, e)
      PROVE  TypeOK'
  <2> DEFINE result == Understood(w, answer)
             etag == IF result = "ok" THEN e ELSE snap[w].etag
  <2>1. result \in Results /\ etag \in BOOLEAN
    BY DEF Understood, Results, TypeOK, Seen
  <2>2. /\ GoTo(w, "judge")
        /\ outcome' = [outcome EXCEPT ![w] = Outcome(result, etag)]
        /\ UNCHANGED <<tickVars, feed, snap, used, active, finished, held,
                       webVars, lifeVars, refused>>
    BY <1>5 DEF Extract
  <2> HIDE DEF result, etag
  <2> QED
    BY <1>3, <2>1, <2>2
<1>6. CASE JudgeKeeps(w)
  <2>1. pc' \in [Workers -> Steps]
    BY <1>6 DEF JudgeKeeps, GoTo, TypeOK, Steps
  <2> QED
    BY <1>1, <1>6, <2>1 DEF JudgeKeeps, TypeOK, tickVars, webVars, lifeVars
<1>7. CASE JudgeDiscards(w) \/ SaveDiscarded(w)
  <2>1. pc' \in [Workers -> Steps]
    BY <1>7 DEF JudgeDiscards, SaveDiscarded, GoTo, TypeOK, Steps, Answers
  <2>2. /\ snap' \in [Workers -> Seen]
        /\ used' \in [Workers -> MergedRecipes \union {NothingBuilt}]
        /\ outcome' \in [Workers -> [result: Results, etag: BOOLEAN]]
    BY <1>7, ForgetType DEF JudgeDiscards, SaveDiscarded
  <2> QED
    BY <1>1, <1>7, <2>1, <2>2
       DEF JudgeDiscards, SaveDiscarded, TypeOK, tickVars, webVars, lifeVars
<1>8. CASE Settle(w)
  <2>1. pc' \in [Workers -> Steps]
    BY <1>8 DEF Settle, GoTo, TypeOK, Steps
  <2>2. held' \in [Feeds -> Hold]
    BY <1>8, HoldTypes DEF Settle, TypeOK
  <2> QED
    BY <1>1, <1>8, <2>1, <2>2 DEF Settle, TypeOK, tickVars, webVars, lifeVars
<1>9. CASE RecordEnd(w)
  <2>1. pc' \in [Workers -> Steps]
    BY <1>9 DEF RecordEnd, GoTo, TypeOK, Steps
  <2>2. finished' \in [Feeds -> FinishOrder]
    BY <1>9 DEF RecordEnd, TypeOK, FinishOrder
  <2> QED
    BY <1>1, <1>9, <2>1, <2>2 DEF RecordEnd, TypeOK, tickVars, webVars, lifeVars
<1>10. CASE ReleaseSlot(w)
  <2>1. pc' \in [Workers -> Steps] /\ feed' \in [Workers -> Feeds]
    BY <1>10, BlankTypes DEF ReleaseSlot, GoTo, TypeOK, Steps
  <2> QED
    BY <1>1, <1>10, <2>1 DEF ReleaseSlot, TypeOK, tickVars, webVars, lifeVars
<1> QED
  BY <1>2, <1>4, <1>5, <1>6, <1>7, <1>8, <1>9, <1>10 DEF QuietJob

\* The steps of a refresh at the end of its transaction.
LEMMA SaveType ==
  ASSUME TypeOK, NEW w \in Workers, SaveStored(w) \/ SaveRefused(w)
  PROVE  TypeOK'
<1>1. Complete(w) => StoreTypeOK'
  <2> SUFFICES ASSUME Complete(w) PROVE StoreTypeOK'
    OBVIOUS
  <2>1. /\ feed[w] \in Feeds /\ snap[w] \in Seen
        /\ used[w] \in MergedRecipes \union {NothingBuilt}
        /\ outcome[w].result \in {"none", "ok", "notmod", "fail", "cut"}
        /\ outcome[w].etag \in BOOLEAN
    BY DEF TypeOK, Results
  <2>2. StoreTypeOK
    BY DEF TypeOK
  <2>3. CompleteFeed(feed[w], snap[w], used[w], outcome[w].result,
                     outcome[w].etag)
    BY DEF Complete
  <2> QED
    BY <2>1, <2>2, <2>3, CompleteType
<1>2. StoreTypeOK'
  BY <1>1, StoreSame DEF TypeOK, SaveStored, SaveRefused
<1>3. pc' \in [Workers -> Steps]
  BY DEF SaveStored, SaveRefused, GoTo, TypeOK, Steps, Answers
<1>4. /\ snap' \in [Workers -> Seen]
      /\ used' \in [Workers -> MergedRecipes \union {NothingBuilt}]
      /\ outcome' \in [Workers -> [result: Results, etag: BOOLEAN]]
  BY ForgetType DEF SaveStored, SaveRefused
<1>5. refused' \subseteq Feeds
  BY DEF SaveStored, SaveRefused, TypeOK
<1> QED
  BY <1>2, <1>3, <1>4, <1>5
     DEF SaveStored, SaveRefused, TypeOK, tickVars, webVars, lifeVars

\* The end of the process.
LEMMA GoneType == TypeOK /\ Gone => TypeOK'
<1> SUFFICES ASSUME TypeOK, Gone PROVE TypeOK'
  OBVIOUS
<1>1. StoreTypeOK'
  BY StoreSame DEF TypeOK, Gone
<1>2. pc' \in [Workers -> Steps] /\ held' \in [Feeds -> Hold]
  BY DEF Gone, Steps, Hold, NoHold
<1> QED
  BY <1>1, <1>2, BlankTypes DEF Gone, TypeOK, FinishOrder

\* The steps of the clock, the operator and the process that only touch memory.
MemorySteps ==
  \/ \E f \in Feeds : AskRefresh(f) \/ RetryHeld(f) \/ HoldExpires(f)
  \/ Stop \/ Restart

LEMMA MemoryType == TypeOK /\ MemorySteps => TypeOK'
<1> SUFFICES ASSUME TypeOK, MemorySteps PROVE TypeOK'
  OBVIOUS
<1>1. StoreTypeOK'
  BY StoreSame DEF TypeOK, MemorySteps, AskRefresh, RetryHeld, HoldExpires,
                   Stop, Restart
<1>2. held' \in [Feeds -> Hold]
  BY HoldTypes DEF TypeOK, MemorySteps, AskRefresh, RetryHeld, HoldExpires,
                   Stop, Restart, memVars
<1>3. phase' \in {"up", "stopping", "down"} /\ restarts' \in Nat
  BY DEF TypeOK, MemorySteps, AskRefresh, RetryHeld, HoldExpires, Stop, Restart,
         lifeVars
<1>4. UNCHANGED <<tickVars, jobVars, active, finished>>
  BY DEF MemorySteps, AskRefresh, RetryHeld, HoldExpires, Stop, Restart, memVars
<1>5. queueing' \subseteq Feeds /\ retrying' \subseteq Feeds /\ refused' \subseteq Feeds
  BY DEF TypeOK, MemorySteps, AskRefresh, RetryHeld, HoldExpires, Stop, Restart,
         memVars, webVars
<1> QED
  BY <1>1, <1>2, <1>3, <1>4, <1>5 DEF TypeOK, tickVars, jobVars

\* Every step is of one of these kinds.
LEMMA StepKinds ==
  Next => \/ EditSteps \/ MemorySteps \/ Tick \/ Gone
          \/ \E w \in Workers : QuietJob(w) \/ SaveStored(w) \/ SaveRefused(w)
BY DEF Next, Web, Process, Job, EditSteps, MemorySteps, QuietJob, Exit, Crash

\* Every variable keeps its type, from the process's first start on.
THEOREM Typing == Spec => []TypeOK
<1>1. TypeOK /\ [Next]_vars => TypeOK'
  <2> SUFFICES ASSUME TypeOK, [Next]_vars PROVE TypeOK'
    OBVIOUS
  <2>1. CASE Next
    BY <2>1, StepKinds, EditStepsType, MemoryType, TickType, GoneType,
       QuietJobType, SaveType
  <2>2. CASE UNCHANGED vars
    BY <2>2, StoreSame
       DEF vars, TypeOK, memVars, tickVars, jobVars, webVars, lifeVars
  <2> QED
    BY <2>1, <2>2
<1> QED
  BY <1>1, InitType, PTL DEF Spec

----------------------------------------------------------------------------
(* The safety invariants. *)

----------------------------------------------------------------------------
(* What the handlers and the clock do to the row of a feed. *)

\* A write that restarts feed f: it is new, or its version moved.
Restarted(f) ==
  /\ \/ feedState[f] = "unused"
     \/ feedState[f] = "live" /\ row'[f].version = row[f].version + 1
  /\ row'[f].due /\ ~row'[f].etag
  /\ row'[f].failures = streak'[f]

\* A write that leaves all of f alone that a refresh goes by.
Untouched(f) ==
  /\ feedState[f] = "live"
  /\ See(row'[f]) = See(row[f])
  /\ row[f].due => row'[f].due
  /\ \A x \in row[f].links : rules'[x] = rules[x]
  /\ built'[f] = built[f] /\ tried'[f] = tried[f] /\ streak'[f] = streak[f]

\* See determines what it shows, and nothing else.
LEMMA SeeFields ==
  ASSUME NEW r, NEW q
  PROVE  See(r) = See(q) <=>
           /\ r.version = q.version /\ r.failures = q.failures
           /\ r.success = q.success /\ r.etag = q.etag
           /\ r.recipe = q.recipe /\ r.links = q.links
BY DEF See

\* Pausing and resuming a feed changes nothing a refresh goes by.
LEMMA SwitchedSees ==
  ASSUME NEW r \in Row, NEW e \in BOOLEAN
  PROVE  See(Switched(r, e)) = See(r) /\ (r.due => Switched(r, e).due)
BY DEF See, Switched, Row

LEMMA EditRow ==
  ASSUME StoreTypeOK, NoDanglingLinks, NoPast, FailuresCountStreak, Edits,
         NEW f \in Feeds, feedState'[f] = "live"
  PROVE  Restarted(f) \/ Untouched(f)
<1>1. ASSUME NEW g \in Feeds, NEW r \in Recipes, NEW l \in SUBSET Filters,
             NEW e \in BOOLEAN, CreateFeed(g, r, l, e)
      PROVE  Restarted(f) \/ Untouched(f)
  BY <1>1 DEF StoreTypeOK, NoPast, CreateFeed, NewRow, Restarted, Untouched
<1>2. ASSUME NEW g \in Feeds, NEW r \in Recipes, NEW l \in SUBSET Filters,
             NEW e \in BOOLEAN, EditFeed(g, r, l, e)
      PROVE  Restarted(f) \/ Untouched(f)
  <2>1. CASE f = g
    BY <1>2, <2>1 DEF StoreTypeOK, EditFeed, Edited, Restarted
  <2>2. CASE f # g
    BY <1>2, <2>2 DEF StoreTypeOK, EditFeed, Untouched
  <2> QED
    BY <2>1, <2>2
<1>3. ASSUME NEW new \in SUBSET Feeds, NEW r \in Recipes, ImportFeeds(new, r)
      PROVE  Restarted(f) \/ Untouched(f)
  BY <1>3 DEF StoreTypeOK, NoPast, ImportFeeds, NewRow, Restarted, Untouched
<1>4. ASSUME NEW g \in Feeds, DeleteFeed(g)
      PROVE  Restarted(f) \/ Untouched(f)
  BY <1>4 DEF StoreTypeOK, DeleteFeed, Restarted, Untouched
<1>5. ASSUME NEW g \in Feeds, QueueFeed(g) \/ ReachNextRun(g)
      PROVE  Restarted(f) \/ Untouched(f)
  <2>1. row' = row \/ row' = [row EXCEPT ![g].due = TRUE]
    BY <1>5 DEF QueueFeed, ReachNextRun
  <2>2. UNCHANGED <<feedState, rules, built, tried, streak>>
    BY <1>5 DEF QueueFeed, ReachNextRun
  <2>3. See(row'[f]) = See(row[f]) /\ (row[f].due => row'[f].due)
    BY <2>1, SeeFields DEF StoreTypeOK, Row
  <2> QED
    BY <2>2, <2>3 DEF Untouched
<1>6. ASSUME NEW g \in Feeds, NEW e \in BOOLEAN, SetEnabled(g, e)
      PROVE  Restarted(f) \/ Untouched(f)
  <2>1. row'[f] = row[f] \/ row'[f] = Switched(row[f], e)
    BY <1>6 DEF StoreTypeOK, SetEnabled
  <2>2. See(row'[f]) = See(row[f]) /\ (row[f].due => row'[f].due)
    BY <2>1, SwitchedSees DEF StoreTypeOK
  <2>3. /\ feedState[f] = "live"
        /\ UNCHANGED <<rules, built, tried, streak>>
    BY <1>6 DEF SetEnabled
  <2> QED
    BY <2>2, <2>3 DEF Untouched
<1>7. ASSUME NEW x \in Filters, NEW r \in Rules, CreateFilter(x, r)
      PROVE  Restarted(f) \/ Untouched(f)
  <2>1. feedState[f] = "live" /\ x \notin row[f].links
    BY <1>7 DEF CreateFilter, NoDanglingLinks, LiveFeeds, LiveFilters
  <2>2. \A y \in row[f].links : rules'[y] = rules[y]
    BY <1>7, <2>1 DEF CreateFilter, StoreTypeOK, Row
  <2> QED
    BY <1>7, <2>1, <2>2 DEF CreateFilter, Untouched
<1>8. ASSUME NEW x \in Filters, NEW r \in Rules, EditFilter(x, r)
      PROVE  Restarted(f) \/ Untouched(f)
  <2>1. feedState[f] = "live"
    BY <1>8 DEF EditFilter
  <2>2. CASE x \in row[f].links
    <3>1. row'[f] = Refiltered(row[f]) /\ streak'[f] = streak[f]
      BY <1>8, <2>1, <2>2 DEF EditFilter, LiveFeeds
    <3> QED
      BY <2>1, <3>1 DEF Refiltered, Restarted, FailuresCountStreak, LiveFeeds
  <2>3. CASE x \notin row[f].links
    <3>1. row'[f] = row[f]
      BY <1>8, <2>3 DEF EditFilter, LiveFeeds
    <3>2. \A y \in row[f].links : rules'[y] = rules[y]
      BY <1>8, <2>3 DEF EditFilter, StoreTypeOK, Row
    <3> QED
      BY <1>8, <2>1, <3>1, <3>2 DEF EditFilter, Untouched
  <2> QED
    BY <2>2, <2>3
<1>9. ASSUME NEW x \in Filters, DeleteFilter(x)
      PROVE  Restarted(f) \/ Untouched(f)
  BY <1>9 DEF DeleteFilter, Untouched
<1> QED
  BY <1>1, <1>2, <1>3, <1>4, <1>5, <1>6, <1>7, <1>8, <1>9 DEF Edits

\* A feed is deleted for good, and stops being unused for good.
LEMMA EditLife ==
  ASSUME StoreTypeOK, Edits, NEW f \in Feeds
  PROVE  /\ feedState[f] # "unused" => feedState'[f] # "unused"
         /\ feedState[f] = "deleted" => feedState'[f] = "deleted"
         /\ feedState'[f] = "unused" => streak'[f] = streak[f]
BY DEF StoreTypeOK, Edits, CreateFeed, EditFeed, ImportFeeds, DeleteFeed,
       QueueFeed, ReachNextRun, SetEnabled, CreateFilter, EditFilter, DeleteFilter

\* A save only links filters that exist; a filter in use is not deleted.
LEMMA EditLinks ==
  StoreTypeOK /\ NoDanglingLinks /\ Edits => NoDanglingLinks'
<1> SUFFICES ASSUME StoreTypeOK, NoDanglingLinks, Edits,
                    NEW f \in Feeds, feedState'[f] = "live",
                    NEW y \in row'[f].links
             PROVE  y \in Filters /\ filterState'[y] = "live"
  BY DEF NoDanglingLinks, LiveFeeds, LiveFilters
<1> USE DEF NoDanglingLinks, LiveFeeds, LiveFilters, StoreTypeOK
<1>1. ASSUME NEW g \in Feeds, NEW r \in Recipes, NEW l \in SUBSET Filters,
             NEW e \in BOOLEAN, CreateFeed(g, r, l, e) \/ EditFeed(g, r, l, e)
      PROVE  y \in Filters /\ filterState'[y] = "live"
  BY <1>1 DEF CreateFeed, EditFeed, NewRow, Edited
<1>2. ASSUME NEW new \in SUBSET Feeds, NEW r \in Recipes, ImportFeeds(new, r)
      PROVE  y \in Filters /\ filterState'[y] = "live"
  BY <1>2 DEF ImportFeeds, NewRow
<1>3. ASSUME NEW g \in Feeds,
             DeleteFeed(g) \/ QueueFeed(g) \/ ReachNextRun(g)
      PROVE  y \in Filters /\ filterState'[y] = "live"
  <2>1. feedState[f] = "live" /\ filterState' = filterState
    BY <1>3 DEF DeleteFeed, QueueFeed, ReachNextRun
  <2>2. \/ row'[f] = row[f]
        \/ row' = [row EXCEPT ![g].due = TRUE]
    BY <1>3 DEF DeleteFeed, QueueFeed, ReachNextRun
  <2>3. row'[f].links = row[f].links
    BY <2>2 DEF Row
  <2> QED
    BY <2>1, <2>3
<1>4. ASSUME NEW g \in Feeds, NEW e \in BOOLEAN, SetEnabled(g, e)
      PROVE  y \in Filters /\ filterState'[y] = "live"
  BY <1>4 DEF SetEnabled, Switched
<1>5. ASSUME NEW x \in Filters, NEW r \in Rules, CreateFilter(x, r)
      PROVE  y \in Filters /\ filterState'[y] = "live"
  BY <1>5 DEF CreateFilter
<1>6. ASSUME NEW x \in Filters, NEW r \in Rules, EditFilter(x, r)
      PROVE  y \in Filters /\ filterState'[y] = "live"
  <2>1. row'[f].links = row[f].links
    BY <1>6 DEF EditFilter, Refiltered
  <2> QED
    BY <1>6, <2>1 DEF EditFilter
<1>7. ASSUME NEW x \in Filters, DeleteFilter(x)
      PROVE  y \in Filters /\ filterState'[y] = "live"
  BY <1>7 DEF DeleteFilter
<1> QED
  BY <1>1, <1>2, <1>3, <1>4, <1>5, <1>6, <1>7 DEF Edits

\* The database part of the invariant survives every write.
LEMMA EditStoreInv ==
  StoreTypeOK /\ StoreInv /\ Edits => StoreInv'
<1> SUFFICES ASSUME StoreTypeOK, StoreInv, Edits PROVE StoreInv'
  OBVIOUS
<1>1. NoDanglingLinks'
  BY EditLinks DEF StoreInv
<1>2. NoPast'
  BY EditLife DEF StoreInv, NoPast, StoreTypeOK, LifeCycle
<1>3. ASSUME NEW f \in Feeds, feedState'[f] = "live"
      PROVE  /\ row'[f].failures = streak'[f]
             /\ row'[f].etag => built'[f] = Effective(f)'
             /\ tried'[f] # row'[f].version => row'[f].due
  <2>1. CASE Restarted(f)
    BY <2>1 DEF Restarted
  <2>2. CASE Untouched(f)
    <3>1. /\ row'[f].failures = row[f].failures
          /\ row'[f].etag = row[f].etag
          /\ row'[f].version = row[f].version
          /\ row'[f].recipe = row[f].recipe
          /\ row'[f].links = row[f].links
      BY <2>2, SeeFields DEF Untouched
    <3>2. Effective(f)' = Effective(f)
      BY <2>2, <3>1 DEF Untouched, Effective, Merged
    <3> QED
      BY <2>2, <3>1, <3>2
         DEF Untouched, StoreInv, FailuresCountStreak, ValidatorMatchesRecipe,
             EditStaysDue, LiveFeeds
  <2> QED
    BY <1>3, <2>1, <2>2, EditRow DEF StoreInv
<1> QED
  BY <1>1, <1>2, <1>3
     DEF StoreInv, FailuresCountStreak, ValidatorMatchesRecipe, EditStaysDue,
         LiveFeeds

\* A write leaves alone what a refresh of the current version goes by.
LEMMA EditKeeps ==
  ASSUME StoreTypeOK, StoreInv, Edits, NEW f \in Feeds, NEW s \in Seen,
         Known(f, s)
  PROVE  /\ feedState'[f] # "unused"
         /\ feedState'[f] = "live" => s.version <= row'[f].version
         /\ feedState'[f] = "live" /\ row'[f].version = s.version =>
              Current(f, s) /\ Untouched(f)
<1>1. feedState'[f] # "unused"
  BY EditLife DEF Known
<1>2. ASSUME feedState'[f] = "live"
      PROVE  /\ s.version <= row'[f].version
             /\ row'[f].version = s.version => Current(f, s) /\ Untouched(f)
  <2>1. row[f].version \in Nat /\ s.version \in Nat
    BY DEF StoreTypeOK, Row, Seen
  <2>2. CASE Restarted(f)
    BY <2>1, <2>2 DEF Restarted, Known
  <2>3. CASE Untouched(f)
    <3>1. feedState[f] = "live" /\ row'[f].version = row[f].version
      BY <2>3, SeeFields DEF Untouched
    <3> QED
      BY <2>3, <3>1 DEF Known, Current
  <2> QED
    BY <1>2, <2>2, <2>3, EditRow DEF StoreInv
<1> QED
  BY <1>1, <1>2

----------------------------------------------------------------------------
(* The steps of the handlers and the clock. *)

LEMMA EditStepsInv == IndInv /\ EditSteps => IndInv'
<1> SUFFICES ASSUME IndInv, EditSteps PROVE IndInv'
  OBVIOUS
<1>1. /\ Edits
      /\ UNCHANGED <<tickVars, jobVars, active, finished, held, phase,
                     restarts, refused>>
  BY EditStepsEdit
<1>2. StoreTypeOK /\ StoreInv
  BY DEF IndInv, TypeOK
<1>3. UNCHANGED <<tickPc, listed, todo, list, pc, feed, snap, used, outcome>>
  BY <1>1 DEF tickVars, jobVars
<1>4. TypeOK' /\ StoreInv'
  BY <1>1, <1>2, EditStepsType, EditStoreInv DEF IndInv
<1>5. ListOK'
  <2> SUFFICES ASSUME NEW f \in Feeds, f \in todo
               PROVE  LET s == list[f] IN
                      /\ feedState'[f] # "unused"
                      /\ feedState'[f] = "live" => s.version <= row'[f].version
                      /\ feedState'[f] = "live" /\ row'[f].version = s.version =>
                           /\ s.recipe = row'[f].recipe
                           /\ tickPc = "dispatch" => s.links = row'[f].links
                           /\ finished[f] # "since" /\ ~Ends(f) =>
                                /\ s.failures = row'[f].failures
                                /\ s.success = row'[f].success
                                /\ s.etag = row'[f].etag
    <3>1. todo \subseteq Feeds
      BY DEF IndInv, TypeOK
    <3> QED
      BY <1>1, <1>3, <3>1 DEF ListOK, Known, Current, Fresh, Ends
  <2>1. list[f] \in Seen
    BY DEF IndInv, TypeOK
  <2>2. /\ Known(f, list[f])
        /\ Current(f, list[f]) =>
             /\ list[f].recipe = row[f].recipe
             /\ tickPc = "dispatch" => list[f].links = row[f].links
             /\ finished[f] # "since" /\ ~Ends(f) => Fresh(f, list[f])
    BY DEF IndInv, ListOK
  <2>3. Untouched(f) => /\ row'[f].failures = row[f].failures
                        /\ row'[f].success = row[f].success
                        /\ row'[f].etag = row[f].etag
                        /\ row'[f].recipe = row[f].recipe
                        /\ row'[f].links = row[f].links
    BY SeeFields DEF Untouched
  <2> QED
    BY <1>1, <1>2, <2>1, <2>2, <2>3, EditKeeps DEF Fresh
<1>6. JobsOK'
  <2>1. ASSUME NEW w \in Workers, Unanswered(w)
        PROVE  JobOK(w)'
    <3> DEFINE f == feed[w]  s == snap[w]  result == outcome[w].result
    <3>1. f \in Feeds /\ s \in Seen
      BY DEF IndInv, TypeOK
    <3>2. JobOK(w)
      BY <2>1 DEF IndInv, JobsOK
    <3>3. Known(f, s)
      BY <3>2 DEF JobOK
    <3>7. feed' = feed /\ snap' = snap /\ pc' = pc /\ outcome' = outcome
          /\ used' = used /\ phase' = phase
      BY <1>1, <1>3
    <3>4. ASSUME Untouched(f)
          PROVE  /\ row'[f].failures = row[f].failures
                 /\ row'[f].success = row[f].success
                 /\ row'[f].etag = row[f].etag
                 /\ row'[f].recipe = row[f].recipe
                 /\ row'[f].links = row[f].links
                 /\ Merged(row[f].recipe, row[f].links)'
                      = Merged(row[f].recipe, row[f].links)
      <4>1. See(row'[f]) = See(row[f]) /\ \A x \in row[f].links : rules'[x] = rules[x]
        BY <3>4 DEF Untouched
      <4>2. row'[f].links = row[f].links /\ row'[f].recipe = row[f].recipe
        BY <4>1, SeeFields
      <4>3. Merged(row[f].recipe, row[f].links)' = Merged(row[f].recipe, row[f].links)
        BY <3>7, <4>1, <4>2 DEF Merged
      <4> QED
        BY <4>1, <4>3, SeeFields
    <3>5. feedState'[f] = "live" /\ row'[f].version = s.version =>
            Current(f, s) /\ Untouched(f)
      BY <1>1, <1>2, <3>1, <3>3, EditKeeps
    <3>6. /\ feedState'[f] # "unused"
          /\ feedState'[f] = "live" => s.version <= row'[f].version
      BY <1>1, <1>2, <3>1, <3>3, EditKeeps
    <3>8. Known(f, s)'
      BY <3>6, <3>7 DEF Known
    <3>9. (Current(f, s) =>
             /\ Fresh(f, s)
             /\ s.recipe = row[f].recipe
             /\ s.links = row[f].links
             /\ pc[w] = "extract" \/ result \in {"ok", "notmod"}
                  => used[w] = Effective(f))'
      BY <3>2, <3>4, <3>5, <3>7 DEF JobOK, Current, Fresh, Effective
    <3> QED
      BY <3>2, <3>7, <3>8, <3>9 DEF JobOK
  <2>2. \A w \in Workers : Unanswered(w)' <=> Unanswered(w)
    BY <1>3 DEF Unanswered
  <2>3. JobsOK
    BY DEF IndInv
  <2>4. phase' = phase /\ pc' = pc /\ outcome' = outcome
    BY <1>1, <1>3
  <2> QED
    BY <2>1, <2>2, <2>3, <2>4 DEF JobsOK
<1>7. OneRefreshPerFeed' /\ RefusedHeld' /\ RefusedNotRefetched'
  BY <1>1, <1>3 DEF IndInv, OneRefreshPerFeed, RefusedHeld, RefusedNotRefetched,
                    Running, Unanswered, IsHeld
<1> QED
  BY <1>4, <1>5, <1>6, <1>7 DEF IndInv

----------------------------------------------------------------------------
(* Steps that leave the database alone. *)

LEMMA SameStoreInv == StoreInv /\ UNCHANGED storeVars => StoreInv'
BY DEF StoreInv, NoDanglingLinks, NoPast, FailuresCountStreak,
       ValidatorMatchesRecipe, EditStaysDue, LiveFeeds, LiveFilters, Effective,
       Merged, storeVars

\* A goroutine that a step does not touch keeps what it knows.
LEMMA SameJob ==
  ASSUME NEW w \in Workers, UNCHANGED storeVars,
         UNCHANGED <<pc[w], feed[w], snap[w], used[w], outcome[w]>>,
         phase' = "up" => phase = "up" \/ outcome[w].result # "cut"
  PROVE  /\ Unanswered(w)' <=> Unanswered(w)
         /\ JobOK(w) => JobOK(w)'
<1>1. Effective(feed[w])' = Effective(feed[w])
  BY DEF Effective, Merged, storeVars
<1> QED
  BY <1>1 DEF Unanswered, JobOK, Known, Current, Fresh, storeVars

LEMMA MemoryInv == IndInv /\ MemorySteps => IndInv'
<1> SUFFICES ASSUME IndInv, MemorySteps PROVE IndInv'
  OBVIOUS
<1>1. UNCHANGED storeVars /\ UNCHANGED <<tickVars, jobVars, active, finished>>
  BY DEF MemorySteps, AskRefresh, RetryHeld, HoldExpires, Stop, Restart, memVars
<1>2. TypeOK' /\ StoreInv'
  BY <1>1, MemoryType, SameStoreInv DEF IndInv
<1>3. OneRefreshPerFeed' /\ ListOK'
  BY <1>1 DEF IndInv, OneRefreshPerFeed, Running, ListOK, Known, Current, Fresh,
              Ends, tickVars, jobVars, storeVars
<1>4. JobsOK'
  <2>1. /\ phase' = "up" => phase = "up" \/ phase = "down"
        /\ phase' = "down" => phase = "down"
    BY DEF MemorySteps, AskRefresh, RetryHeld, HoldExpires, Stop, Restart, lifeVars
  <2>2. pc' = pc /\ feed' = feed /\ snap' = snap /\ used' = used
        /\ outcome' = outcome
    BY <1>1 DEF jobVars
  <2>3. ASSUME NEW w \in Workers
        PROVE  IF Unanswered(w)' THEN JobOK(w)' ELSE outcome'[w].result = "none"
    <3>1. CASE phase = "down"
      BY <2>2, <3>1 DEF IndInv, JobsOK, Unanswered
    <3>2. CASE phase # "down"
      <4>1. /\ Unanswered(w)' <=> Unanswered(w)
            /\ JobOK(w) => JobOK(w)'
        BY <1>1, <2>1, <2>2, <3>2, SameJob
      <4> QED
        BY <2>2, <4>1 DEF IndInv, JobsOK
    <3> QED
      BY <3>1, <3>2
  <2> QED
    BY <2>1, <2>2, <2>3 DEF JobsOK, IndInv
<1>5. RefusedHeld' /\ RefusedNotRefetched'
  <2>1. pc' = pc /\ feed' = feed
    BY <1>1 DEF jobVars
  <2>2. \A f \in refused' : f \in refused /\ (IsHeld(f) => held'[f].waiting)
    BY DEF MemorySteps, AskRefresh, RetryHeld, HoldExpires, Stop, Restart,
           memVars, Lifted, IsHeld, IndInv, TypeOK
  <2> QED
    BY <2>1, <2>2 DEF IndInv, RefusedHeld, RefusedNotRefetched, IsHeld, Unanswered
<1> QED
  BY <1>2, <1>3, <1>4, <1>5 DEF IndInv

LEMMA GoneInv == IndInv /\ Gone => IndInv'
<1> SUFFICES ASSUME IndInv, Gone PROVE IndInv'
  OBVIOUS
<1>1. TypeOK' /\ StoreInv'
  BY GoneType, SameStoreInv DEF IndInv, Gone
<1>2. OneRefreshPerFeed' /\ ListOK'
  BY DEF Gone, OneRefreshPerFeed, Running, ListOK
<1>3. JobsOK'
  BY DEF Gone, JobsOK, Unanswered, NoOutcome, Outcome
<1>4. RefusedHeld' /\ RefusedNotRefetched'
  BY DEF Gone, RefusedHeld, RefusedNotRefetched
<1> QED
  BY <1>1, <1>2, <1>3, <1>4 DEF IndInv

\* The tick's own steps leave every goroutine as it is ...
LEMMA TickQuietInv ==
  IndInv /\ (ReadFeeds \/ AttachAndForget \/ EndTick \/ \E f \in Feeds : SkipFeed(f))
    => IndInv'
<1> SUFFICES ASSUME IndInv,
                    ReadFeeds \/ AttachAndForget \/ EndTick
                      \/ \E f \in Feeds : SkipFeed(f)
             PROVE  IndInv'
  OBVIOUS
<1>1. /\ UNCHANGED storeVars
      /\ UNCHANGED <<pc, feed, snap, used, outcome, active, phase>>
  BY DEF ReadFeeds, AttachAndForget, EndTick, SkipFeed, jobVars, lifeVars
<1>2. TypeOK' /\ StoreInv'
  BY <1>1, TickType, SameStoreInv DEF IndInv, Tick
<1>3. OneRefreshPerFeed'
  BY <1>1 DEF IndInv, OneRefreshPerFeed, Running
<1>4. JobsOK'
  <2>1. \A w \in Workers : /\ Unanswered(w)' <=> Unanswered(w)
                           /\ JobOK(w) => JobOK(w)'
    BY <1>1, SameJob
  <2> QED
    BY <1>1, <2>1 DEF IndInv, JobsOK
<1>5. RefusedHeld' /\ RefusedNotRefetched'
  <2>1. \A f \in refused' : f \in refused /\ (IsHeld(f) => held'[f].waiting)
    BY DEF ReadFeeds, AttachAndForget, ForgetHolds, EndTick, SkipFeed, IsHeld,
           IndInv, TypeOK
  <2> QED
    BY <1>1, <2>1 DEF IndInv, RefusedHeld, RefusedNotRefetched, IsHeld, Unanswered
<1>6. ListOK'
  <2>1. CASE ReadFeeds
    <3> SUFFICES ASSUME NEW f \in todo'
                 PROVE  /\ Known(f, list[f])'
                        /\ list'[f].recipe = row'[f].recipe
                        /\ Fresh(f, list[f])'
                        /\ tickPc' # "dispatch"
      BY <2>1 DEF ReadFeeds, ListOK
    <3>1. f \in Feeds /\ feedState[f] = "live" /\ list'[f] = See(row[f])
      BY <2>1 DEF ReadFeeds, LiveFeeds
    <3>2. row[f].version \in Nat
      BY <3>1 DEF IndInv, TypeOK, StoreTypeOK, Row
    <3> QED
      BY <1>1, <2>1, <3>1, <3>2 DEF ReadFeeds, See, Known, Fresh, storeVars
  <2>2. CASE AttachAndForget
    <3> SUFFICES ASSUME NEW f \in todo'
                 PROVE  /\ Known(f, list[f])'
                        /\ Current(f, list[f])' =>
                             /\ list'[f].recipe = row'[f].recipe
                             /\ list'[f].links = row'[f].links
                             /\ finished'[f] # "since" /\ ~Ends(f)'
                                  => Fresh(f, list[f])'
      BY DEF ListOK
    <3>1. f \in todo /\ f \in Feeds
      BY <2>2 DEF AttachAndForget, IndInv, TypeOK
    <3>2. list'[f] = [list[f] EXCEPT !.links = row[f].links]
      BY <2>2, <3>1 DEF AttachAndForget
    <3>3. /\ list'[f].version = list[f].version
          /\ list'[f].failures = list[f].failures
          /\ list'[f].success = list[f].success
          /\ list'[f].etag = list[f].etag
          /\ list'[f].recipe = list[f].recipe
          /\ list'[f].links = row[f].links
      BY <3>1, <3>2 DEF IndInv, TypeOK, Seen
    <3>4. finished'[f] # "since" => finished[f] # "since"
      BY <2>2, <3>1 DEF AttachAndForget, ForgetFinished
    <3>5. Ends(f)' <=> Ends(f)
      BY <1>1 DEF Ends
    <3> QED
      BY <1>1, <3>1, <3>3, <3>4, <3>5
         DEF IndInv, ListOK, Known, Current, Fresh, storeVars
  <2>3. CASE EndTick
    BY <2>3 DEF EndTick, ListOK
  <2>4. ASSUME NEW g \in Feeds, SkipFeed(g)
        PROVE  ListOK'
    <3>1. \A f \in todo' : f \in todo /\ list'[f] = list[f]
      BY <2>4 DEF SkipFeed, Pass, IndInv, TypeOK
    <3>2. tickPc' = tickPc /\ finished' = finished
      BY <2>4 DEF SkipFeed, Pass
    <3> QED
      BY <1>1, <3>1, <3>2
         DEF IndInv, ListOK, Known, Current, Fresh, Ends, storeVars
  <2> QED
    BY <2>1, <2>2, <2>3, <2>4
<1> QED
  BY <1>2, <1>3, <1>4, <1>5, <1>6 DEF IndInv

\* ... and a goroutine starts with what the list says, which is fresh: no
\* refresh of the feed is running, and none has ended since the list was read.
LEMMA StartRefreshInv ==
  ASSUME IndInv, NEW f \in Feeds, NEW w \in Workers, StartRefresh(f, w)
  PROVE  IndInv'
<1>1. /\ UNCHANGED storeVars
      /\ UNCHANGED <<used, outcome, finished, held, phase, refused>>
  BY DEF StartRefresh, lifeVars
<1>2. /\ tickPc = "dispatch" /\ tickPc' = tickPc /\ f \in todo
      /\ todo' = todo \ {f} /\ list' = [list EXCEPT ![f] = Unseen]
      /\ phase = "up" /\ ~IsHeld(f) /\ f \notin active /\ finished[f] # "since"
      /\ pc[w] = "idle"
      /\ active' = active \union {f}
      /\ pc' = [pc EXCEPT ![w] = "begin"]
      /\ feed' = [feed EXCEPT ![w] = f]
      /\ snap' = [snap EXCEPT ![w] = list[f]]
  BY DEF StartRefresh, Pass, Startable, CanReserve
<1>3. TypeOK' /\ StoreInv'
  BY <1>1, TickType, SameStoreInv DEF IndInv, Tick
<1>4. /\ pc'[w] = "begin" /\ feed'[w] = f /\ snap'[w] = list[f]
      /\ \A v \in Workers \ {w} :
           pc'[v] = pc[v] /\ feed'[v] = feed[v] /\ snap'[v] = snap[v]
  BY <1>2 DEF IndInv, TypeOK
<1>5. \A v \in Workers : feed[v] = f => pc[v] = "idle"
  BY <1>2 DEF IndInv, OneRefreshPerFeed, Running
<1>6. OneRefreshPerFeed'
  <2>1. active' = {feed'[v] : v \in {u \in Workers : pc'[u] # "idle"}}
    BY <1>2, <1>4 DEF IndInv, OneRefreshPerFeed, Running
  <2>2. \A u, v \in Workers :
          pc'[u] # "idle" /\ pc'[v] # "idle" /\ feed'[u] = feed'[v] => u = v
    BY <1>4, <1>5 DEF IndInv, OneRefreshPerFeed, Running
  <2> QED
    BY <2>1, <2>2 DEF OneRefreshPerFeed, Running
<1>7. JobsOK'
  <2>1. JobOK(w)'
    <3>1. ~Ends(f)
      BY <1>5 DEF Ends, Answers
    <3>2. /\ Known(f, list[f])
          /\ Current(f, list[f]) => /\ Fresh(f, list[f])
                                    /\ list[f].recipe = row[f].recipe
                                    /\ list[f].links = row[f].links
      BY <1>2, <3>1 DEF IndInv, ListOK
    <3>3. outcome'[w].result = "none"
      BY <1>1, <1>2 DEF IndInv, JobsOK, Unanswered
    <3> QED
      BY <1>1, <1>4, <3>2, <3>3 DEF JobOK, Known, Current, Fresh, storeVars
  <2>2. \A v \in Workers \ {w} : /\ Unanswered(v)' <=> Unanswered(v)
                                 /\ JobOK(v) => JobOK(v)'
    BY <1>1, <1>4, SameJob
  <2>3. Unanswered(w)'
    BY <1>4 DEF Unanswered
  <2>4. \A v \in Workers \ {w} :
          IF Unanswered(v)' THEN JobOK(v)' ELSE outcome'[v].result = "none"
    BY <1>1, <2>2 DEF IndInv, JobsOK
  <2> QED
    BY <1>1, <1>2, <2>1, <2>3, <2>4 DEF JobsOK
<1>8. ListOK'
  <2>1. \A g \in todo' : g \in todo /\ g # f /\ list'[g] = list[g]
    BY <1>2 DEF IndInv, TypeOK
  <2>2. \A g \in Feeds \ {f} : Ends(g)' <=> Ends(g)
    BY <1>2, <1>4 DEF Ends, Answers
  <2> QED
    BY <1>1, <1>2, <2>1, <2>2
       DEF IndInv, TypeOK, ListOK, Known, Current, Fresh, storeVars
<1>9. RefusedHeld' /\ RefusedNotRefetched'
  <2>1. f \notin refused
    BY <1>2, <1>5 DEF IndInv, RefusedHeld
  <2> QED
    BY <1>1, <1>2, <1>4, <2>1
       DEF IndInv, RefusedHeld, RefusedNotRefetched, IsHeld, Unanswered
<1> QED
  BY <1>3, <1>6, <1>7, <1>8, <1>9 DEF IndInv

----------------------------------------------------------------------------
(* The steps of a refresh. *)

\* A step of one goroutine leaves the others as they are.
OtherJobsSame(w) ==
  \A v \in Workers \ {w} :
    UNCHANGED <<pc[v], feed[v], snap[v], used[v], outcome[v]>>

LEMMA QuietJobFrame ==
  ASSUME IndInv, NEW w \in Workers, QuietJob(w)
  PROVE  /\ UNCHANGED storeVars /\ UNCHANGED tickVars /\ phase' = phase
         /\ phase # "down" /\ pc[w] # "idle"
         /\ OtherJobsSame(w)
         /\ pc'[w] # "idle" => feed'[w] = feed[w] /\ active' = active
         /\ pc'[w] = "idle" => active' = active \ {feed[w]}
         /\ Unanswered(w)' => Unanswered(w)
<1>1. /\ UNCHANGED storeVars /\ UNCHANGED tickVars /\ phase' = phase
      /\ phase # "down" /\ pc[w] # "idle"
  BY DEF QuietJob, ReadRules, RulesFailed, Extract, JudgeKeeps, JudgeDiscards,
         SaveDiscarded, Settle, RecordEnd, ReleaseSlot, At, Answers, lifeVars
<1>2. OtherJobsSame(w)
  BY DEF QuietJob, ReadRules, RulesFailed, Extract, JudgeKeeps, JudgeDiscards,
         SaveDiscarded, Settle, RecordEnd, ReleaseSlot, GoTo, Forget,
         OtherJobsSame, IndInv, TypeOK
<1>3. /\ pc'[w] # "idle" => feed'[w] = feed[w] /\ active' = active
      /\ pc'[w] = "idle" => active' = active \ {feed[w]}
      /\ Unanswered(w)' => Unanswered(w)
  BY DEF QuietJob, ReadRules, RulesFailed, Extract, JudgeKeeps, JudgeDiscards,
         SaveDiscarded, Settle, RecordEnd, ReleaseSlot, GoTo, At, Answers,
         Unanswered, IndInv, TypeOK
<1> QED
  BY <1>1, <1>2, <1>3

\* What the goroutine itself knows after its step.
LEMMA QuietJobOK ==
  ASSUME IndInv, NEW w \in Workers, QuietJob(w)
  PROVE  IF Unanswered(w)' THEN JobOK(w)' ELSE outcome'[w].result = "none"
<1>1. UNCHANGED storeVars /\ phase' = phase
  BY QuietJobFrame
<1>2. ASSUME Unanswered(w)
      PROVE  JobOK(w)
  BY <1>2 DEF IndInv, JobsOK
<1>3. Effective(feed[w])' = Merged(row[feed'[w]].recipe, row[feed'[w]].links)
  BY <1>1 DEF Effective, Merged, storeVars
<1>4. CASE ReadRules(w)
  <2>1. /\ pc[w] = "begin" /\ pc'[w] = "extract"
        /\ feed'[w] = feed[w] /\ snap'[w] = snap[w] /\ outcome'[w] = outcome[w]
        /\ used'[w] = Merged(snap[w].recipe, snap[w].links)
    BY <1>4 DEF ReadRules, At, GoTo, IndInv, TypeOK
  <2>2. Unanswered(w)
    BY <2>1 DEF Unanswered
  <2> QED
    BY <1>1, <1>2, <1>3, <2>1, <2>2
       DEF JobOK, Known, Current, Fresh, Unanswered, storeVars
<1>5. ASSUME NEW result \in Results, NEW e, Unanswered(w),
             pc[w] = "begin" => result \notin {"ok", "notmod"},
             pc[w] \in {"begin", "extract"},
             result # "none", result = "cut" => phase # "up",
             result = "notmod" => e = snap[w].etag,
             pc'[w] = "judge", outcome'[w] = Outcome(result, e),
             feed'[w] = feed[w] /\ snap'[w] = snap[w] /\ used'[w] = used[w]
      PROVE  Unanswered(w)' /\ JobOK(w)'
  <2>1. outcome'[w].result = result /\ outcome'[w].etag = e
    BY <1>5 DEF Outcome
  <2>2. Unanswered(w)'
    BY <1>5 DEF Unanswered
  <2>3. Effective(feed[w])' = Effective(feed[w])
    BY <1>1, <1>5 DEF Effective, Merged, storeVars
  <2> QED
    BY <1>1, <1>2, <1>5, <2>1, <2>2, <2>3
       DEF JobOK, Known, Current, Fresh, storeVars
<1>6. ASSUME NEW result \in Results, RulesFailed(w, result)
      PROVE  Unanswered(w)' /\ JobOK(w)'
  <2> DEFINE noEtag == FALSE
  <2>1. /\ pc[w] = "begin" /\ pc'[w] = "judge" /\ result \in {"fail", "cut"}
        /\ outcome'[w] = Outcome(result, noEtag)
        /\ feed'[w] = feed[w] /\ snap'[w] = snap[w] /\ used'[w] = used[w]
        /\ result = "cut" => phase # "up"
    BY <1>6 DEF RulesFailed, At, GoTo, Possible, IndInv, TypeOK
  <2> HIDE DEF noEtag
  <2> QED
    BY <1>5, <2>1 DEF Unanswered
<1>7. ASSUME NEW answer \in Results \ {"none"}, NEW e \in BOOLEAN,
             Extract(w, answer, e)
      PROVE  Unanswered(w)' /\ JobOK(w)'
  <2> DEFINE result == Understood(w, answer)
             etag == IF result = "ok" THEN e ELSE snap[w].etag
  <2>1. /\ pc[w] = "extract" /\ pc'[w] = "judge"
        /\ outcome'[w] = Outcome(result, etag)
        /\ feed'[w] = feed[w] /\ snap'[w] = snap[w] /\ used'[w] = used[w]
        /\ result = "cut" => phase # "up"
    BY <1>7 DEF Extract, At, GoTo, Possible, IndInv, TypeOK
  <2>2. /\ result \in Results /\ result # "none"
        /\ result = "notmod" => etag = snap[w].etag
    BY DEF Understood, Results
  <2> HIDE DEF result, etag
  <2> QED
    BY <1>5, <2>1, <2>2 DEF Unanswered
<1>8. CASE JudgeKeeps(w)
  <2>1. /\ pc[w] = "judge" /\ pc'[w] = "save" /\ phase # "down"
        /\ feed'[w] = feed[w] /\ snap'[w] = snap[w] /\ outcome'[w] = outcome[w]
        /\ used'[w] = used[w]
        /\ outcome[w].result \in {"fail", "cut"} => phase = "up"
    BY <1>8 DEF JudgeKeeps, At, GoTo, Discards, IndInv, TypeOK
  <2>2. Unanswered(w)
    BY <2>1 DEF Unanswered
  <2>3. Effective(feed[w])' = Effective(feed[w])
    BY <1>1, <2>1 DEF Effective, Merged, storeVars
  <2>4. outcome[w].result \in Results
    BY DEF IndInv, TypeOK
  <2>5. outcome[w].result \in {"ok", "notmod", "fail"}
    BY <1>2, <2>1, <2>2, <2>4 DEF JobOK, Results
  <2> QED
    BY <1>1, <1>2, <2>1, <2>2, <2>3, <2>5
       DEF JobOK, Known, Current, Fresh, Unanswered, storeVars
<1>9. CASE JudgeDiscards(w) \/ SaveDiscarded(w)
  <2>1. pc'[w] \notin {"begin", "extract", "judge", "save"}
    BY <1>9 DEF JudgeDiscards, SaveDiscarded, GoTo, IndInv, TypeOK
  <2>2. outcome'[w].result = "none"
    BY <1>9 DEF JudgeDiscards, SaveDiscarded, Forget, NoOutcome, Outcome, IndInv,
                TypeOK
  <2> QED
    BY <2>1, <2>2 DEF Unanswered
<1>10. CASE Settle(w) \/ RecordEnd(w) \/ ReleaseSlot(w)
  <2>1. /\ pc'[w] \notin {"begin", "extract", "judge", "save"}
        /\ pc[w] \notin {"begin", "extract", "judge", "save"}
        /\ outcome' = outcome
    BY <1>10 DEF Settle, RecordEnd, ReleaseSlot, At, GoTo, Answers, IndInv, TypeOK
  <2>2. outcome[w].result = "none"
    BY <2>1 DEF IndInv, JobsOK, Unanswered
  <2> QED
    BY <2>1, <2>2 DEF Unanswered
<1> QED
  BY <1>4, <1>6, <1>7, <1>8, <1>9, <1>10 DEF QuietJob

\* A feed's slot is given back by the goroutine that had it.
LEMMA SlotsKept ==
  ASSUME IndInv, NEW w \in Workers, pc[w] # "idle", OtherJobsSame(w),
         pc'[w] # "idle" => feed'[w] = feed[w] /\ active' = active,
         pc'[w] = "idle" => active' = active \ {feed[w]}
  PROVE  OneRefreshPerFeed'
<1>1. /\ active = {feed[v] : v \in {u \in Workers : pc[u] # "idle"}}
      /\ \A u, v \in Workers :
           pc[u] # "idle" /\ pc[v] # "idle" /\ feed[u] = feed[v] => u = v
  BY DEF IndInv, OneRefreshPerFeed, Running
<1>2. \A v \in Workers \ {w} : pc'[v] = pc[v] /\ feed'[v] = feed[v]
  BY DEF OtherJobsSame
<1>3. active' = {feed'[v] : v \in {u \in Workers : pc'[u] # "idle"}}
  <2>1. CASE pc'[w] = "idle"
    BY <1>1, <1>2, <2>1
  <2>2. CASE pc'[w] # "idle"
    BY <1>1, <1>2, <2>2
  <2> QED
    BY <2>1, <2>2
<1>4. \A u, v \in Workers :
        pc'[u] # "idle" /\ pc'[v] # "idle" /\ feed'[u] = feed'[v] => u = v
  BY <1>1, <1>2
<1> QED
  BY <1>3, <1>4 DEF OneRefreshPerFeed, Running

\* What the list says stays good while the rows do not change and the record
\* of an end takes over from the goroutine that ended.
LEMMA ListKept ==
  ASSUME IndInv, UNCHANGED storeVars, UNCHANGED tickVars,
         \A f \in Feeds : finished'[f] # "since" /\ ~Ends(f)'
                          => finished[f] # "since" /\ ~Ends(f)
  PROVE  ListOK'
BY DEF IndInv, TypeOK, ListOK, Known, Current, Fresh, storeVars, tickVars

LEMMA QuietJobInv ==
  ASSUME IndInv, NEW w \in Workers, QuietJob(w)
  PROVE  IndInv'
<1>1. TypeOK' /\ StoreInv'
  BY QuietJobFrame, QuietJobType, SameStoreInv DEF IndInv
<1>2. OneRefreshPerFeed'
  BY QuietJobFrame, SlotsKept
<1>3. JobsOK'
  <2>1. \A v \in Workers \ {w} :
          IF Unanswered(v)' THEN JobOK(v)' ELSE outcome'[v].result = "none"
    BY QuietJobFrame, SameJob DEF IndInv, JobsOK, OtherJobsSame
  <2>2. phase' # "down"
    BY QuietJobFrame
  <2> QED
    BY <2>1, <2>2, QuietJobOK DEF JobsOK
<1>4. ListOK'
  <2>1. ASSUME NEW f \in Feeds, finished'[f] # "since", ~Ends(f)'
        PROVE  finished[f] # "since" /\ ~Ends(f)
    <3>1. CASE RecordEnd(w)
      <4>1. /\ finished' = [finished EXCEPT ![feed[w]] = "since"]
            /\ feed[w] \in Feeds /\ pc' = [pc EXCEPT ![w] = "release"]
            /\ feed' = feed
        BY <3>1 DEF RecordEnd, GoTo, IndInv, TypeOK
      <4>2. f # feed[w] /\ finished[f] # "since"
        BY <2>1, <4>1 DEF IndInv, TypeOK
      <4> QED
        BY <2>1, <4>1, <4>2 DEF Ends, IndInv, TypeOK
    <3>2. CASE ~RecordEnd(w)
      <4>1. finished' = finished
        BY <3>2 DEF QuietJob, ReadRules, RulesFailed, Extract, JudgeKeeps,
                    JudgeDiscards, SaveDiscarded, Settle, ReleaseSlot
      <4>2. pc[w] \in Answers \union {"finish"}
              => pc'[w] \in Answers \union {"finish"} /\ feed'[w] = feed[w]
        BY <3>2 DEF QuietJob, ReadRules, RulesFailed, Extract, JudgeKeeps,
                    JudgeDiscards, SaveDiscarded, Settle, ReleaseSlot, At, GoTo,
                    Answers, IndInv, TypeOK
      <4>3. \A v \in Workers \ {w} : pc'[v] = pc[v] /\ feed'[v] = feed[v]
        BY QuietJobFrame DEF OtherJobsSame
      <4> QED
        BY <2>1, <4>1, <4>2, <4>3 DEF Ends
    <3> QED
      BY <3>1, <3>2
  <2> QED
    BY <2>1, QuietJobFrame, ListKept
<1>5. RefusedHeld' /\ RefusedNotRefetched'
  <2>1. \A v \in Workers \ {w} : pc'[v] = pc[v] /\ feed'[v] = feed[v]
    BY QuietJobFrame DEF OtherJobsSame
  <2>2. CASE Settle(w)
    <3>1. /\ pc[w] \in Answers /\ pc' = [pc EXCEPT ![w] = "finish"]
          /\ feed' = feed /\ held' = AfterSave(feed[w], pc[w])
          /\ refused' = IF pc[w] = "refused" THEN refused ELSE refused \ {feed[w]}
      BY <2>2 DEF Settle, GoTo
    <3>2. held \in [Feeds -> Hold] /\ feed[w] \in Feeds /\ refused \subseteq Feeds
      BY DEF IndInv, TypeOK
    <3>3. \A f \in Feeds \ {feed[w]} : held'[f].waiting = held[f].waiting
      BY <3>1, <3>2 DEF AfterSave, Lifted
    <3>4. pc[w] = "refused" => held'[feed[w]].waiting
      BY <3>1, <3>2 DEF AfterSave
    <3>5. RefusedHeld'
      BY <3>1, <3>2, <3>3, <3>4 DEF IndInv, TypeOK, RefusedHeld, IsHeld
    <3>6. RefusedNotRefetched'
      BY <3>1 DEF IndInv, TypeOK, RefusedNotRefetched, Unanswered
    <3> QED
      BY <3>5, <3>6
  <2>3. CASE ~Settle(w)
    <3>1. held' = held /\ refused' = refused
      BY <2>3 DEF QuietJob, ReadRules, RulesFailed, Extract, JudgeKeeps,
                  JudgeDiscards, SaveDiscarded, RecordEnd, ReleaseSlot
    <3>2. pc[w] # "refused"
      BY <2>3 DEF QuietJob, ReadRules, RulesFailed, Extract, JudgeKeeps,
                  JudgeDiscards, SaveDiscarded, RecordEnd, ReleaseSlot, At
    <3>3. RefusedHeld'
      BY <2>1, <3>1, <3>2 DEF IndInv, RefusedHeld, IsHeld
    <3>4. Unanswered(w)' => Unanswered(w) /\ feed'[w] = feed[w]
      BY QuietJobFrame DEF Unanswered
    <3>5. RefusedNotRefetched'
      BY <2>1, <3>1, <3>4 DEF IndInv, RefusedNotRefetched, Unanswered
    <3> QED
      BY <3>3, <3>5
  <2> QED
    BY <2>2, <2>3
<1> QED
  BY <1>1, <1>2, <1>3, <1>4, <1>5 DEF IndInv

----------------------------------------------------------------------------
(* The result of a refresh. *)

\* The row of the refreshed feed after its result is stored, and everything
\* else as it was.
LEMMA CompleteRow ==
  ASSUME IndInv, NEW w \in Workers, Unanswered(w), Complete(w),
         NEW g \in Feeds, feed[w] = g
  PROVE  /\ Current(g, snap[w])
         /\ UNCHANGED <<feedState, filterState, rules>>
         /\ row'[g] = Completed(row[g], snap[w], outcome[w].result, outcome[w].etag)
         /\ built'[g] = IF outcome[w].result = "ok" THEN used[w] ELSE built[g]
         /\ tried'[g] = row[g].version
         /\ streak'[g] = IF outcome[w].result = "fail" THEN streak[g] + 1 ELSE 0
         /\ \A f \in Feeds \ {g} :
              UNCHANGED <<row[f], built[f], tried[f], streak[f]>>
         /\ \A f \in Feeds : /\ row'[f].version = row[f].version
                             /\ row'[f].recipe = row[f].recipe
                             /\ row'[f].links = row[f].links
                             /\ Effective(f)' = Effective(f)
<1>1. /\ row \in [Feeds -> Row]
      /\ built \in [Feeds -> MergedRecipes \union {NothingBuilt}]
      /\ tried \in [Feeds -> Nat] /\ streak \in [Feeds -> Nat]
  BY DEF IndInv, TypeOK, StoreTypeOK
<1>2. CompleteFeed(g, snap[w], used[w], outcome[w].result, outcome[w].etag)
  BY DEF Complete
<1>3. /\ Current(g, snap[w])
      /\ UNCHANGED <<feedState, filterState, rules>>
      /\ row'[g] = Completed(row[g], snap[w], outcome[w].result, outcome[w].etag)
      /\ built'[g] = IF outcome[w].result = "ok" THEN used[w] ELSE built[g]
      /\ tried'[g] = row[g].version
      /\ streak'[g] = IF outcome[w].result = "fail" THEN streak[g] + 1 ELSE 0
      /\ \A f \in Feeds \ {g} :
           UNCHANGED <<row[f], built[f], tried[f], streak[f]>>
  BY <1>1, <1>2 DEF CompleteFeed, Current
<1>4. ASSUME NEW f \in Feeds
      PROVE  /\ row'[f].version = row[f].version
             /\ row'[f].recipe = row[f].recipe
             /\ row'[f].links = row[f].links
  BY <1>3 DEF Completed
<1>5. \A f \in Feeds : Effective(f)' = Effective(f)
  BY <1>3, <1>4 DEF Effective, Merged
<1> QED
  BY <1>3, <1>4, <1>5

LEMMA CompleteStoreInv ==
  ASSUME IndInv, NEW w \in Workers, pc[w] = "save", Complete(w),
         NEW g \in Feeds, feed[w] = g
  PROVE  StoreInv'
<1> DEFINE s == snap[w]  result == outcome[w].result
<1>1. Unanswered(w)
  BY DEF Unanswered, IndInv, TypeOK
<1>2. /\ Current(g, s) => /\ Fresh(g, s)
                          /\ result \in {"ok", "notmod"} => used[w] = Effective(g)
      /\ result \in {"ok", "notmod", "fail"}
      /\ result = "notmod" => outcome[w].etag = s.etag
  BY <1>1 DEF IndInv, JobsOK, JobOK
<1>3. NoDanglingLinks' /\ NoPast'
  <2>1. NoDanglingLinks'
    BY <1>1, CompleteRow DEF IndInv, StoreInv, NoDanglingLinks, LiveFeeds, LiveFilters
  <2>2. NoPast'
    BY <1>1, CompleteRow DEF IndInv, StoreInv, NoPast, Current
  <2> QED
    BY <2>1, <2>2
<1>4. \A f \in Feeds \ {g} :
        feedState'[f] = "live" =>
          /\ row'[f].failures = streak'[f]
          /\ row'[f].etag => built'[f] = Effective(f)'
          /\ tried'[f] # row'[f].version => row'[f].due
  BY <1>1, CompleteRow
     DEF IndInv, StoreInv, FailuresCountStreak, ValidatorMatchesRecipe,
         EditStaysDue, LiveFeeds
<1>5. /\ row'[g].failures = streak'[g]
      /\ row'[g].etag => built'[g] = Effective(g)'
      /\ tried'[g] = row'[g].version
  <2>1. Current(g, s) /\ Fresh(g, s) /\ feedState[g] = "live"
    BY <1>1, <1>2, CompleteRow DEF Current
  <2>2. /\ row[g].failures = streak[g]
        /\ row[g].etag => built[g] = Effective(g)
    BY <1>1, <2>1 DEF IndInv, StoreInv, FailuresCountStreak,
                      ValidatorMatchesRecipe, LiveFeeds
  <2>6. /\ row'[g] = Completed(row[g], s, result, outcome[w].etag)
        /\ built'[g] = IF result = "ok" THEN used[w] ELSE built[g]
        /\ streak'[g] = IF result = "fail" THEN streak[g] + 1 ELSE 0
    BY <1>1, CompleteRow
  <2>7. /\ row'[g].failures = IF result = "fail" THEN s.failures + 1 ELSE 0
        /\ row'[g].etag = IF result = "fail" THEN row[g].etag ELSE outcome[w].etag
    BY <2>6 DEF Completed
  <2> HIDE DEF s, result
  <2>3. row'[g].failures = streak'[g]
    BY <2>1, <2>2, <2>6, <2>7 DEF Fresh
  <2>4. row'[g].etag => built'[g] = Effective(g)
    BY <1>2, <2>1, <2>2, <2>6, <2>7 DEF Fresh
  <2>5. Effective(g)' = Effective(g)
    BY <1>1, CompleteRow
  <2> QED
    BY <1>1, <2>3, <2>4, <2>5, CompleteRow
<1> QED
  BY <1>1, <1>3, <1>4, <1>5
     DEF StoreInv, FailuresCountStreak, ValidatorMatchesRecipe, EditStaysDue,
         LiveFeeds

\* Whether the store takes the result, refuses it, or takes it and reports an
\* error all the same.
LEMMA SaveInv ==
  ASSUME IndInv, NEW w \in Workers, SaveStored(w) \/ SaveRefused(w)
  PROVE  IndInv'
<1>1. PICK g \in Feeds : feed[w] = g
  BY DEF IndInv, TypeOK
<1>2. /\ UNCHANGED storeVars \/ Complete(w)
      /\ pc[w] = "save" /\ pc'[w] \in {"stored", "refused"}
      /\ pc' = [pc EXCEPT ![w] = pc'[w]]
      /\ Forget(w) /\ phase # "down"
      /\ UNCHANGED <<tickVars, feed, active, finished, held, phase>>
  BY DEF SaveStored, SaveRefused, At, GoTo, lifeVars, IndInv, TypeOK
<1>3. /\ OtherJobsSame(w)
      /\ outcome'[w].result = "none"
  BY <1>2 DEF Forget, OtherJobsSame, NoOutcome, Outcome, IndInv, TypeOK
<1>4. Unanswered(w) /\ ~Unanswered(w)'
  BY <1>2 DEF Unanswered
<1>5. TypeOK' /\ StoreInv'
  BY <1>1, <1>2, SaveType, SameStoreInv, CompleteStoreInv DEF IndInv
<1>6. OneRefreshPerFeed'
  BY <1>2, <1>3, SlotsKept
<1>7. /\ feedState' = feedState
      /\ \A f \in Feeds : /\ row'[f].version = row[f].version
                          /\ row'[f].recipe = row[f].recipe
                          /\ row'[f].links = row[f].links
                          /\ Effective(f)' = Effective(f)
      /\ \A f \in Feeds \ {g} : row'[f] = row[f]
  <2>1. CASE UNCHANGED storeVars
    BY <2>1 DEF storeVars, Effective, Merged
  <2>2. CASE Complete(w)
    BY <1>1, <1>4, <2>2, CompleteRow
  <2> QED
    BY <1>2, <2>1, <2>2
<1>8. JobsOK'
  <2>1. ASSUME NEW v \in Workers \ {w}
        PROVE  IF Unanswered(v)' THEN JobOK(v)' ELSE outcome'[v].result = "none"
    <3>1. UNCHANGED <<pc[v], feed[v], snap[v], used[v], outcome[v]>>
      BY <1>3 DEF OtherJobsSame
    <3>2. CASE ~Unanswered(v)
      BY <3>1, <3>2 DEF Unanswered, IndInv, JobsOK
    <3>3. CASE Unanswered(v)
      <4>1. PICK f \in Feeds : feed[v] = f
        BY DEF IndInv, TypeOK
      <4>2. f # g
        BY <1>1, <1>4, <3>3, <4>1
           DEF IndInv, OneRefreshPerFeed, Running, Unanswered
      <4>3. JobOK(v)
        BY <3>3 DEF IndInv, JobsOK
      <4>4. Effective(feed[v])' = Effective(feed[v])
        <5>1. Effective(f)' = Effective(f)
          BY <1>7
        <5>2. feed'[v] = f
          BY <3>1, <4>1
        <5> QED
          BY <4>1, <5>1, <5>2 DEF Effective
      <4>5. row'[f] = row[f] /\ feedState' = feedState /\ phase' = phase
        BY <1>2, <1>7, <4>2
      <4>6. JobOK(v)'
        BY <3>1, <4>1, <4>3, <4>4, <4>5 DEF JobOK, Known, Current, Fresh
      <4> QED
        BY <3>1, <3>3, <4>6 DEF Unanswered
    <3> QED
      BY <3>2, <3>3
  <2> QED
    BY <1>2, <1>3, <1>4, <2>1 DEF JobsOK
<1>9. ListOK'
  <2>1. todo' = todo /\ list' = list /\ tickPc' = tickPc /\ finished' = finished
        /\ todo \subseteq Feeds
    BY <1>2 DEF tickVars, IndInv, TypeOK
  <2>2. Ends(g)'
    BY <1>1, <1>2 DEF Ends, Answers
  <2>3. \A f \in Feeds \ {g} : Ends(f)' <=> Ends(f)
    BY <1>1, <1>2, <1>3 DEF Ends, OtherJobsSame
  <2>4. ASSUME NEW f \in todo
        PROVE  /\ Known(f, list[f])'
               /\ Current(f, list[f])' =>
                    /\ list'[f].recipe = row'[f].recipe
                    /\ tickPc' = "dispatch" => list'[f].links = row'[f].links
                    /\ finished'[f] # "since" /\ ~Ends(f)' => Fresh(f, list[f])'
    <3>1. f \in Feeds /\ list'[f] = list[f]
      BY <2>1
    <3>2. CASE f = g
      BY <1>7, <2>1, <2>2, <3>1, <3>2 DEF IndInv, ListOK, Known, Current
    <3>3. CASE f # g
      BY <1>7, <2>1, <2>3, <3>1, <3>3 DEF IndInv, ListOK, Known, Current, Fresh
    <3> QED
      BY <3>2, <3>3
  <2> QED
    BY <2>1, <2>4 DEF ListOK
<1>10. RefusedHeld' /\ RefusedNotRefetched'
  <2>1. /\ held' = held /\ feed' = feed
        /\ \A v \in Workers \ {w} : pc'[v] = pc[v]
        /\ \/ refused' = refused \ {g}
           \/ refused' = refused \union {g} /\ pc'[w] = "refused"
    BY <1>1, <1>2, <1>3 DEF SaveStored, SaveRefused, GoTo, OtherJobsSame, IndInv,
                            TypeOK
  <2>2. RefusedHeld'
    BY <1>1, <1>2, <2>1 DEF IndInv, RefusedHeld, IsHeld
  <2>3. \A v \in Workers : Unanswered(v)' => Unanswered(v) /\ feed[v] # g
    BY <1>1, <1>4, <2>1 DEF IndInv, OneRefreshPerFeed, Running, Unanswered
  <2>4. RefusedNotRefetched'
    BY <2>1, <2>3 DEF IndInv, RefusedNotRefetched
  <2> QED
    BY <2>2, <2>4
<1> QED
  BY <1>5, <1>6, <1>8, <1>9, <1>10 DEF IndInv

----------------------------------------------------------------------------
(* The invariant and what follows from it. *)

LEMMA InitInv == Init => IndInv
<1> SUFFICES ASSUME Init PROVE IndInv
  OBVIOUS
<1>1. TypeOK
  BY InitType
<1>2. StoreInv
  BY DEF Init, StoreInit, StoreInv, NoDanglingLinks, NoPast, FailuresCountStreak,
         ValidatorMatchesRecipe, EditStaysDue, LiveFeeds
<1>3. OneRefreshPerFeed /\ ListOK
  BY DEF Init, MemInit, OneRefreshPerFeed, Running, ListOK
<1>4. JobsOK
  BY DEF Init, MemInit, JobsOK, Unanswered, NoOutcome, Outcome
<1>5. RefusedHeld /\ RefusedNotRefetched
  BY DEF Init, RefusedHeld, RefusedNotRefetched
<1> QED
  BY <1>1, <1>2, <1>3, <1>4, <1>5 DEF IndInv

LEMMA StutterInv == IndInv /\ UNCHANGED vars => IndInv'
<1> SUFFICES ASSUME IndInv, UNCHANGED vars PROVE IndInv'
  OBVIOUS
<1>1. /\ UNCHANGED storeVars /\ UNCHANGED tickVars
      /\ UNCHANGED <<pc, feed, snap, used, outcome, active, finished, held,
                     phase, restarts, refused, queueing, retrying>>
  BY DEF vars, memVars, jobVars, webVars, lifeVars
<1>2. TypeOK'
  BY <1>1, StoreSame DEF IndInv, TypeOK, tickVars
<1>3. StoreInv'
  BY <1>1, SameStoreInv DEF IndInv
<1>4. ListOK'
  BY <1>1, ListKept DEF Ends
<1>5. JobsOK'
  <2>1. \A w \in Workers : /\ Unanswered(w)' <=> Unanswered(w)
                           /\ JobOK(w) => JobOK(w)'
    BY <1>1, SameJob
  <2> QED
    BY <1>1, <2>1 DEF IndInv, JobsOK
<1>6. OneRefreshPerFeed' /\ RefusedHeld' /\ RefusedNotRefetched'
  BY <1>1 DEF IndInv, OneRefreshPerFeed, Running, RefusedHeld,
              RefusedNotRefetched, IsHeld, Unanswered
<1> QED
  BY <1>2, <1>3, <1>4, <1>5, <1>6 DEF IndInv

\* Every step of the program keeps the invariant.
LEMMA NextInv == IndInv /\ [Next]_vars => IndInv'
<1> SUFFICES ASSUME IndInv, [Next]_vars PROVE IndInv'
  OBVIOUS
<1>1. CASE Tick
  BY <1>1, TickQuietInv, StartRefreshInv DEF Tick
<1>2. CASE Next /\ ~Tick
  BY <1>2, StepKinds, EditStepsInv, MemoryInv, GoneInv, QuietJobInv, SaveInv
<1>3. CASE UNCHANGED vars
  BY <1>3, StutterInv
<1> QED
  BY <1>1, <1>2, <1>3

\* The inductive invariant holds throughout.
THEOREM Inductive == Spec => []IndInv
BY InitInv, NextInv, PTL DEF Spec

\* The database never holds a link to a missing filter, a wrong failure count,
\* a validator of another recipe, or an edited feed that is not due
\* (CompleteWithDiagnostics, SaveWithOptions, SaveFilter, DeleteFilter).
THEOREM StoreSafe ==
  Spec => [](/\ NoDanglingLinks /\ FailuresCountStreak
             /\ ValidatorMatchesRecipe /\ EditStaysDue)
<1>1. IndInv => /\ NoDanglingLinks /\ FailuresCountStreak
                /\ ValidatorMatchesRecipe /\ EditStaysDue
  BY DEF IndInv, StoreInv
<1> QED
  BY <1>1, Inductive, PTL

\* An edited feed stays due until a refresh with its new version is stored
\* (SaveWithOptions, SaveFilter, CompleteWithDiagnostics).
THEOREM EditDue == Spec => []EditStaysDue
BY StoreSafe, PTL

\* The stored failure count is that of the streak, although it is computed from
\* the row the tick read (CompleteWithDiagnostics).
THEOREM StreakCounted == Spec => []FailuresCountStreak
BY StoreSafe, PTL

\* No feed is refreshed twice at once (reserve, release).
THEOREM OneRefresh == Spec => []OneRefreshPerFeed
<1>1. IndInv => OneRefreshPerFeed
  BY DEF IndInv
<1> QED
  BY <1>1, Inductive, PTL

\* A refresh always works from what the database holds for its version, up to
\* the moment its own result is stored (Scheduler.finished).
THEOREM FreshSnapshots == Spec => []SnapshotFresh
<1>1. IndInv => SnapshotFresh
  BY DEF IndInv, JobsOK, JobOK, Fresh, SnapshotFresh
<1> QED
  BY <1>1, Inductive, PTL

\* A result the store would accept was produced under the rules in force now
\* (EffectiveRecipe, CompleteWithDiagnostics).
THEOREM ResultsInForce == Spec => []ResultInForce
<1>1. IndInv => ResultInForce
  BY DEF IndInv, JobsOK, JobOK, Unanswered, ResultInForce
<1> QED
  BY <1>1, Inductive, PTL

\* A failure that a shutdown caused never reaches the store (refresh).
THEOREM ShutdownKept == Spec => []ShutdownNotStored
<1>1. IndInv => ShutdownNotStored
  BY DEF IndInv, JobsOK, JobOK, Unanswered, ShutdownNotStored
<1> QED
  BY <1>1, Inductive, PTL

\* A source whose result the database refused is left alone while the hold
\* waits (hold, Held).
THEOREM HeldNotFetched == Spec => []RefusedNotRefetched
<1>1. IndInv => RefusedNotRefetched
  BY DEF IndInv
<1> QED
  BY <1>1, Inductive, PTL
=============================================================================
