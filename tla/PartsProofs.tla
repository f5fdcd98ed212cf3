---------------------------- MODULE PartsProofs ----------------------------
(***************************************************************************)
(* The smaller parts of the program, and all of them in the composition    *)
(* that the run of MCParts checks.                                         *)
(*                                                                         *)
(* The Chromium pool: no render is cut off by the replacement of its       *)
(* browser.  What replaces an idle browser goes by the count of renders,   *)
(* and the count is that of the renders there are.                         *)
(*                                                                         *)
(* Quiet feeds: a feed is marked for a reason.  What carries it is that a  *)
(* feed whose latest refresh succeeded with a new story is due an          *)
(* interval, and the jitter, after that story.                             *)
(*                                                                         *)
(* The composition: a behaviour of MCParts is one of every part, so what   *)
(* is proved of a part holds in it.                                        *)
(***************************************************************************)
EXTENDS MCParts, StoreProofs, FiniteSetTheorems, TLAPS

AlertingFacts == INSTANCE AlertsProofs WITH Feeds <- AlertFeeds, job <- task
ArticlesFacts == INSTANCE BacklogProofs WITH job <- round

----------------------------------------------------------------------------
(* The Chromium pool. *)

RendersOK ==
  /\ DOMAIN render = Renders
  /\ \A r \in Renders : DOMAIN render[r] = {"pc", "on"}

\* The pool's browser is the one that runs.
OneBrowser ==
  /\ root \in Nat /\ started \in Nat
  /\ browsers = {root} \ {NoBrowser}
  /\ closed => root = NoBrowser

Answered == \A r \in Rendering : closed \/ render[r].on \in lost \union browsers

PoolInv ==
  RendersOK /\ OneBrowser /\ Answered /\ active = Cardinality(Rendering)

LEMMA FiniteRenders ==
  ASSUME PoolAssumption
  PROVE  /\ IsFiniteSet(Rendering) /\ Cardinality(Rendering) \in Nat
         /\ Cardinality(Rendering) = 0 <=> Rendering = {}
<1>1. Rendering \subseteq Renders
  BY DEF Rendering, At
<1>2. IsFiniteSet(Rendering)
  BY <1>1, FS_Subset DEF PoolAssumption
<1> QED
  BY <1>2, FS_CardinalityType, FS_EmptySet

\* A browser is stopped when every render on it has lost it or there is none.
LEMMA ReplacedUnused ==
  ASSUME PoolAssumption, PoolInv, ~closed, ~Usable
  PROVE  \A r \in Rendering : render[r].on \in lost
<1>1. CASE root = NoBrowser \/ root \in lost
  BY <1>1 DEF PoolInv, OneBrowser, Answered
<1>2. CASE ~KeepsBrowser
  BY <1>2, FiniteRenders DEF PoolInv, KeepsBrowser
<1> QED
  BY <1>1, <1>2 DEF Usable

\* Steps of a caller that is not rendering, and stays so.
LEMMA OutsideInv ==
  ASSUME PoolAssumption, PoolInv, NEW r \in Renders,
         Call(r) \/ TakeSlot(r) \/ GiveUp(r) \/ RefuseClosed(r)
  PROVE  PoolInv'
<1>1. render[r].pc # "rendering"
  BY DEF Call, TakeSlot, GiveUp, RefuseClosed
<1>2. /\ DOMAIN render' = Renders
      /\ \A q \in Renders \ {r} : render'[q] = render[q]
      /\ DOMAIN render'[r] = {"pc", "on"} /\ render'[r].pc # "rendering"
  BY DEF Call, TakeSlot, GiveUp, RefuseClosed, PoolInv, RendersOK, Away
<1>3. Rendering' = Rendering /\ RendersOK'
  BY <1>1, <1>2 DEF Rendering, At, PoolInv, RendersOK
<1>4. UNCHANGED <<root, started, browsers, lost, active, completed, closed>>
  BY DEF Call, TakeSlot, GiveUp, RefuseClosed
<1>5. Answered'
  BY <1>1, <1>2, <1>3, <1>4 DEF PoolInv, Answered, Rendering, At
<1> QED
  BY <1>3, <1>4, <1>5 DEF PoolInv, OneBrowser

\* A render begins, on the pool's browser or a new one.
LEMMA BeginInv ==
  ASSUME PoolAssumption, PoolInv, NEW r \in Renders, Reuse(r) \/ StartNew(r)
  PROVE  PoolInv'
<1>1. /\ render[r].pc = "slot" /\ ~closed /\ ~closed' /\ lost' = lost
      /\ render' = [render EXCEPT ![r] = [pc |-> "rendering", on |-> root']]
      /\ active' = active + 1
  BY DEF Reuse, StartNew, Begins
<1>2. /\ DOMAIN render' = Renders
      /\ \A q \in Renders \ {r} : render'[q] = render[q]
      /\ render'[r] = [pc |-> "rendering", on |-> root']
  BY <1>1 DEF PoolInv, RendersOK
<1>3. Rendering' = Rendering \union {r} /\ r \notin Rendering
  BY <1>1, <1>2 DEF Rendering, At
<1>4. active' = Cardinality(Rendering')
  BY <1>1, <1>3, FiniteRenders, FS_AddElement DEF PoolInv
<1>5. RendersOK'
  BY <1>2 DEF PoolInv, RendersOK
<1>6. OneBrowser' /\ root' # NoBrowser
  BY DEF PoolInv, OneBrowser, Reuse, StartNew, Usable, LeftRunning, NoBrowser
<1>7. \A q \in Rendering : render[q].on \in lost \union browsers'
  <2>1. CASE Reuse(r)
    BY <2>1, <1>1 DEF Reuse, PoolInv, Answered
  <2>2. CASE StartNew(r)
    BY <2>2, ReplacedUnused DEF StartNew
  <2> QED
    BY <2>1, <2>2
<1>8. Answered'
  BY <1>1, <1>2, <1>3, <1>6, <1>7 DEF Answered, OneBrowser, Rendering, At
<1> QED
  BY <1>4, <1>5, <1>6, <1>8 DEF PoolInv

\* A start that fails leaves no browser.
LEMMA StartFailsInv ==
  ASSUME PoolAssumption, PoolInv, NEW r \in Renders, StartFails(r)
  PROVE  PoolInv'
<1>1. /\ DOMAIN render' = Renders
      /\ \A q \in Renders \ {r} : render'[q] = render[q]
      /\ render[r].pc # "rendering" /\ render'[r] = Away
  BY DEF StartFails, PoolInv, RendersOK
<1>2. Rendering' = Rendering /\ RendersOK'
  BY <1>1 DEF Rendering, At, PoolInv, RendersOK, Away
<1>3. OneBrowser'
  BY DEF StartFails, PoolInv, OneBrowser, LeftRunning, NoBrowser
<1>4. \A q \in Rendering : render[q].on \in lost
  BY ReplacedUnused DEF StartFails
<1>5. Answered'
  BY <1>1, <1>2, <1>4 DEF Answered, Rendering, At, StartFails
<1> QED
  BY <1>2, <1>3, <1>5 DEF PoolInv, StartFails

LEMMA EndInv ==
  ASSUME PoolAssumption, PoolInv, NEW r \in Renders, End(r)
  PROVE  PoolInv'
<1>1. /\ DOMAIN render' = Renders
      /\ \A q \in Renders \ {r} : render'[q] = render[q]
      /\ render[r].pc = "rendering" /\ render'[r] = Away
  BY DEF End, PoolInv, RendersOK
<1>2. Rendering' = Rendering \ {r} /\ r \in Rendering /\ RendersOK'
  BY <1>1 DEF Rendering, At, PoolInv, RendersOK, Away
<1>3. active' = Cardinality(Rendering')
  BY <1>2, FiniteRenders, FS_RemoveElement DEF PoolInv, End
<1>4. Answered' /\ OneBrowser'
  BY <1>1, <1>2 DEF PoolInv, Answered, OneBrowser, Rendering, At, End
<1> QED
  BY <1>2, <1>3, <1>4 DEF PoolInv

\* A lost connection and Close leave the renders where they are.
LEMMA BrowserInv ==
  ASSUME PoolInv, Close \/ \E b \in browsers : LoseConnection(b)
  PROVE  PoolInv'
<1>1. render' = render /\ Rendering' = Rendering /\ active' = active
  BY DEF Close, LoseConnection, Rendering, At
<1>2. OneBrowser'
  BY DEF PoolInv, OneBrowser, Close, LoseConnection, LeftRunning, NoBrowser
<1>3. Answered'
  BY <1>1 DEF PoolInv, Answered, Close, LoseConnection
<1> QED
  BY <1>1, <1>2, <1>3 DEF PoolInv, RendersOK

LEMMA InitPoolInv ==
  ASSUME PoolAssumption, PoolInit
  PROVE  PoolInv
<1>1. Rendering = {}
  BY DEF PoolInit, Rendering, At, Away
<1> QED
  BY <1>1, FS_EmptySet DEF PoolInit, PoolInv, RendersOK, OneBrowser, Answered,
                           Away, NoBrowser

LEMMA NextPoolInv ==
  ASSUME PoolAssumption, PoolInv, [PoolNext]_poolVars
  PROVE  PoolInv'
<1>1. CASE UNCHANGED poolVars
  BY <1>1 DEF poolVars, PoolInv, RendersOK, OneBrowser, Answered, Rendering, At
<1> QED
  BY <1>1, OutsideInv, BeginInv, StartFailsInv, EndInv, BrowserInv DEF PoolNext

\* A render keeps its browser until it ends, its connection is lost or the pool
\* is closed, and no browser is left behind (startLocked, Render, Close).
THEOREM RendersKept == PoolAssumption => (PoolSpec => []NoRenderCut)
<1> SUFFICES ASSUME PoolAssumption PROVE PoolSpec => []NoRenderCut
  OBVIOUS
<1>1. PoolInit => PoolInv
  BY InitPoolInv
<1>2. PoolInv /\ [PoolNext]_poolVars => PoolInv'
  BY NextPoolInv
<1>3. PoolInv => NoRenderCut
  BY DEF PoolInv, OneBrowser, Answered, NoRenderCut, NoBrowser
<1> QED
  BY <1>1, <1>2, <1>3, PTL DEF PoolSpec

\* The callers that have a slot.
Slotted == At("slot") \union Rendering

PoolTyped ==
  /\ render \in [Renders -> [pc : {"away", "waiting", "slot", "rendering"},
                             on : 0 .. MaxBrowsers]]
  /\ Cardinality(Slotted) <= Slots
  /\ started \in 0 .. MaxBrowsers /\ root \in 0 .. started
  /\ lost \subseteq 1 .. started
  /\ completed \in 0 .. Served /\ closed \in BOOLEAN

LEMMA PoolTypedInit ==
  ASSUME PoolAssumption, PoolInit
  PROVE  PoolTyped
<1>1. Slotted = {}
  BY DEF Slotted, Rendering, At, PoolInit, Away
<1>2. closed \in BOOLEAN
  BY Zenon DEF PoolInit
<1> QED
  BY <1>1, <1>2, FS_EmptySet DEF PoolAssumption, PoolInit, PoolTyped, Away, NoBrowser

\* Whoever has a slot or gets one, there are as many.
LEMMA SlotsBound ==
  ASSUME PoolAssumption, PoolTyped, NEW r \in Renders,
         NEW pc \in {"away", "waiting", "slot", "rendering"},
         NEW on \in 0 .. MaxBrowsers,
         render' = [render EXCEPT ![r] = [pc |-> pc, on |-> on]],
         \/ pc \in {"away", "waiting"} \/ render[r].pc = "slot"
         \/ Cardinality(Slotted) < Slots
  PROVE  /\ render' \in [Renders -> [pc : {"away", "waiting", "slot", "rendering"},
                                     on : 0 .. MaxBrowsers]]
         /\ Cardinality(Slotted') <= Slots
<1>1. /\ IsFiniteSet(Slotted) /\ Slotted \subseteq Renders
      /\ Cardinality(Slotted) \in Nat
  <2>1. Slotted \subseteq Renders
    BY DEF Slotted, Rendering, At
  <2> QED
    BY <2>1, FS_Subset, FS_CardinalityType DEF PoolAssumption
<1>2. /\ render' \in [Renders -> [pc : {"away", "waiting", "slot", "rendering"},
                                  on : 0 .. MaxBrowsers]]
      /\ render'[r].pc = pc
      /\ \A q \in Renders \ {r} : render'[q] = render[q]
  BY DEF PoolTyped
<1>3. Slotted' = IF pc \in {"away", "waiting"} THEN Slotted \ {r}
                 ELSE Slotted \union {r}
  BY <1>1, <1>2 DEF Slotted, Rendering, At
<1>4. /\ Cardinality(Slotted \ {r}) <= Cardinality(Slotted)
      /\ Cardinality(Slotted \ {r}) \in Nat
      /\ Cardinality(Slotted \union {r}) \in Nat
      /\ Cardinality(Slotted \union {r}) <= Cardinality(Slotted) + 1
      /\ r \in Slotted => Slotted \union {r} = Slotted
  <2>1. /\ IsFiniteSet(Slotted \ {r}) /\ IsFiniteSet(Slotted \union {r})
        /\ Cardinality(Slotted \ {r}) <= Cardinality(Slotted)
    BY <1>1, FS_Subset, FS_AddElement
  <2>2. Cardinality(Slotted \union {r})
          = IF r \in Slotted THEN Cardinality(Slotted)
            ELSE Cardinality(Slotted) + 1
    BY <1>1, FS_AddElement
  <2>3. /\ Cardinality(Slotted \ {r}) \in Nat
        /\ Cardinality(Slotted \union {r}) \in Nat
    BY <2>1, FS_CardinalityType
  <2>4. r \in Slotted => Slotted \union {r} = Slotted
    OBVIOUS
  <2> QED
    BY <1>1, <2>1, <2>2, <2>3, <2>4
<1>5. render[r].pc = "slot" => r \in Slotted
  BY DEF Slotted, At
<1>6. Cardinality(Slotted) <= Slots /\ Slots \in Nat
  BY DEF PoolTyped, PoolAssumption
<1>7. CASE pc \in {"away", "waiting"}
  BY <1>1, <1>2, <1>3, <1>4, <1>6, <1>7
<1>8. CASE pc \notin {"away", "waiting"}
  <2>1. Slotted' = Slotted \union {r}
    BY <1>3, <1>8
  <2>2. r \in Slotted \/ Cardinality(Slotted) < Slots
    BY <1>5, <1>8
  <2>3. Cardinality(Slotted \union {r}) <= Slots
    BY <1>1, <1>4, <1>6, <2>2
  <2> QED
    BY <1>2, <2>1, <2>3
<1> QED
  BY <1>7, <1>8

LEMMA PoolTypedNext ==
  ASSUME PoolAssumption, PoolInv, PoolTyped, [PoolNext]_poolVars
  PROVE  PoolTyped'
<1>1. CASE UNCHANGED poolVars
  BY <1>1 DEF poolVars, PoolTyped, Slotted, Rendering, At
<1>2. ASSUME NEW r \in Renders,
             Call(r) \/ TakeSlot(r) \/ GiveUp(r) \/ RefuseClosed(r)
      PROVE  PoolTyped'
  <2>1. UNCHANGED <<root, started, lost, completed, closed>>
    BY <1>2 DEF Call, TakeSlot, GiveUp, RefuseClosed
  <2>2. \E pc \in {"away", "waiting", "slot"}, on \in 0 .. MaxBrowsers :
          /\ render' = [render EXCEPT ![r] = [pc |-> pc, on |-> on]]
          /\ pc \in {"away", "waiting"} \/ Cardinality(Slotted) < Slots
    <3>1. /\ render[r].on \in 0 .. MaxBrowsers
          /\ \A pc \in {"waiting", "slot"} :
               [render EXCEPT ![r].pc = pc]
                 = [render EXCEPT ![r] = [pc |-> pc, on |-> render[r].on]]
      <4>1. render[r] \in [pc : {"away", "waiting", "slot", "rendering"},
                           on : 0 .. MaxBrowsers]
        BY DEF PoolTyped
      <4>2. \A pc \in {"waiting", "slot"} :
              [render[r] EXCEPT !.pc = pc] = [pc |-> pc, on |-> render[r].on]
        BY <4>1
      <4>3. \A pc \in {"waiting", "slot"} :
              [render EXCEPT ![r].pc = pc]
                = [render EXCEPT ![r] = [render[r] EXCEPT !.pc = pc]]
        OBVIOUS
      <4> QED
        BY <4>1, <4>2, <4>3
    <3>2. CASE Call(r)
      BY <3>1, <3>2 DEF Call
    <3>3. CASE TakeSlot(r)
      BY <3>1, <3>3 DEF TakeSlot, Slotted
    <3>4. CASE GiveUp(r) \/ RefuseClosed(r)
      BY <3>4 DEF GiveUp, RefuseClosed, Away, NoBrowser, PoolAssumption
    <3> QED
      BY <1>2, <3>2, <3>3, <3>4
  <2> QED
    BY <2>1, <2>2, SlotsBound DEF PoolTyped
<1>3. ASSUME NEW r \in Renders, Reuse(r) \/ StartNew(r) \/ StartFails(r) \/ End(r)
      PROVE  PoolTyped'
  <2>1. /\ started \in Nat /\ root \in 0 .. started /\ MaxBrowsers \in Nat
        /\ started <= MaxBrowsers /\ Served \in Nat \ {0}
        /\ completed \in 0 .. Served /\ closed \in BOOLEAN
        /\ lost \subseteq 1 .. started
    BY DEF PoolTyped, PoolAssumption
  <2>2. /\ started' \in 0 .. MaxBrowsers /\ started' >= started
        /\ root' \in 0 .. started' /\ lost' = lost /\ completed' \in 0 .. Served
        /\ closed' = closed
    BY <1>3, <2>1 DEF Reuse, StartNew, StartFails, End, NoBrowser
  <2>3. \E pc \in {"away", "rendering"}, on \in 0 .. MaxBrowsers :
          /\ render' = [render EXCEPT ![r] = [pc |-> pc, on |-> on]]
          /\ pc = "away" \/ render[r].pc = "slot"
    <3>1. root \in 0 .. MaxBrowsers /\ root' \in 0 .. MaxBrowsers
      BY <2>1, <2>2
    <3>2. CASE Reuse(r) \/ StartNew(r)
      BY <3>1, <3>2 DEF Reuse, StartNew, Begins
    <3>3. CASE StartFails(r) \/ End(r)
      BY <2>1, <3>3 DEF StartFails, End, Away, NoBrowser
    <3> QED
      BY <1>3, <3>2, <3>3
  <2>4. lost' \subseteq 1 .. started' /\ closed' \in BOOLEAN
    BY <2>1, <2>2
  <2>5. /\ render' \in [Renders -> [pc : {"away", "waiting", "slot", "rendering"},
                                    on : 0 .. MaxBrowsers]]
        /\ Cardinality(Slotted') <= Slots
    BY <2>3, SlotsBound
  <2> QED
    BY <2>2, <2>4, <2>5 DEF PoolTyped
<1>4. ASSUME NEW b \in browsers, LoseConnection(b)
      PROVE  PoolTyped'
  <2>1. b \in 1 .. started
    BY DEF PoolInv, OneBrowser, PoolTyped, NoBrowser, PoolAssumption
  <2> QED
    BY <1>4, <2>1 DEF LoseConnection, PoolTyped, Slotted, Rendering, At
<1>5. CASE Close
  <2>1. closed' \in BOOLEAN
    BY <1>5, Zenon DEF Close
  <2> QED
    BY <1>5, <2>1 DEF Close, PoolTyped, Slotted, Rendering, At, NoBrowser,
                      PoolAssumption
<1> QED
  BY <1>1, <1>2, <1>3, <1>4, <1>5 DEF PoolNext

LEMMA PoolNamed ==
  ASSUME PoolAssumption, PoolInv, PoolTyped
  PROVE  PoolTypeOK
<1>1. active = Cardinality(Rendering) /\ Cardinality(Rendering) \in Nat
  BY FiniteRenders DEF PoolInv
<1>2. Cardinality(Rendering) <= Cardinality(Slotted) /\ Cardinality(Slotted) \in Nat
  <2>1. Slotted \subseteq Renders /\ Rendering \subseteq Slotted
    BY DEF Slotted, Rendering, At
  <2>2. IsFiniteSet(Slotted)
    BY <2>1, FS_Subset DEF PoolAssumption
  <2> QED
    BY <2>1, <2>2, FS_Subset, FS_CardinalityType
<1>3. active \in 0 .. Slots
  BY <1>1, <1>2 DEF PoolTyped, PoolAssumption
<1>4. root \in 0 .. MaxBrowsers /\ browsers \subseteq 1 .. started
  BY DEF PoolInv, OneBrowser, PoolTyped, PoolAssumption, NoBrowser
<1> QED
  BY <1>3, <1>4 DEF PoolTyped, PoolTypeOK

\* The variables of the pool keep their types, and no more callers render at
\* once than there are slots.
THEOREM PoolBounded == PoolAssumption => (PoolSpec => []PoolTypeOK)
<1> SUFFICES ASSUME PoolAssumption PROVE PoolSpec => []PoolTypeOK
  OBVIOUS
<1>1. PoolInit => PoolInv /\ PoolTyped
  BY PoolTypedInit, InitPoolInv
<1>2. PoolInv /\ PoolTyped /\ [PoolNext]_poolVars => PoolInv' /\ PoolTyped'
  BY NextPoolInv, PoolTypedNext
<1>3. PoolInv /\ PoolTyped => PoolTypeOK
  BY PoolNamed
<1> QED
  BY <1>1, <1>2, <1>3, PTL DEF PoolSpec

----------------------------------------------------------------------------
(* Quiet feeds. *)

\* Unless a request changed the schedule, the next refresh is due an interval
\* after the last new story.
OnSchedule ==
  ~dry /\ ~hurried /\ feed.failures = 0 /\ feed.success # Zero =>
    /\ feed.new = feed.success
    /\ feed.next <= feed.success + feed.interval + Jitter

QuietFields == {"enabled", "interval", "days", "next", "failures", "attempt",
                "success", "changed", "new"}

\* What of the types the argument needs.
RowOK ==
  /\ now \in Nat /\ now # Zero /\ DOMAIN feed = QuietFields
  /\ feed.interval \in Periods /\ feed.days \in Days
  /\ feed.next \in Nat /\ feed.failures \in Nat
  /\ feed.success \in Nat /\ feed.new \in Nat

QuietInv == RowOK /\ OnSchedule

\* The numbers of the code satisfy the assumption about them, in seconds: 14
\* days, 10 intervals, one hour.
LEMMA CodeThresholds ==
  \A interval \in Nat : Larger(1209600, 10 * interval) >= interval + 3600
BY DEF Larger

LEMMA Sorts ==
  ASSUME QuietAssumption
  PROVE  /\ Periods \subseteq Nat /\ Days \subseteq Int
         /\ Backoffs \subseteq Nat /\ Margin \in Nat /\ Jitter \in Nat
         /\ Floor \in Nat /\ Multiple \in Nat
<1>1. \A d \in Days : d \in Int
  BY DEF QuietAssumption, Days, QuietNever
<1> QED
  BY <1>1 DEF QuietAssumption

\* No threshold ends before the next refresh can be stored.
LEMMA ThresholdOutlasts ==
  ASSUME QuietAssumption, RowOK, feed.days # QuietNever
  PROVE  QuietThreshold(feed) >= feed.interval + Margin
<1>1. /\ feed.interval \in Periods /\ feed.days \in Int
      /\ feed.interval + Margin \in Int
  BY Sorts DEF RowOK
<1>2. CASE feed.days > 0
  BY <1>1, <1>2 DEF QuietThreshold, Larger
<1>3. CASE ~(feed.days > 0)
  BY <1>1, <1>3 DEF QuietAssumption, QuietThreshold
<1> QED
  BY <1>2, <1>3

LEMMA InitQuietInv == QuietAssumption /\ QuietInit => QuietInv
<1> SUFFICES ASSUME QuietAssumption, QuietInit PROVE QuietInv
  OBVIOUS
<1>1. PICK interval \in Periods, days \in Days : feed = NewFeed(interval, days)
  BY DEF QuietInit
<1> QED
  BY <1>1, Sorts DEF QuietInit, QuietInv, RowOK, QuietFields, OnSchedule, NewFeed,
                     Zero

\* What a refresh stores.
LEMMA FailInv ==
  ASSUME QuietAssumption, QuietInv, NEW delay \in Backoffs,
         NEW answered \in BOOLEAN, Fail(delay, answered)
  PROVE  QuietInv'
<1>1. /\ DOMAIN feed' = QuietFields /\ now' = now
      /\ feed'.interval = feed.interval /\ feed'.days = feed.days
      /\ feed'.next = now + delay /\ feed'.failures = feed.failures + 1
      /\ feed'.success = feed.success /\ feed'.new = feed.new
  BY DEF Fail, QuietInv, RowOK, QuietFields
<1>2. RowOK' /\ feed'.failures # 0
  BY <1>1, Sorts DEF QuietInv, RowOK, Zero
<1> QED
  BY <1>2 DEF QuietInv, OnSchedule

LEMMA SucceedInv ==
  ASSUME QuietAssumption, QuietInv,
         NEW found \in BOOLEAN, NEW moved \in BOOLEAN,
         NEW jitter \in 0 .. Jitter, NEW answered \in BOOLEAN,
         Succeed(found, moved, jitter, answered)
  PROVE  QuietInv'
<1>1. /\ DOMAIN feed' = QuietFields /\ now' = now
      /\ feed'.interval = feed.interval /\ feed'.days = feed.days
      /\ feed'.next = now + feed.interval + jitter /\ feed'.failures = 0
      /\ feed'.success = now
      /\ feed'.new = IF found THEN now ELSE feed.new
  BY DEF Succeed, QuietInv, RowOK, QuietFields
<1>2. /\ now \in Nat /\ feed.interval \in Nat /\ feed.new \in Nat
      /\ jitter \in Nat /\ jitter <= Jitter /\ Jitter \in Nat
  BY Sorts DEF QuietInv, RowOK
<1>3. RowOK'
  BY <1>1, <1>2 DEF QuietInv, RowOK, Zero
<1>4. CASE found
  BY <1>1, <1>2, <1>3, <1>4 DEF QuietInv, OnSchedule
<1>5. CASE ~found
  BY <1>3, <1>5 DEF QuietInv, OnSchedule, Succeed
<1> QED
  BY <1>4, <1>5

\* The operator's requests: they leave the times of the refreshes alone.
LEMMA SaveInv ==
  ASSUME QuietInv, NEW interval \in Periods, NEW days \in Days,
         NEW enabled, NEW renamed, SaveFeed(interval, days, enabled, renamed)
  PROVE  QuietInv'
<1>1. /\ DOMAIN feed' = QuietFields /\ now' = now
      /\ feed'.interval = interval /\ feed'.days = days
      /\ feed'.next = now /\ feed'.failures = 0
      /\ feed'.success = feed.success /\ feed'.new = feed.new
  BY DEF SaveFeed, QuietInv, RowOK, QuietFields
<1>2. RowOK'
  BY <1>1 DEF QuietInv, RowOK
<1> QED
  BY <1>2 DEF QuietInv, OnSchedule, SaveFeed

LEMMA QueueInv ==
  ASSUME QuietInv, QueueFeed
  PROVE  QuietInv'
<1>1. /\ DOMAIN feed' = QuietFields /\ now' = now
      /\ feed'.interval = feed.interval /\ feed'.days = feed.days
      /\ feed'.next = now /\ feed'.failures = feed.failures
      /\ feed'.success = feed.success /\ feed'.new = feed.new
  BY DEF QueueFeed, QuietInv, RowOK, QuietFields
<1>2. RowOK'
  BY <1>1 DEF QuietInv, RowOK
<1> QED
  BY <1>2 DEF QuietInv, OnSchedule, QueueFeed

LEMMA SetEnabledInv ==
  ASSUME QuietInv, NEW enabled \in BOOLEAN, SetEnabled(enabled)
  PROVE  QuietInv'
<1>1. /\ DOMAIN feed' = QuietFields /\ now' = now
      /\ feed'.interval = feed.interval /\ feed'.days = feed.days
      /\ feed'.failures = feed.failures
      /\ feed'.success = feed.success /\ feed'.new = feed.new
      /\ feed'.next \in {now, feed.next}
      /\ ~hurried' => ~hurried /\ feed'.next = feed.next
      /\ dry' = dry
  BY DEF SetEnabled, QuietInv, RowOK, QuietFields
<1>2. RowOK'
  BY <1>1 DEF QuietInv, RowOK
<1>3. OnSchedule'
  BY <1>1 DEF QuietInv, OnSchedule
<1> QED
  BY <1>2, <1>3 DEF QuietInv

LEMMA NextQuietInv ==
  ASSUME QuietAssumption, QuietInv, [QuietNext]_quietVars
  PROVE  QuietInv'
<1>1. CASE UNCHANGED quietVars
  BY <1>1 DEF QuietInv, RowOK, QuietFields, OnSchedule, quietVars
<1>2. CASE StartRefresh \/ Refuse \/ Discard \/ HoldEnds \/ ClockTicks
  BY <1>2 DEF QuietInv, RowOK, QuietFields, OnSchedule, StartRefresh, Refuse,
              Discard,
              HoldEnds, ClockTicks, Zero
<1>3. feed.interval \in Periods /\ feed.days \in Days
  BY DEF QuietInv, RowOK
<1> QED
  BY <1>1, <1>2, <1>3, FailInv, SucceedInv, SaveInv, QueueInv, SetEnabledInv
     DEF QuietNext

LEMMA ReasonFromInv ==
  ASSUME QuietAssumption, QuietInv
  PROVE  MarkedForReason
<1> SUFFICES ASSUME Marked, ~dry, ~hurried
             PROVE  now >= feed.next + Margin - Jitter
  BY DEF MarkedForReason
<1>1. feed.days # QuietNever /\ feed.failures = 0 /\ feed.success # Zero
  BY DEF Marked, IsQuiet
<1>2. /\ feed.new = feed.success
      /\ feed.next <= feed.success + feed.interval + Jitter
  BY <1>1 DEF QuietInv, OnSchedule
<1>3. now - feed.success >= QuietThreshold(feed)
  BY <1>1, <1>2 DEF Marked, IsQuiet, QuietSince
<1>4. QuietThreshold(feed) >= feed.interval + Margin
  BY <1>1, ThresholdOutlasts DEF QuietInv
<1>5. /\ now \in Nat /\ feed.success \in Nat /\ feed.next \in Nat
      /\ feed.interval \in Nat /\ feed.days \in Int
      /\ Margin \in Nat /\ Jitter \in Nat /\ Floor \in Nat /\ Multiple \in Nat
  BY Sorts DEF QuietInv, RowOK
<1>6. QuietThreshold(feed) \in Int
  <2>1. Multiple * feed.interval \in Int
    BY <1>5
  <2>2. QuietAfter(feed.interval) \in Int
    BY <1>5, <2>1 DEF QuietAfter, Larger
  <2> QED
    BY <1>5, <2>2 DEF QuietThreshold, Larger
<1> QED
  BY <1>2, <1>3, <1>4, <1>5, <1>6

\* However refreshes, failures, refused writes and requests follow each other,
\* a feed whose every refresh finds a story is never marked quiet while its
\* next one is on time (IsQuiet, QuietThreshold, CompleteWithDiagnostics).
THEOREM MarkedHonestly == QuietAssumption => (QuietSpec => []MarkedForReason)
<1> SUFFICES ASSUME QuietAssumption PROVE QuietSpec => []MarkedForReason
  OBVIOUS
<1>1. QuietInit => QuietInv
  BY InitQuietInv
<1>2. QuietInv /\ [QuietNext]_quietVars => QuietInv'
  BY NextQuietInv
<1>3. QuietInv => MarkedForReason
  BY ReasonFromInv
<1> QED
  BY <1>1, <1>2, <1>3, PTL DEF QuietSpec

LEMMA QuietTypedInit ==
  ASSUME QuietAssumption, QuietInit
  PROVE  QuietTypeOK
<1>1. now \in Nat /\ job \in {"none", "running", "stale"}
  BY DEF QuietInit
<1>2. held \in BOOLEAN /\ dry \in BOOLEAN /\ hurried \in BOOLEAN
  BY Zenon DEF QuietInit
<1>3. feed \in [enabled: BOOLEAN, interval: Periods, days: Days, next: Nat,
                failures: Nat, attempt: Nat, success: Nat, changed: Nat, new: Nat]
  BY <1>1 DEF QuietInit, NewFeed, Zero
<1> QED
  BY <1>1, <1>2, <1>3 DEF QuietTypeOK

LEMMA QuietTypedNext ==
  ASSUME QuietAssumption, QuietTypeOK, [QuietNext]_quietVars
  PROVE  QuietTypeOK'
<1> DEFINE Row == [enabled: BOOLEAN, interval: Periods, days: Days, next: Nat,
                   failures: Nat, attempt: Nat, success: Nat, changed: Nat,
                   new: Nat]
<1>1. /\ feed \in Row /\ now \in Nat /\ Zero \in Nat
      /\ Periods \subseteq Nat /\ Backoffs \subseteq Nat /\ Jitter \in Nat
      /\ job \in {"none", "running", "stale"}
  BY DEF QuietTypeOK, QuietAssumption, Zero
<1>2. CASE UNCHANGED quietVars
  BY <1>2 DEF quietVars, QuietTypeOK
<1>3. CASE StartRefresh \/ Refuse \/ Discard \/ HoldEnds \/ ClockTicks
  <2>1. now' \in Nat /\ feed' = feed /\ job' \in {"none", "running", "stale"}
    BY <1>1, <1>3 DEF StartRefresh, Refuse, Discard, HoldEnds, ClockTicks
  <2>2. held' \in BOOLEAN /\ UNCHANGED <<dry, hurried>>
    BY <1>3, Zenon
    DEF StartRefresh, Refuse, Discard, HoldEnds, ClockTicks, QuietTypeOK
  <2> QED
    BY <2>1, <2>2 DEF QuietTypeOK
<1>4. ASSUME NEW found \in BOOLEAN, NEW moved \in BOOLEAN,
             NEW jitter \in 0 .. Jitter, NEW answered \in BOOLEAN,
             Succeed(found, moved, jitter, answered)
      PROVE  QuietTypeOK'
  <2>1. feed' \in Row
    <3>1. now + feed.interval + jitter \in Nat
      <4>1. feed.interval \in Periods
        BY <1>1
      <4>2. feed.interval \in Nat
        BY <1>1, <4>1, Zenon
      <4>3. Jitter \in Nat
        BY <1>1
      <4>4. jitter \in Nat
        BY <4>3
      <4> QED
        BY <1>1, <4>2, <4>4
    <3> QED
      BY <1>1, <1>4, <3>1 DEF Succeed
  <2>2. held' \in BOOLEAN /\ dry' \in BOOLEAN /\ hurried' \in BOOLEAN
    BY <1>4, Zenon DEF Succeed
  <2> QED
    BY <1>1, <1>4, <2>1, <2>2 DEF Succeed, QuietTypeOK
<1>5. ASSUME NEW delay \in Backoffs, NEW answered \in BOOLEAN,
             Fail(delay, answered)
      PROVE  QuietTypeOK'
  <2>1. feed' \in Row
    <3>1. now + delay \in Nat /\ feed.failures + 1 \in Nat
      BY <1>1
    <3> QED
      BY <1>1, <1>5, <3>1 DEF Fail
  <2>2. held' \in BOOLEAN /\ hurried' \in BOOLEAN
    BY <1>5, Zenon DEF Fail
  <2> QED
    BY <1>1, <1>5, <2>1, <2>2 DEF Fail, QuietTypeOK
<1>6. ASSUME NEW interval \in Periods, NEW days \in Days, NEW enabled \in BOOLEAN,
             NEW renamed \in BOOLEAN, SaveFeed(interval, days, enabled, renamed)
      PROVE  QuietTypeOK'
  <2>1. feed' \in Row
    BY <1>1, <1>6 DEF SaveFeed
  <2>2. held' \in BOOLEAN /\ hurried' \in BOOLEAN
    BY <1>6, Zenon DEF SaveFeed
  <2>3. job' \in {"none", "running", "stale"}
    BY <1>1, <1>6 DEF SaveFeed
  <2> QED
    BY <1>1, <1>6, <2>1, <2>2, <2>3 DEF SaveFeed, QuietTypeOK
<1>7. ASSUME NEW enabled \in BOOLEAN, SetEnabled(enabled)
      PROVE  QuietTypeOK'
  <2>1. feed' \in Row
    BY <1>1, <1>7 DEF SetEnabled
  <2>2. held' \in BOOLEAN /\ hurried' \in BOOLEAN
    BY <1>7, Zenon DEF SetEnabled
  <2> QED
    BY <1>1, <1>7, <2>1, <2>2 DEF SetEnabled, QuietTypeOK
<1>8. CASE QueueFeed
  <2>1. feed' \in Row
    BY <1>1, <1>8 DEF QueueFeed
  <2>2. held' \in BOOLEAN /\ hurried' \in BOOLEAN
    BY <1>8, Zenon DEF QueueFeed
  <2> QED
    BY <1>1, <1>8, <2>1, <2>2 DEF QueueFeed, QuietTypeOK
<1>9. /\ feed.enabled \in BOOLEAN /\ feed.interval \in Periods
      /\ feed.days \in Days
  BY <1>1
<1> QED
  BY <1>2, <1>3, <1>4, <1>5, <1>6, <1>7, <1>8, <1>9, Zenon DEF QuietNext

\* The row of a feed keeps its type, and so does what the mark goes by.
THEOREM QuietTyped == QuietAssumption => (QuietSpec => []QuietTypeOK)
<1> SUFFICES ASSUME QuietAssumption PROVE QuietSpec => []QuietTypeOK
  OBVIOUS
<1>1. QuietInit => QuietTypeOK
  BY QuietTypedInit
<1>2. QuietTypeOK /\ [QuietNext]_quietVars => QuietTypeOK'
  BY QuietTypedNext
<1> QED
  BY <1>1, <1>2, PTL DEF QuietSpec

----------------------------------------------------------------------------
(* The composition. *)

\* What a part that is not in use does is nothing, which every part allows.
LEMMA PartsStep ==
  ASSUME [PartsNext]_partsVars
  PROVE  /\ [UpgradeNext]_upgradeVars /\ [LockNext]_lockVars
         /\ [LockingNext]_lockingVars /\ [PoolNext]_poolVars
         /\ [QuietNext]_quietVars
         /\ [Alerting!AlertsNext]_(Alerting!alertVars)
         /\ [Articles!BacklogNext]_(Articles!backlogVars)
<1> USE DEF Alerting!alertVars, alertingVars, Articles!backlogVars, articlesVars
<1>1. CASE UNCHANGED partsVars
  BY <1>1 DEF partsVars
<1>2. CASE PartsNext
  BY <1>2
     DEF PartsNext, CopiedStep, LockedStep, LockingStep, PoolStep, MarkingStep,
         AlertingStep, ArticlesStep
<1> QED
  BY <1>1, <1>2

\* Every behaviour of the composition is one of each part: what is shown of a
\* part alone, by proof or by a run, holds where the parts are checked together.
THEOREM PartsKeepSpecs ==
  PartsSpec => /\ UpgradeSpec /\ LockSpec /\ LockingSpec /\ PoolSpec
               /\ QuietSpec /\ Alerting!AlertsSpec /\ Articles!BacklogSpec
<1>1. PartsInit =>
        /\ UpgradeInit /\ LockInit /\ LockingInit /\ PoolInit /\ QuietInit
        /\ Alerting!AlertsInit /\ Articles!BacklogInit
  BY DEF PartsInit
<1>2. [PartsNext]_partsVars =>
        /\ [UpgradeNext]_upgradeVars /\ [LockNext]_lockVars
        /\ [LockingNext]_lockingVars /\ [PoolNext]_poolVars
        /\ [QuietNext]_quietVars
        /\ [Alerting!AlertsNext]_(Alerting!alertVars)
        /\ [Articles!BacklogNext]_(Articles!backlogVars)
  BY PartsStep
<1> QED
  BY <1>1, <1>2, PTL
     DEF PartsSpec, UpgradeSpec, LockSpec, LockingSpec, PoolSpec, QuietSpec,
         Alerting!AlertsSpec, Articles!BacklogSpec

\* No start, however it ends, leaves a database between two schemas, SQLite's
\* nor PostgreSQL's (OpenWithOptions, OpenPostgres).
THEOREM DatabaseWhole == PartsSpec => []UpgradedWhole
<1>1. UpgradeAssumption /\ LockAssumption
  BY PartsAssumption
<1> QED
  BY <1>1, PartsKeepSpecs, SchemaKept, UpgradeOnce, PTL DEF UpgradedWhole

\* The same definitions, with and without what is proved of them.
LEMMA SameAlerts ==
  /\ Alerting!AlertsAssumption <=> AlertingFacts!AlertsAssumption
  /\ Alerting!AlertsInit <=> AlertingFacts!AlertsInit
  /\ Alerting!AlertsNext <=> AlertingFacts!AlertsNext
  /\ Alerting!alertVars = AlertingFacts!alertVars
  /\ Alerting!AlertsTypeOK <=> AlertingFacts!AlertsTypeOK
  /\ Alerting!AlertsFollowStreak <=> AlertingFacts!AlertsFollowStreak
  /\ Alerting!OutagesTold <=> AlertingFacts!OutagesTold
<1>1. Alerting!AlertsAssumption <=> AlertingFacts!AlertsAssumption
  BY Zenon DEF Alerting!AlertsAssumption, AlertingFacts!AlertsAssumption
<1>2. Alerting!AlertsInit <=> AlertingFacts!AlertsInit
  BY Zenon DEF Alerting!AlertsInit, Alerting!Never, Alerting!NoJob,
     Alerting!NoList, Alerting!Kinds, AlertingFacts!AlertsInit,
     AlertingFacts!Never, AlertingFacts!NoJob, AlertingFacts!NoList,
     AlertingFacts!Kinds
<1>3. Alerting!AlertsNext <=> AlertingFacts!AlertsNext
  BY Zenon DEF Alerting!memory, Alerting!history, Alerting!Kinds,
     Alerting!Never, Alerting!NoJob, Alerting!NoList, Alerting!Existing,
     Alerting!Refresh, Alerting!Calls, Alerting!Commits, Alerting!Store,
     Alerting!LoseAnswer, Alerting!RefuseResult,
     Alerting!DiscardResult, Alerting!Notifying, Alerting!Threshold,
     Alerting!Reaches, Alerting!Recovers, Alerting!Overtaken,
     Alerting!TellFailing, Alerting!TellRecovered, Alerting!TellNothing,
     Alerting!AlertRefresh, Alerting!Due, Alerting!Tell,
     Alerting!AlertNotSaved, Alerting!ListFails, Alerting!Resolves,
     Alerting!ListSucceeds, Alerting!SkipRest, Alerting!TimePasses,
     Alerting!SaveFeed, Alerting!DeleteFeed, Alerting!Stop, Alerting!Exit,
     Alerting!Kill, Alerting!Restart, Alerting!AlertsNext,
     AlertingFacts!memory, AlertingFacts!history, AlertingFacts!Kinds,
     AlertingFacts!Never, AlertingFacts!NoJob, AlertingFacts!NoList,
     AlertingFacts!Existing, AlertingFacts!Refresh, AlertingFacts!Calls,
     AlertingFacts!Commits, AlertingFacts!Store, AlertingFacts!LoseAnswer,
     AlertingFacts!RefuseResult, AlertingFacts!DiscardResult,
     AlertingFacts!Notifying, AlertingFacts!Threshold, AlertingFacts!Reaches,
     AlertingFacts!Recovers, AlertingFacts!Overtaken,
     AlertingFacts!TellFailing, AlertingFacts!TellRecovered,
     AlertingFacts!TellNothing, AlertingFacts!AlertRefresh, AlertingFacts!Due,
     AlertingFacts!Tell, AlertingFacts!AlertNotSaved, AlertingFacts!ListFails,
     AlertingFacts!Resolves, AlertingFacts!ListSucceeds,
     AlertingFacts!SkipRest, AlertingFacts!TimePasses, AlertingFacts!SaveFeed,
     AlertingFacts!DeleteFeed, AlertingFacts!Stop, AlertingFacts!Exit,
     AlertingFacts!Kill, AlertingFacts!Restart, AlertingFacts!AlertsNext
<1>4. Alerting!alertVars = AlertingFacts!alertVars
  BY Zenon DEF Alerting!alertVars, AlertingFacts!alertVars
<1>5. Alerting!AlertsFollowStreak <=> AlertingFacts!AlertsFollowStreak
  BY Zenon DEF Alerting!AlertsFollowStreak, Alerting!Existing,
     Alerting!Notifying, Alerting!Threshold, AlertingFacts!AlertsFollowStreak,
     AlertingFacts!Existing, AlertingFacts!Notifying, AlertingFacts!Threshold
<1>6. Alerting!OutagesTold <=> AlertingFacts!OutagesTold
  BY Zenon DEF Alerting!OutagesTold, Alerting!Notifying,
     AlertingFacts!OutagesTold, AlertingFacts!Notifying
<1>7. Alerting!AlertsTypeOK <=> AlertingFacts!AlertsTypeOK
  BY Zenon DEF Alerting!AlertsTypeOK, Alerting!Rows, Alerting!Jobs,
     Alerting!Kinds, AlertingFacts!AlertsTypeOK, AlertingFacts!Rows,
     AlertingFacts!Jobs, AlertingFacts!Kinds
<1> QED
  BY <1>1, <1>2, <1>3, <1>4, <1>5, <1>6, <1>7

\* A behaviour of the alerts is one of the module the proofs are about.
LEMMA AlertsBehaviour == PartsSpec => AlertingFacts!AlertsSpec
<1>1. Alerting!AlertsInit => AlertingFacts!AlertsInit
  BY SameAlerts
<1>2. [Alerting!AlertsNext]_(Alerting!alertVars)
        => [AlertingFacts!AlertsNext]_(AlertingFacts!alertVars)
  BY SameAlerts, Zenon DEF Alerting!alertVars, AlertingFacts!alertVars
<1> QED
  BY <1>1, <1>2, PartsKeepSpecs, PTL
     DEF Alerting!AlertsSpec, AlertingFacts!AlertsSpec

\* The failing and recovered events of a feed follow its streak, unless the
\* database's answer to the result that calls for one is lost (alertRefresh,
\* alerts.forget).
THEOREM PartsFollowStreaks == PartsSpec => []AlertsFollowStreak
<1>1. AlertingFacts!AlertsAssumption
  BY PartsAssumption, SameAlerts
<1>2. AlertingFacts!AlertsFollowStreak => AlertsFollowStreak
  BY SameAlerts DEF AlertsFollowStreak
<1> QED
  BY <1>1, <1>2, AlertsBehaviour, AlertingFacts!StreaksTold, PTL

\* A database that cannot be read or written is told, never twice within an
\* hour, and the end of a told outage too (alerts.due).
THEOREM PartsTellOutages == PartsSpec => []OutagesTold
<1>1. AlertingFacts!AlertsAssumption
  BY PartsAssumption, SameAlerts
<1>2. AlertingFacts!OutagesTold => OutagesTold
  BY SameAlerts DEF OutagesTold
<1> QED
  BY <1>1, <1>2, AlertsBehaviour, AlertingFacts!OutagesEnd, PTL

LEMMA SameArticles ==
  /\ Articles!BacklogAssumption <=> ArticlesFacts!BacklogAssumption
  /\ Articles!BacklogInit <=> ArticlesFacts!BacklogInit
  /\ Articles!BacklogNext <=> ArticlesFacts!BacklogNext
  /\ Articles!backlogVars = ArticlesFacts!backlogVars
  /\ Articles!BacklogTypeOK <=> ArticlesFacts!BacklogTypeOK
  /\ Articles!BacklogEnds <=> ArticlesFacts!BacklogEnds
  /\ Articles!NoStoryStranded <=> ArticlesFacts!NoStoryStranded
<1>1. Articles!BacklogAssumption <=> ArticlesFacts!BacklogAssumption
  BY Zenon DEF Articles!BacklogAssumption, Articles!IsInjective,
     ArticlesFacts!BacklogAssumption, ArticlesFacts!IsInjective
<1>2. Articles!BacklogInit <=> ArticlesFacts!BacklogInit
  BY Zenon DEF Articles!BacklogInit, Articles!NoTag, Articles!NoJob,
     Articles!NotModified, ArticlesFacts!BacklogInit, ArticlesFacts!NoTag,
     ArticlesFacts!NoJob, ArticlesFacts!NotModified
<1>3. Articles!BacklogNext <=> ArticlesFacts!BacklogNext
  <2>1. Articles!Request <=> ArticlesFacts!Request
    BY Zenon DEF Articles!Request, Articles!NoJob, Articles!NotModified,
       Articles!Draining, Articles!history, ArticlesFacts!Request,
       ArticlesFacts!NoJob, ArticlesFacts!NotModified, ArticlesFacts!Draining,
       ArticlesFacts!history
  <2>2. Articles!EndUnstored <=> ArticlesFacts!EndUnstored
    BY Zenon DEF Articles!EndUnstored, Articles!NoJob, Articles!NotModified,
       Articles!history, ArticlesFacts!EndUnstored, ArticlesFacts!NoJob,
       ArticlesFacts!NotModified, ArticlesFacts!history
  <2>3. Articles!NoArticles <=> ArticlesFacts!NoArticles
    BY Zenon DEF Articles!NoArticles, Articles!history,
       ArticlesFacts!NoArticles, ArticlesFacts!history
  <2>4. /\ Articles!Complete <=> ArticlesFacts!Complete
        /\ Articles!LoseAnswer <=> ArticlesFacts!LoseAnswer
    <3>1. \A b : Articles!StorePage(b) <=> ArticlesFacts!StorePage(b)
      BY Zenon DEF Articles!StorePage, Articles!Count, Articles!Ranked,
         Articles!Newer, Articles!Before, Articles!Retained, Articles!Min,
         Articles!SetToSeqs, Articles!ToSet, Articles!Cardinality,
         ArticlesFacts!StorePage, ArticlesFacts!Count, ArticlesFacts!Ranked,
         ArticlesFacts!Newer, ArticlesFacts!Before, ArticlesFacts!Retained,
         ArticlesFacts!Min, ArticlesFacts!SetToSeqs, ArticlesFacts!ToSet,
         ArticlesFacts!Cardinality
    <3> QED
      BY <3>1, Zenon
         DEF Articles!Complete, Articles!LoseAnswer, Articles!NoJob,
         Articles!NotModified, Articles!history, ArticlesFacts!Complete,
         ArticlesFacts!LoseAnswer, ArticlesFacts!NoJob,
         ArticlesFacts!NotModified, ArticlesFacts!history
  <2>5. \A r, t, g : 
         Articles!FetchArticles(r, t, g) <=> ArticlesFacts!FetchArticles(r, t, g)
    BY Zenon DEF Articles!FetchArticles, Articles!Sooner, Articles!Before,
       Articles!ToSet, Articles!history, Articles!Cardinality,
       ArticlesFacts!FetchArticles, ArticlesFacts!Sooner, ArticlesFacts!Before,
       ArticlesFacts!ToSet, ArticlesFacts!history, ArticlesFacts!Cardinality
  <2>6. \A r : 
         Articles!RecordBacklog(r) <=> ArticlesFacts!RecordBacklog(r)
    BY Zenon DEF Articles!RecordBacklog, Articles!Progressed, Articles!ToSet,
       Articles!NoJob, Articles!NotModified, Articles!Cardinality,
       ArticlesFacts!RecordBacklog, ArticlesFacts!Progressed,
       ArticlesFacts!ToSet, ArticlesFacts!NoJob, ArticlesFacts!NotModified,
       ArticlesFacts!Cardinality
  <2>7. \A p : 
         Articles!PageChanges(p) <=> ArticlesFacts!PageChanges(p)
    BY Zenon DEF Articles!PageChanges, Articles!history,
       ArticlesFacts!PageChanges, ArticlesFacts!history
  <2>8. Articles!HourPasses <=> ArticlesFacts!HourPasses
    BY Zenon DEF Articles!HourPasses, Articles!history,
       ArticlesFacts!HourPasses, ArticlesFacts!history
  <2>9. Articles!Restart <=> ArticlesFacts!Restart
    BY Zenon DEF Articles!Restart, Articles!NoJob, Articles!NotModified,
       ArticlesFacts!Restart, ArticlesFacts!NoJob, ArticlesFacts!NotModified
  <2>10. \A a, c, k : 
         Articles!SaveFeed(a, c, k) <=> ArticlesFacts!SaveFeed(a, c, k)
    BY Zenon DEF Articles!SaveFeed, Articles!NoTag, Articles!ToSet,
       ArticlesFacts!SaveFeed, ArticlesFacts!NoTag, ArticlesFacts!ToSet
  <2>11. Articles!PruneStory <=> ArticlesFacts!PruneStory
    <3>1. \A i : Articles!RemoveAt(stored, i) = ArticlesFacts!RemoveAt(stored, i)
      BY Zenon DEF Articles!RemoveAt, ArticlesFacts!RemoveAt
    <3> QED
      BY <2>10, <3>1, Zenon DEF Articles!PruneStory, ArticlesFacts!PruneStory
  <2>12. Articles!ToSet(round.listed) = ArticlesFacts!ToSet(round.listed)
    BY Zenon DEF Articles!ToSet, ArticlesFacts!ToSet
  <2> QED
    BY <2>1, <2>2, <2>3, <2>4, <2>5, <2>6, <2>7, <2>8, <2>9, <2>10, <2>11,
       <2>12, Zenon
       DEF Articles!BacklogNext, ArticlesFacts!BacklogNext
<1>4. Articles!backlogVars = ArticlesFacts!backlogVars
  BY Zenon DEF Articles!backlogVars, ArticlesFacts!backlogVars
<1>5. Articles!BacklogTypeOK <=> ArticlesFacts!BacklogTypeOK
  BY Zenon DEF Articles!BacklogTypeOK, Articles!Keys, Articles!NoTag,
     Articles!NotModified, Articles!ToSet, Articles!IsInjective,
     ArticlesFacts!BacklogTypeOK, ArticlesFacts!Keys, ArticlesFacts!NoTag,
     ArticlesFacts!NotModified, ArticlesFacts!ToSet, ArticlesFacts!IsInjective
<1>6. Articles!BacklogEnds <=> ArticlesFacts!BacklogEnds
  BY Zenon DEF Articles!BacklogEnds, Articles!NoTag, Articles!Max,
     Articles!Min, ArticlesFacts!BacklogEnds, ArticlesFacts!NoTag,
     ArticlesFacts!Max, ArticlesFacts!Min
<1>7. Articles!NoStoryStranded <=> ArticlesFacts!NoStoryStranded
  BY Zenon DEF Articles!NoStoryStranded, Articles!NoJob, Articles!NotModified,
     Articles!ToSet, ArticlesFacts!NoStoryStranded, ArticlesFacts!NoJob,
     ArticlesFacts!NotModified, ArticlesFacts!ToSet
<1> QED
  BY <1>1, <1>2, <1>3, <1>4, <1>5, <1>6, <1>7

\* A behaviour of the articles is one of the module the proofs are about.
LEMMA ArticlesBehaviour == PartsSpec => ArticlesFacts!BacklogSpec
<1>1. Articles!BacklogInit => ArticlesFacts!BacklogInit
  BY SameArticles
<1>2. [Articles!BacklogNext]_(Articles!backlogVars)
        => [ArticlesFacts!BacklogNext]_(ArticlesFacts!backlogVars)
  BY SameArticles, Zenon DEF Articles!backlogVars, ArticlesFacts!backlogVars
<1> QED
  BY <1>1, <1>2, PartsKeepSpecs, PTL
     DEF Articles!BacklogSpec, ArticlesFacts!BacklogSpec

\* While its page stays the same, a feed returns to conditional requests after
\* as many stored full refreshes as the page lists or the feed keeps stories,
\* since the last lost answer (backlog.go).
THEOREM PartsEndBacklogs == PartsSpec => []BacklogEnds
<1>1. ArticlesFacts!BacklogAssumption
  BY PartsAssumption, SameArticles
<1>2. ArticlesFacts!BacklogEnds => BacklogEnds
  BY SameArticles DEF BacklogEnds
<1> QED
  BY <1>1, <1>2, ArticlesBehaviour, ArticlesFacts!BacklogDrains, PTL

\* Behind a 304 no story waits for an article that was never tried, unless the
\* refresh that left it recorded no flag or brought no article (backlog.go,
\* article.go).
THEOREM PartsStrandNothing == PartsSpec => []NoStoryStranded
<1>1. ArticlesFacts!BacklogAssumption
  BY PartsAssumption, SameArticles
<1>2. ArticlesFacts!NoStoryStranded => NoStoryStranded
  BY SameArticles DEF NoStoryStranded
<1> QED
  BY <1>1, <1>2, ArticlesBehaviour, ArticlesFacts!NothingStranded, PTL

\* The part in use is one of the parts.
LEMMA OnePart == PartsSpec => [](part \in Parts)
<1>1. PartsInit => part \in Parts
  BY DEF PartsInit
<1>2. part \in Parts /\ [PartsNext]_partsVars => (part \in Parts)'
  BY DEF partsVars, PartsNext, CopiedStep, LockedStep, LockingStep, PoolStep,
         MarkingStep, AlertingStep, ArticlesStep
<1> QED
  BY <1>1, <1>2, PTL DEF PartsSpec

\* Every variable of the part in use keeps its type, for all values of the
\* constants of all the parts.
THEOREM PartsTyped == PartsSpec => []TypeOK
<1>1. /\ UpgradeAssumption /\ LockAssumption /\ LockingAssumption
      /\ PoolAssumption /\ QuietAssumption
      /\ AlertingFacts!AlertsAssumption /\ ArticlesFacts!BacklogAssumption
  BY PartsAssumption, SameAlerts, SameArticles
<1>2. PartsSpec => []UpgradeTypeOK
  BY <1>1, PartsKeepSpecs, UpgradeNamed, PTL
<1>3. PartsSpec => []LockTypeOK
  BY <1>1, PartsKeepSpecs, LockNamed, PTL
<1>4. PartsSpec => []LockingTypeOK
  BY <1>1, PartsKeepSpecs, RowsNamed, PTL
<1>5. PartsSpec => []PoolTypeOK
  BY <1>1, PartsKeepSpecs, PoolBounded, PTL
<1>6. PartsSpec => []QuietTypeOK
  BY <1>1, PartsKeepSpecs, QuietTyped, PTL
<1>7. PartsSpec => []AlertingFacts!AlertsTypeOK
  BY <1>1, AlertsBehaviour, AlertingFacts!AlertsTyped, PTL
<1>8. PartsSpec => []ArticlesFacts!BacklogTypeOK
  BY <1>1, ArticlesBehaviour, ArticlesFacts!BacklogTyped, PTL
<1>9. part \in Parts /\ UpgradeTypeOK /\ LockTypeOK /\ LockingTypeOK
        /\ PoolTypeOK /\ QuietTypeOK /\ AlertingFacts!AlertsTypeOK
        /\ ArticlesFacts!BacklogTypeOK
      => TypeOK
  BY SameAlerts, SameArticles DEF TypeOK, Parts
<1> QED
  BY <1>2, <1>3, <1>4, <1>5, <1>6, <1>7, <1>8, <1>9, OnePart, PTL
=============================================================================
