---------------------------- MODULE BrowserPool ----------------------------
(***************************************************************************)
(* The Chromium pool (internal/browser): renders share one browser, which  *)
(* is started by the first of them, replaced when its connection is lost   *)
(* or, between renders, when it has served enough, and stopped by Close.   *)
(* Each render holds a slot; Admission decides which jobs come here.       *)
(*                                                                         *)
(* Pool.mu is held while a browser is replaced, so that is one step.       *)
(* Browsers are numbered in the order they were started.                   *)
(***************************************************************************)
EXTENDS Naturals, FiniteSets

CONSTANTS
  Renders,    \* callers of Render
  Slots,      \* BROWSER_SLOTS
  Served,     \* renders after which an idle browser is replaced: 100
  MaxBrowsers \* bound: browsers started

VARIABLES
  root,       \* Pool.root: the browser renders use, or NoBrowser
  started,    \* Pool.restarts
  browsers,   \* the browsers started and not stopped
  lost,       \* those whose connection was lost
  active, completed, closed,   \* as in Pool
  render      \* per caller: where it is, and the browser it uses

poolVars == <<root, started, browsers, lost, active, completed, closed, render>>

NoBrowser == 0
Away == [pc |-> "away", on |-> NoBrowser]

\* What the constants are; MCParts has it as its assumption.
PoolAssumption ==
  /\ Slots \in Nat \ {0} /\ Served \in Nat \ {0} /\ MaxBrowsers \in Nat
  /\ IsFiniteSet(Renders)

PoolInit ==
  /\ root = NoBrowser /\ started = 0 /\ browsers = {} /\ lost = {}
  /\ active = 0 /\ completed = 0 /\ closed = FALSE
  /\ render = [r \in Renders |-> Away]

----------------------------------------------------------------------------
(* Render. *)

At(pc) == {r \in Renders : render[r].pc = pc}
Rendering == At("rendering")

Call(r) ==
  /\ render[r].pc = "away" /\ render' = [render EXCEPT ![r].pc = "waiting"]
  /\ UNCHANGED <<root, started, browsers, lost, active, completed, closed>>

TakeSlot(r) ==
  /\ render[r].pc = "waiting" /\ Cardinality(At("slot") \union Rendering) < Slots
  /\ render' = [render EXCEPT ![r].pc = "slot"]
  /\ UNCHANGED <<root, started, browsers, lost, active, completed, closed>>

\* The deadline passes before a slot is free, or as one is taken.
GiveUp(r) ==
  /\ render[r].pc \in {"waiting", "slot"} /\ render' = [render EXCEPT ![r] = Away]
  /\ UNCHANGED <<root, started, browsers, lost, active, completed, closed>>

\* Wrong variant: a browser that has served enough is replaced at once.
KeepsUntilServed == completed < Served

\* It is replaced only while nothing renders on it.
KeepsBrowser == completed < Served \/ active > 0

\* startLocked goes on with the browser there is.
Usable == root # NoBrowser /\ root \notin lost /\ KeepsBrowser

Begins(r, browser) ==
  /\ render' = [render EXCEPT ![r] = [pc |-> "rendering", on |-> browser]]
  /\ active' = active + 1

Reuse(r) ==
  /\ render[r].pc = "slot" /\ ~closed /\ Usable /\ Begins(r, root)
  /\ UNCHANGED <<root, started, browsers, lost, completed, closed>>

\* What still runs once p.stop has stopped the old browser.
LeftRunning == browsers \ {root}

StartNew(r) ==
  /\ render[r].pc = "slot" /\ ~closed /\ ~Usable /\ started < MaxBrowsers
  /\ started' = started + 1 /\ root' = started' /\ completed' = 0
  /\ browsers' = LeftRunning \union {root'} /\ Begins(r, root')
  /\ UNCHANGED <<lost, closed>>

\* The new browser does not come up within 15 seconds.
StartFails(r) ==
  /\ render[r].pc = "slot" /\ ~closed /\ ~Usable
  /\ root' = NoBrowser /\ browsers' = LeftRunning
  /\ render' = [render EXCEPT ![r] = Away]
  /\ UNCHANGED <<started, lost, active, completed, closed>>

RefuseClosed(r) ==
  /\ render[r].pc = "slot" /\ closed /\ render' = [render EXCEPT ![r] = Away]
  /\ UNCHANGED <<root, started, browsers, lost, active, completed, closed>>

\* It ends, with a page or an error.
End(r) ==
  /\ render[r].pc = "rendering" /\ render' = [render EXCEPT ![r] = Away]
  /\ active' = active - 1
  /\ completed' = IF completed < Served THEN completed + 1 ELSE completed
  /\ UNCHANGED <<root, started, browsers, lost, closed>>

----------------------------------------------------------------------------
LoseConnection(b) ==
  /\ b \in browsers \ lost /\ lost' = lost \union {b}
  /\ UNCHANGED <<root, started, browsers, active, completed, closed, render>>

Close ==
  /\ ~closed /\ closed' = TRUE /\ root' = NoBrowser /\ browsers' = LeftRunning
  /\ UNCHANGED <<started, lost, active, completed, render>>

PoolNext ==
  \/ \E r \in Renders :
       \/ Call(r) \/ TakeSlot(r) \/ GiveUp(r) \/ Reuse(r) \/ StartNew(r)
       \/ StartFails(r) \/ RefuseClosed(r) \/ End(r)
  \/ \E b \in browsers : LoseConnection(b)
  \/ Close

PoolSpec == PoolInit /\ [][PoolNext]_poolVars

----------------------------------------------------------------------------
(* Properties. *)

PoolTypeOK ==
  /\ root \in 0 .. MaxBrowsers /\ started \in 0 .. MaxBrowsers
  /\ browsers \subseteq 1 .. started /\ lost \subseteq 1 .. started
  /\ active \in 0 .. Slots /\ completed \in 0 .. Served /\ closed \in BOOLEAN
  /\ render \in [Renders -> [pc : {"away", "waiting", "slot", "rendering"},
                             on : 0 .. MaxBrowsers]]

\* No render is cut off by another's: while its browser answers and the pool
\* is open its browser runs.  And no browser is left behind: one runs at most,
\* it is the pool's, and none does once the pool is closed.
NoRenderCut ==
  /\ \A r \in Rendering : closed \/ render[r].on \in lost \union browsers
  /\ browsers \subseteq {root} \ {NoBrowser}
  /\ closed => browsers = {}
=============================================================================
