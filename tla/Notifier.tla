------------------------------ MODULE Notifier ------------------------------
(***************************************************************************)
(* internal/notify: refresh goroutines and the tick call Notify, which     *)
(* never waits; one worker collects their events into messages and         *)
(* delivers them; the process closes it after the scheduler has ended.     *)
(* Each atomic counter, channel operation and delivery attempt is a step.  *)
(*                                                                         *)
(* An event is its kind: what the notifier decides by.  Of the events in a *)
(* batch or a message only their numbers matter.  The test message, which  *)
(* a handler delivers itself, shares nothing with the worker but the       *)
(* statistics, and is left out.                                            *)
(***************************************************************************)
EXTENDS Naturals, Sequences, FiniteSets

CONSTANTS
  Callers,      \* the goroutines that call Notify
  Kinds,        \* the kinds of event they raise
  QueueSize,    \* feed events that may wait, and that a message keeps
  MaxGlobal,    \* server-wide events that may wait, and that a message keeps
  MinLines,     \* events a message lists however long their texts are
  MaxLines,     \* events a message lists
  MaxAttempts,  \* tries of a delivery
  MaxEvents     \* bound: this many events are raised

VARIABLES
  raised,       \* calls of Notify so far
  caller,       \* per caller, its next step and the event it drops
  queue,        \* feed events waiting
  urgent,       \* server-wide events waiting
  unlogged,     \* dropped since the last message
  alertDropped, \* a dropped event needed attention
  jobsDone,     \* Scheduler.Wait has returned: nobody calls Notify again
  worker,       \* the worker's next step
  flushing,     \* it has seen the stop, and its next message is the last
  batch,        \* the message being collected
  message,      \* the message being delivered
  attempt,      \* which try
  closing,      \* "open"; "stop" is closed; the context is "cancelled"
  \* History variables.
  told,         \* events of messages whose delivery ended
  dbRaised,     \* server-wide events raised
  dbTold        \* of those, lines of messages whose delivery ended

inVars == <<raised, dbRaised, caller, queue, urgent, unlogged, alertDropped,
            jobsDone>>
outVars == <<message, attempt, told, dbTold>>
vars == <<inVars, worker, flushing, batch, outVars, closing>>

ASSUME NotifierAssumption ==
  /\ IsFiniteSet(Callers)
  /\ QueueSize \in Nat \ {0} /\ MaxGlobal \in Nat \ {0}
  /\ MinLines \in Nat /\ MaxLines \in Nat /\ MinLines <= MaxLines
  /\ MaxAttempts \in Nat \ {0} /\ MaxEvents \in Nat

AllKinds == {"failing", "recovered", "not_saved", "db_unavailable",
             "db_available"}
ASSUME KindsAssumption == Kinds \subseteq AllKinds

\* Events that concern the whole server, and events that need attention.
Global(kind) == kind \notin {"failing", "recovered"}
Alerting(kind) == kind \in {"failing", "not_saved", "db_unavailable"}

Idle == [pc |-> "idle", kind |-> "failing"]

\* Events kept, the server-wide ones among them, and events counted only; a
\* message has lines for some of its events.
EmptyBatch == [events |-> 0, globals |-> 0, extra |-> 0, alert |-> FALSE]
NoMessage == [lines |-> 0, globals |-> 0, more |-> 0, alert |-> FALSE]

Init ==
  /\ raised = 0 /\ dbRaised = 0 /\ dbTold = 0
  /\ caller = [c \in Callers |-> Idle]
  /\ queue = <<>> /\ urgent = <<>>
  /\ unlogged = 0 /\ alertDropped = FALSE /\ jobsDone = FALSE
  /\ worker = "wait" /\ flushing = FALSE /\ batch = EmptyBatch
  /\ message = NoMessage /\ attempt = 0 /\ told = 0
  /\ closing = "open"

----------------------------------------------------------------------------
(* Notify. *)

Calls(c, kind) ==
  /\ caller[c].pc = "idle" /\ ~jobsDone /\ raised < MaxEvents
  /\ raised' = raised + 1
  /\ dbRaised' = IF Global(kind) THEN dbRaised + 1 ELSE dbRaised

\* The select: into the queue of its kind if there is room.
Queue(c, kind) ==
  /\ Calls(c, kind)
  /\ \/ /\ Global(kind) /\ Len(urgent) < MaxGlobal
        /\ urgent' = Append(urgent, kind) /\ UNCHANGED queue
     \/ /\ ~Global(kind) /\ Len(queue) < QueueSize
        /\ queue' = Append(queue, kind) /\ UNCHANGED urgent
  /\ UNCHANGED <<caller, unlogged, alertDropped, jobsDone, worker, flushing,
                 batch, outVars, closing>>

\* Its default branch: the queue is full.
Drop(c, kind) ==
  /\ Calls(c, kind)
  /\ IF Global(kind) THEN Len(urgent) = MaxGlobal ELSE Len(queue) = QueueSize
  /\ caller' = [caller EXCEPT ![c] = [pc |-> "count", kind |-> kind]]
  /\ UNCHANGED <<queue, urgent, unlogged, alertDropped, jobsDone, worker,
                 flushing, batch, outVars, closing>>

\* unlogged.Add.
CountDrop(c) ==
  /\ caller[c].pc = "count"
  /\ unlogged' = unlogged + 1
  /\ caller' = [caller EXCEPT ![c] =
                  IF Alerting(@.kind) THEN [pc |-> "mark", kind |-> @.kind]
                  ELSE Idle]
  /\ UNCHANGED <<raised, dbRaised, queue, urgent, alertDropped, jobsDone, worker,
                 flushing, batch, outVars, closing>>

\* alertDropped.Store.
MarkDrop(c) ==
  /\ caller[c].pc = "mark"
  /\ alertDropped' = TRUE
  /\ caller' = [caller EXCEPT ![c] = Idle]
  /\ UNCHANGED <<raised, dbRaised, queue, urgent, unlogged, jobsDone, worker, flushing,
                 batch, outVars, closing>>

\* The scheduler has ended.
JobsEnd ==
  /\ ~jobsDone /\ \A c \in Callers : caller[c].pc = "idle"
  /\ jobsDone' = TRUE
  /\ UNCHANGED <<raised, dbRaised, caller, queue, urgent, unlogged, alertDropped, worker,
                 flushing, batch, outVars, closing>>

----------------------------------------------------------------------------
(* The worker: run, flush and send. *)

\* One more event, kept if there is room.
Gets(b, kind, room) ==
  [events |-> b.events + (IF room THEN 1 ELSE 0),
   globals |-> b.globals + (IF room /\ Global(kind) THEN 1 ELSE 0),
   extra |-> b.extra + (IF room THEN 0 ELSE 1),
   alert |-> b.alert \/ Alerting(kind)]

\* Wrong variants: every event is kept; one bound for all.
AddedUnbounded(b, kind) == Gets(b, kind, TRUE)

AddedOneBound(b, kind) == Gets(b, kind, b.events < QueueSize)

\* batch.add.
Added(b, kind) ==
  Gets(b, kind, IF Global(kind) THEN b.globals < MaxGlobal
                ELSE b.events - b.globals < QueueSize)

\* One event goes from a queue to the batch.
Take ==
  /\ \/ /\ queue # <<>>
        /\ batch' = Added(batch, Head(queue))
        /\ queue' = Tail(queue) /\ UNCHANGED urgent
     \/ /\ urgent # <<>>
        /\ batch' = Added(batch, Head(urgent))
        /\ urgent' = Tail(urgent) /\ UNCHANGED queue
  /\ UNCHANGED <<raised, dbRaised, caller, unlogged, alertDropped, jobsDone, flushing,
                 outVars, closing>>

\* The first event opens the window.
Collect == worker \in {"wait", "collect"} /\ Take /\ worker' = "collect"

Flush == worker = "flush" /\ Take /\ UNCHANGED worker

Goes(from, to) ==
  /\ worker = from /\ worker' = to
  /\ UNCHANGED <<inVars, batch, outVars, closing>>

WindowEnds == Goes("collect", "send") /\ UNCHANGED flushing

SeesStop ==
  /\ closing # "open" /\ flushing' = TRUE
  /\ \E from \in {"wait", "collect"} : Goes(from, "flush")

Flushed == queue = <<>> /\ urgent = <<>>

FlushEnds == Flushed /\ Goes("flush", "send") /\ UNCHANGED flushing

\* Wrong variant: the dropped events are logged and forgotten.
CountedLogOnly(b) == b

Counted(b) == [b EXCEPT !.extra = @ + unlogged]

\* unlogged.Swap.
SwapDrops ==
  /\ worker = "send" /\ worker' = "compose"
  /\ batch' = Counted(batch) /\ unlogged' = 0
  /\ UNCHANGED <<raised, dbRaised, caller, queue, urgent, alertDropped, jobsDone,
                 flushing, outVars, closing>>

Lesser(a, b) == IF a <= b THEN a ELSE b

\* How many events a message may list: an ntfy body is cut where a line no
\* longer fits.
Lines(b) == Lesser(MinLines, b.events)..Lesser(MaxLines, b.events)

\* Server-wide events come first.
Compose(b, lines, alert) ==
  [lines |-> lines, globals |-> Lesser(lines, b.globals),
   more |-> b.events - lines + b.extra, alert |-> alert]

Count(m) == m.lines + m.more

\* Wrong variant: run does not return after flush.
AfterMessageLoops == "wait"

AfterMessage == IF flushing THEN "done" ELSE "wait"

\* alertDropped.Swap; a message without events is not sent.
SwapAlert ==
  /\ worker = "compose"
  /\ alertDropped' = FALSE /\ batch' = EmptyBatch
  /\ IF batch.events = 0 /\ batch.extra = 0
     THEN worker' = AfterMessage /\ UNCHANGED <<message, attempt>>
     ELSE /\ worker' = "post" /\ attempt' = 1
          /\ \E lines \in Lines(batch) :
               message' = Compose(batch, lines, alertDropped \/ batch.alert)
  /\ UNCHANGED <<raised, dbRaised, caller, queue, urgent, unlogged, jobsDone, flushing,
                 told, dbTold, closing>>

----------------------------------------------------------------------------
(* deliver. *)

\* The delivery is over: the service has answered, or refused for good, or the
\* last try failed, or Close has cancelled it.
EndDelivery ==
  /\ told' = told + Count(message)
  /\ dbTold' = dbTold + message.globals
  /\ message' = NoMessage /\ attempt' = 0
  /\ worker' = AfterMessage
  /\ UNCHANGED <<inVars, flushing, batch, closing>>

Post == worker = "post" /\ EndDelivery

AnotherTry == attempt < MaxAttempts /\ closing # "cancelled"

\* A failure that may pass.
PostFails ==
  /\ AnotherTry /\ Goes("post", "backoff") /\ UNCHANGED flushing

Retry ==
  /\ worker = "backoff" /\ closing # "cancelled"
  /\ worker' = "post"
  /\ attempt' = Lesser(attempt + 1, MaxAttempts)
  /\ UNCHANGED <<inVars, flushing, batch, message, told, dbTold,
                 closing>>

CancelledInBackoff ==
  worker = "backoff" /\ closing = "cancelled" /\ EndDelivery

----------------------------------------------------------------------------
(* Close. *)

\* Wrong variant: the notifier is closed before the scheduler has ended.
MayCloseEarly == TRUE

\* run closes it after Scheduler.Wait.
MayClose == jobsDone

Close ==
  /\ closing = "open" /\ MayClose
  /\ closing' = "stop"
  /\ UNCHANGED <<inVars, worker, flushing, batch, outVars>>

\* FlushGrace is over, or the worker is done.
Cancel ==
  /\ closing = "stop" /\ closing' = "cancelled"
  /\ UNCHANGED <<inVars, worker, flushing, batch, outVars>>

\* Close returns, and the process ends.
Ended == closing = "cancelled" /\ worker = "done" /\ UNCHANGED vars

----------------------------------------------------------------------------
Notify(c) ==
  \/ \E kind \in Kinds : Queue(c, kind) \/ Drop(c, kind)
  \/ CountDrop(c) \/ MarkDrop(c)

Worker ==
  \/ Collect \/ WindowEnds \/ SeesStop \/ Flush \/ FlushEnds
  \/ SwapDrops \/ SwapAlert
  \/ Post \/ PostFails \/ Retry \/ CancelledInBackoff

Next == (\E c \in Callers : Notify(c)) \/ JobsEnd \/ Worker \/ Close \/ Cancel
          \/ Ended

Spec == Init /\ [][Next]_vars

\* The worker and the callers run, a delivery attempt has a timeout, and Close
\* waits no longer than FlushGrace.
Fairness ==
  /\ WF_vars(Worker) /\ WF_vars(Cancel)
  /\ \A c \in Callers : WF_vars(CountDrop(c)) /\ WF_vars(MarkDrop(c))

FairSpec == Spec /\ Fairness

----------------------------------------------------------------------------
(* Properties. *)

\* The variables keep their types, and neither a queue nor a batch outgrows its
\* bound.
TypeOK ==
  /\ raised \in 0..MaxEvents /\ dbRaised \in Nat /\ dbTold \in Nat
  /\ caller \in [Callers -> [pc: {"idle", "count", "mark"}, kind: AllKinds]]
  /\ queue \in Seq(Kinds) /\ Len(queue) <= QueueSize
  /\ urgent \in Seq(Kinds) /\ Len(urgent) <= MaxGlobal
  /\ unlogged \in Nat /\ told \in Nat
  /\ alertDropped \in BOOLEAN /\ jobsDone \in BOOLEAN /\ flushing \in BOOLEAN
  /\ worker \in {"wait", "collect", "flush", "send", "compose", "post",
                 "backoff", "done"}
  /\ batch \in [events: 0..(QueueSize + MaxGlobal), globals: Nat, extra: Nat,
                alert: BOOLEAN]
  /\ message \in [lines: 0..MaxLines, globals: Nat, more: Nat, alert: BOOLEAN]
  /\ attempt \in 0..MaxAttempts
  /\ closing \in {"open", "stop", "cancelled"}

\* Every event is told once: a line or part of the count of one message, also
\* when its queue was full, the message was, or the server stopped meanwhile;
\* once the worker is done, nothing waits to be told.
Dropping == {c \in Callers : caller[c].pc = "count"}
Queued == Len(queue) + Len(urgent)
Dropped == Cardinality(Dropping) + unlogged
Batched == batch.events + batch.extra
Owed == Queued + Dropped + Batched + Count(message)
Told == INSTANCE Ledger WITH owed <- Owed, told <- told,
                             closed <- worker = "done"
EventsTold == Told!Spec

\* Server-wide events that have or had a line.
Listed == batch.globals + message.globals + dbTold

\* As many server-wide events as their queue and a message surely have room for
\* are never crowded out: each one waits or is listed, however many feed events
\* fill the queue, the batch and the message.
DatabaseListed ==
  dbRaised <= Lesser(MaxGlobal, MinLines)
    => dbRaised = Len(urgent) + Listed

\* Close ends, whatever the service does, and an event that was queued is in a
\* message in the end, whose delivery ends too.
AllTold ==
  /\ closing = "stop" ~> worker = "done"
  /\ <>[](queue = <<>> /\ urgent = <<>> /\ batch = EmptyBatch
            /\ message = NoMessage)
=============================================================================
