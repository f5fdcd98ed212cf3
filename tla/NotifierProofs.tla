--------------------------- MODULE NotifierProofs ---------------------------
(***************************************************************************)
(* Every event is told once and none is left when the notifier closes, and *)
(* the database's events are not crowded out: proved of Notifier for every *)
(* number of callers and every bound of its queues, batches and messages.  *)
(***************************************************************************)
EXTENDS Notifier, FiniteSetTheorems, SequenceTheorems, TLAPS

----------------------------------------------------------------------------
(* The inductive invariant. *)

FeedKinds == {kind \in Kinds : ~Global(kind)}
GlobalKinds == {kind \in Kinds : Global(kind)}

\* Each queue has the events of its kind.
Sorted == queue \in Seq(FeedKinds) /\ urgent \in Seq(GlobalKinds)

\* What batch.add leaves room for.
BatchBound ==
  /\ batch.globals <= batch.events /\ batch.globals <= MaxGlobal
  /\ batch.events - batch.globals <= QueueSize

\* The notifier stops after the last call.
Stopping ==
  /\ flushing => closing # "open"
  /\ closing # "open" => jobsDone
  /\ jobsDone => \A c \in Callers : caller[c].pc = "idle"

\* What there is at each step of the worker.
Stages ==
  /\ worker \in {"wait", "collect"} => ~flushing
  /\ worker \in {"flush", "done"} => flushing
  /\ worker \in {"wait", "post", "backoff", "done"} => batch = EmptyBatch
  /\ worker \notin {"post", "backoff"} => message = NoMessage

\* Once the worker has flushed, nothing waits any more.
Flushes ==
  /\ flushing /\ worker # "flush" => queue = <<>> /\ urgent = <<>>
  /\ flushing /\ worker \notin {"flush", "send"} => unlogged = 0

Inv ==
  /\ TypeOK /\ Sorted /\ BatchBound /\ Stopping /\ Stages /\ Flushes
  /\ DatabaseListed

Done == worker = "done"

\* A step as the abstract specification has it: nothing is raised or told, an
\* event is raised, or a message is told.
Ledgered ==
  \/ Owed' = Owed /\ told' = told /\ (Done' <=> Done)
  \/ ~Done /\ ~Done' /\ Owed' = Owed + 1 /\ told' = told
  \/ /\ ~Done
     /\ \E n \in 0..Owed : Owed' = Owed - n /\ told' = told + n
     /\ Done' => Owed' = 0

StepOK == Inv' /\ Ledgered

----------------------------------------------------------------------------
(* The numbers. *)

CallerType == [pc: {"idle", "count", "mark"}, kind: AllKinds]

LEMMA FiniteDropping == IsFiniteSet(Dropping)
<1>1. Dropping \subseteq Callers
  BY DEF Dropping
<1> QED  BY <1>1, NotifierAssumption, FS_Subset

LEMMA Numbers ==
  ASSUME Inv
  PROVE  /\ Cardinality(Dropping) \in Nat
         /\ Len(queue) \in Nat /\ Len(urgent) \in Nat /\ unlogged \in Nat
         /\ batch.events \in Nat /\ batch.globals \in Nat
         /\ batch.extra \in Nat
         /\ message.lines \in Nat /\ message.more \in Nat
         /\ message.globals \in Nat
         /\ Count(message) = message.lines + message.more
         /\ Count(message) \in Nat
         /\ told \in Nat /\ dbRaised \in Nat /\ dbTold \in Nat
<1>1. Cardinality(Dropping) \in Nat
  BY FiniteDropping, FS_CardinalityType
<1>2. /\ queue \in Seq(FeedKinds) /\ urgent \in Seq(GlobalKinds)
      /\ unlogged \in Nat /\ told \in Nat /\ dbRaised \in Nat /\ dbTold \in Nat
  BY DEF Inv, TypeOK, Sorted
<1>3. /\ batch.events \in Nat /\ batch.globals \in Nat
      /\ batch.extra \in Nat
      /\ message.lines \in Nat /\ message.more \in Nat
      /\ message.globals \in Nat
  <2>1. QueueSize \in Nat /\ MaxGlobal \in Nat /\ MaxLines \in Nat
    BY NotifierAssumption
  <2> QED  BY <2>1 DEF Inv, TypeOK
<1>4. Len(queue) \in Nat /\ Len(urgent) \in Nat
  BY <1>2, LenProperties
<1> QED  BY <1>1, <1>2, <1>3, <1>4 DEF Count

\* One caller moves on.
LEMMA CallersMove ==
  ASSUME Inv, NEW c \in Callers, NEW r \in CallerType,
         caller' = [caller EXCEPT ![c] = r]
  PROVE  /\ caller' \in [Callers -> CallerType] /\ caller'[c] = r
         /\ \A d \in Callers \ {c} : caller'[d] = caller[d]
         /\ r.pc = "count" /\ c \notin Dropping =>
              Cardinality(Dropping') = Cardinality(Dropping) + 1
         /\ r.pc # "count" /\ c \in Dropping =>
              Cardinality(Dropping') = Cardinality(Dropping) - 1
         /\ (r.pc = "count" <=> c \in Dropping) => Dropping' = Dropping
<1>1. caller \in [Callers -> CallerType]
  BY DEF Inv, TypeOK, CallerType
<1>2. /\ caller' \in [Callers -> CallerType] /\ caller'[c] = r
      /\ \A d \in Callers \ {c} : caller'[d] = caller[d]
  BY <1>1
<1>3. Dropping' = IF r.pc = "count" THEN Dropping \union {c} ELSE Dropping \ {c}
  BY <1>2 DEF Dropping
<1>4. r.pc = "count" /\ c \notin Dropping =>
        Cardinality(Dropping') = Cardinality(Dropping) + 1
  BY <1>3, FiniteDropping, FS_AddElement
<1>5. r.pc # "count" /\ c \in Dropping =>
        Cardinality(Dropping') = Cardinality(Dropping) - 1
  BY <1>3, FiniteDropping, FS_RemoveElement
<1>6. (r.pc = "count" <=> c \in Dropping) => Dropping' = Dropping
  BY <1>3
<1> QED  BY <1>2, <1>4, <1>5, <1>6

\* The parts of what is owed.
LEMMA OwedIs ==
  ASSUME Inv
  PROVE  /\ Queued \in Nat /\ Dropped \in Nat /\ Batched \in Nat
         /\ Count(message) \in Nat /\ Owed \in Nat /\ Listed \in Nat
<1>1. /\ Len(queue) \in Nat /\ Len(urgent) \in Nat
      /\ Cardinality(Dropping) \in Nat /\ unlogged \in Nat
      /\ batch.events \in Nat /\ batch.extra \in Nat
      /\ Count(message) \in Nat
  BY Numbers
<1>2. batch.globals \in Nat /\ message.globals \in Nat /\ dbTold \in Nat
  BY Numbers
<1>3. Queued \in Nat /\ Dropped \in Nat /\ Batched \in Nat
  BY <1>1 DEF Queued, Dropped, Batched
<1>4. Owed \in Nat
  BY <1>1, <1>3 DEF Owed
<1>5. Listed \in Nat
  BY <1>2 DEF Listed
<1> QED  BY <1>1, <1>3, <1>4, <1>5

LEMMA Room ==
  /\ Lesser(MaxGlobal, MinLines) \in Nat
  /\ Lesser(MaxGlobal, MinLines) <= MaxGlobal
  /\ Lesser(MaxGlobal, MinLines) <= MinLines
BY NotifierAssumption DEF Lesser

----------------------------------------------------------------------------
(* Notify. *)

\* An event is raised only while the notifier is open.
LEMMA CallsWhileOpen ==
  ASSUME Inv, NEW c \in Callers, NEW kind \in Kinds, Calls(c, kind)
  PROVE  /\ ~Done /\ ~flushing /\ ~jobsDone /\ closing = "open"
         /\ raised' \in 0..MaxEvents
         /\ dbRaised' = IF Global(kind) THEN dbRaised + 1 ELSE dbRaised
         /\ dbRaised' \in Nat /\ dbRaised <= dbRaised'
         /\ c \notin Dropping
<1>1. /\ caller[c].pc = "idle" /\ ~jobsDone /\ raised < MaxEvents
      /\ raised' = raised + 1
      /\ dbRaised' = IF Global(kind) THEN dbRaised + 1 ELSE dbRaised
  BY DEF Calls
<1>2. closing = "open" /\ ~flushing /\ ~Done
  BY <1>1 DEF Inv, Stopping, Stages, Done
<1>3. raised' \in 0..MaxEvents
  BY <1>1, NotifierAssumption DEF Inv, TypeOK
<1>4. dbRaised' \in Nat /\ dbRaised <= dbRaised'
  BY <1>1, Numbers
<1>5. c \notin Dropping
  BY <1>1 DEF Dropping
<1> QED  BY <1>1, <1>2, <1>3, <1>4, <1>5

LEMMA QueueOK ==
  ASSUME Inv, NEW c \in Callers, NEW kind \in Kinds, Queue(c, kind)
  PROVE  StepOK
<1>1. /\ Calls(c, kind)
      /\ UNCHANGED <<caller, unlogged, alertDropped, jobsDone, worker, flushing,
                     batch, message, attempt, told, dbTold, closing>>
  BY DEF Queue, outVars
<1>2. \/ /\ Global(kind) /\ Len(urgent) < MaxGlobal
         /\ urgent' = Append(urgent, kind) /\ queue' = queue
      \/ /\ ~Global(kind) /\ Len(queue) < QueueSize
         /\ queue' = Append(queue, kind) /\ urgent' = urgent
  BY DEF Queue
<1>3. /\ queue' \in Seq(FeedKinds) /\ urgent' \in Seq(GlobalKinds)
      /\ Len(queue') \in Nat /\ Len(urgent') \in Nat
      /\ Len(queue') + Len(urgent') = Len(queue) + Len(urgent) + 1
      /\ Len(queue') <= QueueSize /\ Len(urgent') <= MaxGlobal
      /\ Len(urgent') = IF Global(kind) THEN Len(urgent) + 1 ELSE Len(urgent)
  <2>1. /\ Len(queue) <= QueueSize /\ Len(urgent) <= MaxGlobal
        /\ QueueSize \in Nat /\ MaxGlobal \in Nat
    BY NotifierAssumption DEF Inv, TypeOK
  <2>2. CASE Global(kind) /\ Len(urgent) < MaxGlobal
             /\ urgent' = Append(urgent, kind) /\ queue' = queue
    <3>1. kind \in GlobalKinds
      BY <2>2 DEF GlobalKinds
    <3>2. urgent' \in Seq(GlobalKinds) /\ Len(urgent') = Len(urgent) + 1
      BY <2>2, <3>1, AppendProperties DEF Inv, Sorted
    <3> QED  BY <2>1, <2>2, <3>2, Numbers DEF Inv, Sorted
  <2>3. CASE ~Global(kind) /\ Len(queue) < QueueSize
             /\ queue' = Append(queue, kind) /\ urgent' = urgent
    <3>1. kind \in FeedKinds
      BY <2>3 DEF FeedKinds
    <3>2. queue' \in Seq(FeedKinds) /\ Len(queue') = Len(queue) + 1
      BY <2>3, <3>1, AppendProperties DEF Inv, Sorted
    <3> QED  BY <2>1, <2>3, <3>2, Numbers DEF Inv, Sorted
  <2> QED  BY <1>2, <2>2, <2>3
<1>4. TypeOK'
  <2>1. queue' \in Seq(Kinds) /\ urgent' \in Seq(Kinds)
    BY <1>3 DEF FeedKinds, GlobalKinds
  <2> QED  BY <1>1, <1>3, <2>1, CallsWhileOpen DEF Inv, TypeOK
<1>5. Sorted' /\ BatchBound' /\ Stopping' /\ Stages' /\ Flushes'
  BY <1>1, <1>3, CallsWhileOpen
     DEF Inv, Sorted, BatchBound, Stopping, Stages, Flushes
<1>6. DatabaseListed'
  <2>1. Listed' = Listed
    BY <1>1 DEF Listed
  <2>2. CASE Global(kind)
    <3>1. dbRaised' = dbRaised + 1 /\ Len(urgent') = Len(urgent) + 1
      BY <1>1, <1>3, <2>2, CallsWhileOpen
    <3>2. /\ Listed \in Nat /\ Len(urgent) \in Nat /\ dbRaised \in Nat
          /\ Lesser(MaxGlobal, MinLines) \in Nat
      BY Room, OwedIs, Numbers
    <3>3. dbRaised' <= Lesser(MaxGlobal, MinLines)
            => dbRaised = Len(urgent) + Listed
      BY <3>1, <3>2 DEF Inv, DatabaseListed
    <3> QED  BY <2>1, <3>1, <3>2, <3>3 DEF DatabaseListed
  <2>3. CASE ~Global(kind)
    <3>1. dbRaised' = dbRaised /\ Len(urgent') = Len(urgent)
      BY <1>1, <1>3, <2>3, CallsWhileOpen
    <3> QED  BY <2>1, <3>1 DEF Inv, DatabaseListed
  <2> QED  BY <2>2, <2>3
<1>7. Ledgered
  <2>1. Owed' = Owed + 1
    <3>1. Dropping' = Dropping
      BY <1>1 DEF Dropping
    <3>2. Queued' = Queued + 1
      BY <1>3, Numbers DEF Queued
    <3>3. Dropped' = Dropped /\ Batched' = Batched /\ message' = message
      BY <1>1, <3>1 DEF Dropped, Batched
    <3> QED  BY <3>2, <3>3, OwedIs DEF Owed
  <2> QED  BY <1>1, <2>1, CallsWhileOpen DEF Ledgered, Done
<1> QED  BY <1>4, <1>5, <1>6, <1>7 DEF StepOK, Inv

\* A server-wide event is dropped only when more were raised than there is
\* surely room for.
LEMMA DropOK ==
  ASSUME Inv, NEW c \in Callers, NEW kind \in Kinds, Drop(c, kind)
  PROVE  StepOK
<1>1. /\ Calls(c, kind)
      /\ IF Global(kind) THEN Len(urgent) = MaxGlobal ELSE Len(queue) = QueueSize
      /\ caller' = [caller EXCEPT ![c] = [pc |-> "count", kind |-> kind]]
      /\ UNCHANGED <<queue, urgent, unlogged, alertDropped, jobsDone, worker,
                     flushing, batch, message, attempt, told, dbTold, closing>>
  BY DEF Drop, outVars
<1>2. [pc |-> "count", kind |-> kind] \in CallerType
  BY KindsAssumption DEF CallerType
<1>3. /\ caller' \in [Callers -> CallerType]
      /\ Cardinality(Dropping') = Cardinality(Dropping) + 1
  BY <1>1, <1>2, CallersMove, CallsWhileOpen
<1>4. TypeOK'
  BY <1>1, <1>3, CallsWhileOpen DEF Inv, TypeOK, CallerType
<1>5. Sorted' /\ BatchBound' /\ Stopping' /\ Stages' /\ Flushes'
  BY <1>1, CallsWhileOpen
     DEF Inv, Sorted, BatchBound, Stopping, Stages, Flushes
<1>6. DatabaseListed'
  <2>1. Listed' = Listed /\ Len(urgent') = Len(urgent)
    BY <1>1 DEF Listed
  <2>2. CASE Global(kind)
    <3>1. dbRaised' = dbRaised + 1 /\ Len(urgent) = MaxGlobal
      BY <1>1, <2>2, CallsWhileOpen
    <3>2. /\ Listed \in Nat /\ dbRaised \in Nat /\ MaxGlobal \in Nat
          /\ Lesser(MaxGlobal, MinLines) \in Nat
          /\ Lesser(MaxGlobal, MinLines) <= MaxGlobal
      BY Room, OwedIs, Numbers, NotifierAssumption
    <3>3. dbRaised' <= Lesser(MaxGlobal, MinLines)
            => dbRaised = Len(urgent) + Listed
      BY <3>1, <3>2 DEF Inv, DatabaseListed
    <3>4. ~(dbRaised' <= Lesser(MaxGlobal, MinLines))
      BY <3>1, <3>2, <3>3
    <3> QED  BY <3>4 DEF DatabaseListed
  <2>3. CASE ~Global(kind)
    <3>1. dbRaised' = dbRaised
      BY <1>1, <2>3, CallsWhileOpen
    <3> QED  BY <2>1, <3>1 DEF Inv, DatabaseListed
  <2> QED  BY <2>2, <2>3
<1>7. Ledgered
  <2>1. Dropped' = Dropped + 1
    BY <1>1, <1>3, Numbers DEF Dropped
  <2>2. Queued' = Queued /\ Batched' = Batched /\ message' = message
    BY <1>1 DEF Queued, Batched
  <2>3. Owed' = Owed + 1
    BY <2>1, <2>2, OwedIs DEF Owed
  <2> QED  BY <1>1, <2>3, CallsWhileOpen DEF Ledgered, Done
<1> QED  BY <1>4, <1>5, <1>6, <1>7 DEF StepOK, Inv

\* A caller that counts or marks a drop is one the scheduler waits for.
LEMMA BusyCaller ==
  ASSUME Inv, NEW c \in Callers, caller[c].pc # "idle"
  PROVE  ~jobsDone /\ ~flushing /\ ~Done
BY DEF Inv, Stopping, Stages, Done

LEMMA CountDropOK ==
  ASSUME Inv, NEW c \in Callers, CountDrop(c)
  PROVE  StepOK
<1> DEFINE r == IF Alerting(caller[c].kind)
                THEN [pc |-> "mark", kind |-> caller[c].kind] ELSE Idle
<1>1. /\ caller[c].pc = "count" /\ unlogged' = unlogged + 1
      /\ caller' = [caller EXCEPT ![c] =
                      IF Alerting(@.kind) THEN [pc |-> "mark", kind |-> @.kind]
                      ELSE Idle]
      /\ UNCHANGED <<raised, dbRaised, queue, urgent, alertDropped, jobsDone,
                     worker, flushing, batch, message, attempt, told, dbTold,
                     closing>>
  BY DEF CountDrop, outVars
<1>2. caller \in [Callers -> CallerType]
  BY DEF Inv, TypeOK, CallerType
<1>3. r \in CallerType /\ r.pc # "count"
  BY <1>2 DEF CallerType, Idle, AllKinds
<1>4. caller' = [caller EXCEPT ![c] = r]
  BY <1>1, <1>2
<1> HIDE DEF r
<1>5. c \in Dropping
  BY <1>1 DEF Dropping
<1>6. /\ caller' \in [Callers -> CallerType]
      /\ Cardinality(Dropping') = Cardinality(Dropping) - 1
  BY <1>3, <1>4, <1>5, CallersMove
<1>7. ~jobsDone /\ ~flushing /\ ~Done
  BY <1>1, BusyCaller
<1>8. TypeOK'
  <2>1. unlogged' \in Nat
    BY <1>1 DEF Inv, TypeOK
  <2> QED  BY <1>1, <1>6, <2>1 DEF Inv, TypeOK, CallerType
<1>9. Sorted' /\ BatchBound' /\ Stopping' /\ Stages' /\ Flushes'
  BY <1>1, <1>7
     DEF Inv, Sorted, BatchBound, Stopping, Stages, Flushes
<1>10. DatabaseListed'
  BY <1>1 DEF Inv, DatabaseListed, Listed
<1>11. Ledgered
  <2>1. Dropped' = Dropped
    BY <1>1, <1>6, Numbers DEF Dropped
  <2>2. Queued' = Queued /\ Batched' = Batched /\ message' = message
    BY <1>1 DEF Queued, Batched
  <2>3. Owed' = Owed
    BY <2>1, <2>2 DEF Owed
  <2> QED  BY <1>1, <2>3 DEF Ledgered, Done
<1> QED  BY <1>8, <1>9, <1>10, <1>11 DEF StepOK, Inv

LEMMA MarkDropOK ==
  ASSUME Inv, NEW c \in Callers, MarkDrop(c)
  PROVE  StepOK
<1>1. /\ caller[c].pc = "mark" /\ alertDropped' = TRUE
      /\ caller' = [caller EXCEPT ![c] = Idle]
      /\ UNCHANGED <<raised, dbRaised, queue, urgent, unlogged, jobsDone,
                     worker, flushing, batch, message, attempt, told, dbTold,
                     closing>>
  BY DEF MarkDrop, outVars
<1>2. Idle \in CallerType /\ Idle.pc = "idle" /\ c \notin Dropping
  BY <1>1 DEF CallerType, Idle, AllKinds, Dropping
<1>3. caller' \in [Callers -> CallerType] /\ Dropping' = Dropping
  BY <1>1, <1>2, CallersMove
<1>4. ~jobsDone /\ ~flushing /\ ~Done
  BY <1>1, BusyCaller
<1>5. TypeOK'
  BY <1>1, <1>3 DEF Inv, TypeOK, CallerType
<1>6. Sorted' /\ BatchBound' /\ Stopping' /\ Stages' /\ Flushes'
  BY <1>1, <1>4
     DEF Inv, Sorted, BatchBound, Stopping, Stages, Flushes
<1>7. DatabaseListed'
  BY <1>1 DEF Inv, DatabaseListed, Listed
<1>8. Ledgered
  <2>1. Owed' = Owed
    BY <1>1, <1>3 DEF Owed, Queued, Dropped, Batched
  <2> QED  BY <1>1, <2>1 DEF Ledgered, Done
<1> QED  BY <1>5, <1>6, <1>7, <1>8 DEF StepOK, Inv

----------------------------------------------------------------------------
(* The worker. *)

\* A batch with one more event.
LEMMA AddedOK ==
  ASSUME Inv, NEW kind \in Kinds, worker \in {"wait", "collect", "flush"},
         batch' = Added(batch, kind),
         UNCHANGED <<message, dbTold, unlogged, caller>>
  PROVE  /\ batch' \in [events: 0..(QueueSize + MaxGlobal), globals: Nat,
                         extra: Nat, alert: BOOLEAN]
         /\ BatchBound' /\ Batched' = Batched + 1
         /\ ~Global(kind) => Listed' = Listed
         /\ Global(kind) /\ batch.globals < MaxGlobal => Listed' = Listed + 1
<1> DEFINE room == IF Global(kind) THEN batch.globals < MaxGlobal
                   ELSE batch.events - batch.globals < QueueSize
<1>1. /\ batch' = [events |-> batch.events + (IF room THEN 1 ELSE 0),
                   globals |-> batch.globals
                                 + (IF room /\ Global(kind) THEN 1 ELSE 0),
                   extra |-> batch.extra + (IF room THEN 0 ELSE 1),
                   alert |-> batch.alert \/ Alerting(kind)]
  BY DEF Added, Gets
<1>2. /\ batch'.events = batch.events + (IF room THEN 1 ELSE 0)
      /\ batch'.globals = batch.globals + (IF room /\ Global(kind) THEN 1 ELSE 0)
      /\ batch'.extra = batch.extra + (IF room THEN 0 ELSE 1)
  BY <1>1
<1>3. /\ batch.events \in Nat /\ batch.globals \in Nat /\ batch.extra \in Nat
  BY Numbers
<1>4. /\ batch.globals <= batch.events /\ batch.globals <= MaxGlobal
      /\ batch.events - batch.globals <= QueueSize
      /\ MaxGlobal \in Nat /\ QueueSize \in Nat
  BY NotifierAssumption DEF Inv, BatchBound
<1>5. CASE room
  <2>1. CASE Global(kind)
    <3>1. /\ batch'.events = batch.events + 1 /\ batch'.extra = batch.extra
          /\ batch'.globals = batch.globals + 1 /\ batch.globals < MaxGlobal
      BY <1>2, <1>3, <1>5, <2>1
    <3>2. BatchBound'
      BY <1>3, <1>4, <3>1 DEF BatchBound
    <3>3. /\ batch'.events \in 0..(QueueSize + MaxGlobal)
          /\ batch'.globals \in Nat /\ batch'.extra \in Nat
      BY <1>3, <1>4, <3>1
    <3>4. Batched' = Batched + 1
      BY <1>3, <3>1 DEF Batched
    <3>5. Listed' = Listed + 1
      <4>1. message.globals \in Nat /\ dbTold \in Nat
        BY Numbers
      <4> QED  BY <1>3, <3>1, <4>1 DEF Listed
    <3>6. batch' \in [events: 0..(QueueSize + MaxGlobal), globals: Nat,
                      extra: Nat, alert: BOOLEAN]
      <4>1. (batch.alert \/ Alerting(kind)) \in BOOLEAN
        OBVIOUS
      <4> QED  BY <1>1, <1>2, <3>3, <4>1
    <3> QED  BY <2>1, <3>2, <3>4, <3>5, <3>6
  <2>2. CASE ~Global(kind)
    <3>1. /\ batch'.events = batch.events + 1 /\ batch'.extra = batch.extra
          /\ batch'.globals = batch.globals
          /\ batch.events - batch.globals < QueueSize
      BY <1>2, <1>3, <1>5, <2>2
    <3>2. BatchBound'
      BY <1>3, <1>4, <3>1 DEF BatchBound
    <3>3. /\ batch'.events \in 0..(QueueSize + MaxGlobal)
          /\ batch'.globals \in Nat /\ batch'.extra \in Nat
      BY <1>3, <1>4, <3>1
    <3>4. Batched' = Batched + 1
      BY <1>3, <3>1 DEF Batched
    <3>5. Listed' = Listed
      BY <3>1 DEF Listed
    <3>6. batch' \in [events: 0..(QueueSize + MaxGlobal), globals: Nat,
                      extra: Nat, alert: BOOLEAN]
      <4>1. (batch.alert \/ Alerting(kind)) \in BOOLEAN
        OBVIOUS
      <4> QED  BY <1>1, <1>2, <3>3, <4>1
    <3> QED  BY <2>2, <3>2, <3>4, <3>5, <3>6
  <2> QED  BY <2>1, <2>2
<1>6. CASE ~room
  <2>1. /\ batch'.events = batch.events /\ batch'.extra = batch.extra + 1
        /\ batch'.globals = batch.globals
        /\ ~(Global(kind) /\ batch.globals < MaxGlobal)
    BY <1>2, <1>3, <1>6
  <2>2. BatchBound'
    BY <1>4, <2>1 DEF BatchBound
  <2>3. /\ batch'.events \in 0..(QueueSize + MaxGlobal)
        /\ batch'.globals \in Nat /\ batch'.extra \in Nat
    BY <1>3, <2>1 DEF Inv, TypeOK
  <2>4. Batched' = Batched + 1
    BY <1>3, <2>1 DEF Batched
  <2>5. Listed' = Listed
    BY <2>1 DEF Listed
  <2>6. batch' \in [events: 0..(QueueSize + MaxGlobal), globals: Nat,
                    extra: Nat, alert: BOOLEAN]
    <3>1. (batch.alert \/ Alerting(kind)) \in BOOLEAN
      OBVIOUS
    <3> QED  BY <1>1, <1>2, <2>3, <3>1
  <2> QED  BY <2>1, <2>2, <2>4, <2>5, <2>6
<1> QED  BY <1>5, <1>6

\* An event goes from its queue to the batch.
LEMMA TakeOK ==
  ASSUME Inv, Take, worker \in {"wait", "collect", "flush"},
         worker' = IF worker = "flush" THEN "flush" ELSE "collect"
  PROVE  StepOK
<1>1. UNCHANGED <<raised, dbRaised, caller, unlogged, alertDropped, jobsDone,
                  flushing, message, attempt, told, dbTold, closing>>
  BY DEF Take, outVars
<1>2. /\ queue \in Seq(FeedKinds) /\ urgent \in Seq(GlobalKinds)
      /\ Len(queue) <= QueueSize /\ Len(urgent) <= MaxGlobal
      /\ QueueSize \in Nat /\ MaxGlobal \in Nat
  BY NotifierAssumption DEF Inv, TypeOK, Sorted
<1>3. /\ queue' \in Seq(FeedKinds) /\ urgent' \in Seq(GlobalKinds)
      /\ Len(queue') <= QueueSize /\ Len(urgent') <= MaxGlobal
      /\ batch' \in [events: 0..(QueueSize + MaxGlobal), globals: Nat,
                     extra: Nat, alert: BOOLEAN]
      /\ BatchBound' /\ Batched' = Batched + 1 /\ Queued' = Queued - 1
      /\ DatabaseListed'
  <2>1. CASE /\ queue # <<>>
             /\ batch' = Added(batch, Head(queue))
             /\ queue' = Tail(queue) /\ UNCHANGED urgent
    <3>1. Head(queue) \in FeedKinds /\ queue' \in Seq(FeedKinds)
      BY <1>2, <2>1, HeadTailProperties
    <3>2. Len(queue') = Len(queue) - 1
      BY <1>2, <2>1, HeadTailProperties
    <3>3. Head(queue) \in Kinds /\ ~Global(Head(queue))
      BY <3>1 DEF FeedKinds
    <3>4. /\ batch' \in [events: 0..(QueueSize + MaxGlobal), globals: Nat,
                         extra: Nat, alert: BOOLEAN]
          /\ BatchBound' /\ Batched' = Batched + 1 /\ Listed' = Listed
      BY <1>1, <2>1, <3>3, AddedOK
    <3>5. Queued' = Queued - 1
      <4>1. Len(queue) \in Nat /\ Len(urgent) \in Nat
        BY Numbers
      <4> QED  BY <2>1, <3>2, <4>1 DEF Queued
    <3>6. Len(queue') <= QueueSize
      BY <1>2, <3>2, Numbers
    <3>7. DatabaseListed'
      BY <1>1, <2>1, <3>4 DEF Inv, DatabaseListed
    <3> QED  BY <1>2, <2>1, <3>1, <3>4, <3>5, <3>6, <3>7
  <2>2. CASE /\ urgent # <<>>
             /\ batch' = Added(batch, Head(urgent))
             /\ urgent' = Tail(urgent) /\ UNCHANGED queue
    <3>1. Head(urgent) \in GlobalKinds /\ urgent' \in Seq(GlobalKinds)
      BY <1>2, <2>2, HeadTailProperties
    <3>2. Len(urgent') = Len(urgent) - 1 /\ Len(urgent) # 0
      <4>1. Len(urgent') = Len(urgent) - 1
        BY <1>2, <2>2, HeadTailProperties
      <4>2. Len(urgent) # 0
        BY <1>2, <2>2, EmptySeq
      <4> QED  BY <4>1, <4>2
    <3>3. Head(urgent) \in Kinds /\ Global(Head(urgent))
      BY <3>1 DEF GlobalKinds
    <3>4. /\ batch' \in [events: 0..(QueueSize + MaxGlobal), globals: Nat,
                         extra: Nat, alert: BOOLEAN]
          /\ BatchBound' /\ Batched' = Batched + 1
          /\ batch.globals < MaxGlobal => Listed' = Listed + 1
      BY <1>1, <2>2, <3>3, AddedOK
    <3>5. Queued' = Queued - 1
      <4>1. Len(queue) \in Nat /\ Len(urgent) \in Nat
        BY Numbers
      <4> QED  BY <2>2, <3>2, <4>1 DEF Queued
    <3>6. Len(urgent') <= MaxGlobal
      BY <1>2, <3>2, Numbers
    <3>7. DatabaseListed'
      <4> SUFFICES ASSUME dbRaised <= Lesser(MaxGlobal, MinLines)
                   PROVE  dbRaised = Len(urgent') + Listed'
        BY <1>1 DEF DatabaseListed
      <4>1. dbRaised = Len(urgent) + Listed
        BY DEF Inv, DatabaseListed
      <4>2. /\ batch.globals \in Nat /\ message.globals \in Nat
            /\ dbTold \in Nat /\ Len(urgent) \in Nat /\ dbRaised \in Nat
            /\ Listed \in Nat
        BY Numbers, OwedIs
      <4>3. batch.globals <= Listed
        BY <4>2 DEF Listed
      <4>4. dbRaised <= MaxGlobal
        BY <4>2, <1>2, Room
      <4>5. batch.globals < MaxGlobal
        BY <1>2, <3>2, <4>1, <4>2, <4>3, <4>4
      <4> QED  BY <3>2, <3>4, <4>1, <4>2, <4>5
    <3> QED  BY <1>2, <2>2, <3>1, <3>4, <3>5, <3>6, <3>7
  <2> QED  BY <2>1, <2>2 DEF Take
<1>4. TypeOK'
  <2>1. queue' \in Seq(Kinds) /\ urgent' \in Seq(Kinds)
    BY <1>3 DEF FeedKinds, GlobalKinds
  <2> QED  BY <1>1, <1>3, <2>1 DEF Inv, TypeOK
<1>5. Sorted' /\ Stopping' /\ Stages' /\ Flushes'
  BY <1>1, <1>3 DEF Inv, Sorted, Stopping, Stages, Flushes
<1>6. Ledgered
  <2>1. Dropped' = Dropped /\ message' = message
    BY <1>1 DEF Dropped, Dropping
  <2>2. Owed' = Owed
    BY <1>3, <2>1, OwedIs DEF Owed
  <2> QED  BY <1>1, <2>2 DEF Ledgered, Done
<1> QED  BY <1>3, <1>4, <1>5, <1>6 DEF StepOK, Inv

\* A step of the worker's that moves no event.
LEMMA WorkerMoves ==
  ASSUME Inv, UNCHANGED <<inVars, batch, outVars>>,
         worker' \in {"wait", "collect", "flush", "send", "compose", "post",
                     "backoff", "done"},
         flushing' \in BOOLEAN, closing' \in {"open", "stop", "cancelled"},
         Stopping', Stages', Flushes', Done' <=> Done
  PROVE  StepOK
<1>1. UNCHANGED <<raised, dbRaised, caller, queue, urgent, unlogged,
                  alertDropped, jobsDone, batch, message, attempt, told, dbTold>>
  BY DEF inVars, outVars
<1>2. TypeOK' /\ Sorted' /\ BatchBound'
  BY <1>1 DEF Inv, TypeOK, Sorted, BatchBound
<1>3. DatabaseListed'
  BY <1>1 DEF Inv, DatabaseListed, Listed
<1>4. Owed' = Owed /\ told' = told
  BY <1>1 DEF Owed, Queued, Dropped, Dropping, Batched
<1> QED  BY <1>2, <1>3, <1>4 DEF StepOK, Inv, Ledgered

LEMMA JobsEndOK ==
  ASSUME Inv, JobsEnd
  PROVE  StepOK
<1>1. /\ jobsDone' = TRUE /\ \A c \in Callers : caller[c].pc = "idle"
      /\ UNCHANGED <<raised, dbRaised, caller, queue, urgent, unlogged,
                     alertDropped, worker, flushing, batch, message, attempt,
                     told, dbTold, closing>>
  BY DEF JobsEnd, outVars
<1>2. TypeOK' /\ Sorted' /\ BatchBound'
  BY <1>1 DEF Inv, TypeOK, Sorted, BatchBound
<1>3. Stopping' /\ Stages' /\ Flushes'
  BY <1>1 DEF Inv, Stopping, Stages, Flushes
<1>4. DatabaseListed'
  BY <1>1 DEF Inv, DatabaseListed, Listed
<1>5. Owed' = Owed /\ told' = told /\ Done' = Done
  BY <1>1 DEF Owed, Queued, Dropped, Dropping, Batched, Done
<1> QED  BY <1>2, <1>3, <1>4, <1>5 DEF StepOK, Inv, Ledgered

LEMMA WindowEndsOK ==
  ASSUME Inv, WindowEnds
  PROVE  StepOK
<1>1. /\ worker = "collect" /\ worker' = "send"
      /\ UNCHANGED <<inVars, batch, outVars, closing, flushing>>
  BY DEF WindowEnds, Goes
<1>2. Stopping' /\ Stages' /\ Flushes'
  BY <1>1 DEF Inv, Stopping, Stages, Flushes, inVars, outVars
<1>3. /\ flushing' \in BOOLEAN /\ closing' \in {"open", "stop", "cancelled"}
  BY <1>1 DEF Inv, TypeOK
<1> QED  BY <1>1, <1>2, <1>3, WorkerMoves DEF Done

LEMMA SeesStopOK ==
  ASSUME Inv, SeesStop
  PROVE  StepOK
<1>1. /\ worker \in {"wait", "collect"} /\ worker' = "flush"
      /\ closing # "open" /\ flushing' = TRUE
      /\ UNCHANGED <<inVars, batch, outVars, closing>>
  BY DEF SeesStop, Goes
<1>2. Stopping' /\ Stages' /\ Flushes'
  BY <1>1 DEF Inv, Stopping, Stages, Flushes, inVars, outVars
<1>3. /\ flushing' \in BOOLEAN /\ closing' \in {"open", "stop", "cancelled"}
  BY <1>1 DEF Inv, TypeOK
<1> QED  BY <1>1, <1>2, <1>3, WorkerMoves DEF Done

LEMMA FlushEndsOK ==
  ASSUME Inv, FlushEnds
  PROVE  StepOK
<1>1. /\ worker = "flush" /\ worker' = "send" /\ queue = <<>> /\ urgent = <<>>
      /\ UNCHANGED <<inVars, batch, outVars, closing, flushing>>
  BY DEF FlushEnds, Goes, Flushed
<1>2. Stopping' /\ Stages' /\ Flushes'
  BY <1>1 DEF Inv, Stopping, Stages, Flushes, inVars, outVars
<1>3. /\ flushing' \in BOOLEAN /\ closing' \in {"open", "stop", "cancelled"}
  BY <1>1 DEF Inv, TypeOK
<1> QED  BY <1>1, <1>2, <1>3, WorkerMoves DEF Done

LEMMA PostFailsOK ==
  ASSUME Inv, PostFails
  PROVE  StepOK
<1>1. /\ worker = "post" /\ worker' = "backoff"
      /\ UNCHANGED <<inVars, batch, outVars, closing, flushing>>
  BY DEF PostFails, Goes
<1>2. Stopping' /\ Stages' /\ Flushes'
  BY <1>1 DEF Inv, Stopping, Stages, Flushes, inVars, outVars
<1>3. /\ flushing' \in BOOLEAN /\ closing' \in {"open", "stop", "cancelled"}
  BY <1>1 DEF Inv, TypeOK
<1> QED  BY <1>1, <1>2, <1>3, WorkerMoves DEF Done

\* Close and its grace change only what they say.
LEMMA CloseOK ==
  ASSUME Inv, Close \/ Cancel
  PROVE  StepOK
<1>1. /\ closing' \in {"stop", "cancelled"}
      /\ closing = "open" => jobsDone
      /\ UNCHANGED <<inVars, worker, flushing, batch, outVars>>
  BY DEF Close, Cancel, MayClose
<1>2. Stopping' /\ Stages' /\ Flushes'
  BY <1>1 DEF Inv, Stopping, Stages, Flushes, inVars, outVars
<1>3. /\ flushing' \in BOOLEAN /\ closing' \in {"open", "stop", "cancelled"}
      /\ worker' \in {"wait", "collect", "flush", "send", "compose", "post",
                      "backoff", "done"}
  BY <1>1 DEF Inv, TypeOK
<1> QED  BY <1>1, <1>2, <1>3, WorkerMoves DEF Done

LEMMA RetryOK ==
  ASSUME Inv, Retry
  PROVE  StepOK
<1>1. /\ worker = "backoff" /\ worker' = "post"
      /\ attempt' = Lesser(attempt + 1, MaxAttempts)
      /\ UNCHANGED <<raised, dbRaised, caller, queue, urgent, unlogged,
                     alertDropped, jobsDone, flushing, batch, message, told,
                     dbTold, closing>>
  BY DEF Retry, inVars
<1>2. attempt' \in 0..MaxAttempts
  BY <1>1, NotifierAssumption DEF Inv, TypeOK, Lesser
<1>3. TypeOK' /\ Sorted' /\ BatchBound'
  BY <1>1, <1>2 DEF Inv, TypeOK, Sorted, BatchBound
<1>4. Stopping' /\ Stages' /\ Flushes'
  BY <1>1 DEF Inv, Stopping, Stages, Flushes
<1>5. DatabaseListed'
  BY <1>1 DEF Inv, DatabaseListed, Listed
<1>6. Owed' = Owed /\ told' = told /\ (Done' <=> Done)
  BY <1>1 DEF Owed, Queued, Dropped, Dropping, Batched, Done
<1> QED  BY <1>3, <1>4, <1>5, <1>6 DEF StepOK, Inv, Ledgered

\* The events dropped so far go into the message's count.
LEMMA SwapDropsOK ==
  ASSUME Inv, SwapDrops
  PROVE  StepOK
<1>1. /\ worker = "send" /\ worker' = "compose"
      /\ batch' = [batch EXCEPT !.extra = @ + unlogged] /\ unlogged' = 0
      /\ UNCHANGED <<raised, dbRaised, caller, queue, urgent, alertDropped,
                     jobsDone, flushing, message, attempt, told, dbTold, closing>>
  BY DEF SwapDrops, Counted, outVars
<1>2. /\ batch \in [events: 0..(QueueSize + MaxGlobal), globals: Nat, extra: Nat,
                    alert: BOOLEAN]
      /\ unlogged \in Nat
  BY DEF Inv, TypeOK
<1>3. /\ batch' \in [events: 0..(QueueSize + MaxGlobal), globals: Nat,
                     extra: Nat, alert: BOOLEAN]
      /\ batch'.events = batch.events /\ batch'.globals = batch.globals
      /\ batch'.extra = batch.extra + unlogged
  <2>1. batch.extra + unlogged \in Nat
    BY <1>2
  <2> QED  BY <1>1, <1>2, <2>1
<1>4. TypeOK' /\ Sorted' /\ BatchBound'
  BY <1>1, <1>3 DEF Inv, TypeOK, Sorted, BatchBound
<1>5. Stopping' /\ Stages' /\ Flushes'
  BY <1>1 DEF Inv, Stopping, Stages, Flushes
<1>6. DatabaseListed'
  BY <1>1, <1>3 DEF Inv, DatabaseListed, Listed
<1>7. Owed' = Owed
  <2>1. /\ batch.events \in Nat /\ batch.extra \in Nat
        /\ Cardinality(Dropping) \in Nat
    BY Numbers
  <2>2. Batched' = Batched + unlogged
    BY <1>2, <1>3, <2>1 DEF Batched
  <2>3. Dropping' = Dropping
    BY <1>1 DEF Dropping
  <2>4. Dropped' = Dropped - unlogged
    BY <1>1, <1>2, <2>1, <2>3 DEF Dropped
  <2>5. Queued' = Queued /\ message' = message
    BY <1>1 DEF Queued
  <2> QED  BY <1>2, <2>2, <2>4, <2>5, OwedIs DEF Owed
<1> QED  BY <1>1, <1>4, <1>5, <1>6, <1>7 DEF StepOK, Inv, Ledgered, Done

\* After the flush and its swap, a message holds all that is owed.
LEMMA LastMessage ==
  ASSUME Inv, flushing, worker \in {"compose", "post", "backoff"}
  PROVE  Queued = 0 /\ Dropped = 0
<1>1. queue = <<>> /\ urgent = <<>> /\ unlogged = 0
  BY DEF Inv, Flushes
<1>2. Queued = 0
  BY <1>1, EmptySeq DEF Queued
<1>3. Dropping = {}
  BY DEF Inv, Stopping, Dropping
<1>4. Dropped = 0
  BY <1>1, <1>3, FS_EmptySet DEF Dropped
<1> QED  BY <1>2, <1>4

\* A message has a line or counts for every event of its batch, and lists the
\* server-wide ones first.
LEMMA ComposeOK ==
  ASSUME Inv, NEW lines \in Lines(batch), NEW alert \in BOOLEAN,
         message' = Compose(batch, lines, alert)
  PROVE  /\ message' \in [lines: 0..MaxLines, globals: Nat, more: Nat,
                           alert: BOOLEAN]
         /\ Count(message') = Batched
         /\ batch.globals <= MinLines => message'.globals = batch.globals
<1>1. /\ batch.events \in Nat /\ batch.globals \in Nat /\ batch.extra \in Nat
      /\ batch.globals <= batch.events
  BY Numbers DEF Inv, BatchBound
<1>2. /\ lines \in Nat /\ lines <= batch.events /\ lines <= MaxLines
      /\ IF MinLines <= batch.events THEN MinLines <= lines
         ELSE lines = batch.events
  <2>1. /\ MinLines \in Nat /\ MaxLines \in Nat /\ MinLines <= MaxLines
    BY NotifierAssumption
  <2>2. lines \in Lesser(MinLines, batch.events)..Lesser(MaxLines, batch.events)
    BY DEF Lines
  <2>3. CASE MinLines <= batch.events
    BY <1>1, <2>1, <2>2, <2>3 DEF Lesser
  <2>4. CASE ~(MinLines <= batch.events)
    <3>1. Lesser(MinLines, batch.events) = batch.events
      BY <2>4 DEF Lesser
    <3>2. Lesser(MaxLines, batch.events) = batch.events
      BY <1>1, <2>1, <2>4 DEF Lesser
    <3>3. lines = batch.events
      BY <1>1, <2>2, <3>1, <3>2
    <3> QED  BY <1>1, <2>1, <2>4, <3>3
  <2> QED  BY <2>3, <2>4
<1>3. /\ message'.lines = lines /\ message'.globals = Lesser(lines, batch.globals)
      /\ message'.more = batch.events - lines + batch.extra
      /\ message' = [lines |-> lines, globals |-> Lesser(lines, batch.globals),
                     more |-> batch.events - lines + batch.extra,
                     alert |-> alert]
  BY DEF Compose
<1>4. message' \in [lines: 0..MaxLines, globals: Nat, more: Nat, alert: BOOLEAN]
  <2>1. Lesser(lines, batch.globals) \in Nat
    BY <1>1, <1>2 DEF Lesser
  <2>2. batch.events - lines + batch.extra \in Nat
    BY <1>1, <1>2
  <2>3. lines \in 0..MaxLines
    BY <1>2, NotifierAssumption
  <2> QED  BY <1>3, <2>1, <2>2, <2>3
<1>5. Count(message') = Batched
  BY <1>1, <1>2, <1>3 DEF Count, Batched
<1>6. ASSUME batch.globals <= MinLines
      PROVE  message'.globals = batch.globals
  <2>1. batch.globals <= lines
    BY <1>1, <1>2, <1>6, NotifierAssumption
  <2> QED  BY <1>1, <1>2, <1>3, <2>1 DEF Lesser
<1> QED  BY <1>4, <1>5, <1>6

LEMMA SwapAlertOK ==
  ASSUME Inv, SwapAlert
  PROVE  StepOK
<1>1. /\ worker = "compose" /\ alertDropped' = FALSE /\ batch' = EmptyBatch
      /\ IF batch.events = 0 /\ batch.extra = 0
         THEN worker' = AfterMessage /\ UNCHANGED <<message, attempt>>
         ELSE /\ worker' = "post" /\ attempt' = 1
              /\ \E lines \in Lines(batch) :
                   message' = Compose(batch, lines, alertDropped \/ batch.alert)
      /\ UNCHANGED <<raised, dbRaised, caller, queue, urgent, unlogged, jobsDone,
                     flushing, told, dbTold, closing>>
  BY DEF SwapAlert
<1>2. /\ EmptyBatch.events = 0 /\ EmptyBatch.globals = 0 /\ EmptyBatch.extra = 0
      /\ EmptyBatch \in [events: 0..(QueueSize + MaxGlobal), globals: Nat,
                         extra: Nat, alert: BOOLEAN]
  BY NotifierAssumption DEF EmptyBatch
<1>3. BatchBound' /\ Sorted' /\ Stopping'
  BY <1>1, <1>2, NotifierAssumption DEF Inv, BatchBound, Sorted, Stopping
<1>4. /\ message = NoMessage /\ Count(message) = 0 /\ message.globals = 0
  BY <1>1 DEF Inv, Stages, NoMessage, Count
<1>5. /\ Batched' = 0 /\ Queued' = Queued /\ Dropped' = Dropped
      /\ Queued \in Nat /\ Dropped \in Nat /\ Batched \in Nat
      /\ Owed = Queued + Dropped + Batched
  <2>1. Batched' = 0
    BY <1>1, <1>2 DEF Batched
  <2>2. Queued' = Queued /\ Dropped' = Dropped
    BY <1>1 DEF Queued, Dropped, Dropping
  <2> QED  BY <1>4, <2>1, <2>2, OwedIs DEF Owed
<1>6. CASE batch.events = 0 /\ batch.extra = 0
  <2>1. worker' = AfterMessage /\ UNCHANGED <<message, attempt>>
    BY <1>1, <1>6
  <2>2. worker' = IF flushing THEN "done" ELSE "wait"
    BY <2>1 DEF AfterMessage
  <2>3. TypeOK'
    BY <1>1, <1>2, <2>1, <2>2 DEF Inv, TypeOK
  <2>4. Stages' /\ Flushes'
    BY <1>1, <1>4, <2>1, <2>2 DEF Inv, Stages, Flushes
  <2>5. batch.globals = 0 /\ Batched = 0
    <3>1. batch.globals = 0
      BY <1>6, Numbers DEF Inv, BatchBound
    <3> QED  BY <1>6, <3>1 DEF Batched
  <2>6. DatabaseListed'
    <3>1. Listed' = Listed
      BY <1>1, <1>2, <2>1, <2>5 DEF Listed
    <3> QED  BY <1>1, <3>1 DEF Inv, DatabaseListed
  <2>7. Owed' = Owed
    BY <1>5, <2>1, <2>5 DEF Owed
  <2>8. Ledgered
    <3>1. CASE flushing
      <4>1. Owed = 0
        BY <1>1, <1>4, <2>5, <3>1, LastMessage DEF Owed
      <4>2. ~Done /\ told' = told /\ Owed' = 0
        BY <1>1, <2>7, <4>1 DEF Done
      <4>3. 0 \in 0..Owed /\ Owed' = Owed - 0 /\ told' = told + 0
        BY <4>1, <4>2, Numbers
      <4> QED  BY <4>2, <4>3 DEF Ledgered
    <3>2. CASE ~flushing
      BY <1>1, <2>2, <2>7, <3>2 DEF Ledgered, Done
    <3> QED  BY <3>1, <3>2
  <2> QED  BY <1>3, <2>3, <2>4, <2>6, <2>8 DEF StepOK, Inv
<1>7. CASE ~(batch.events = 0 /\ batch.extra = 0)
  <2>1. /\ worker' = "post" /\ attempt' = 1
        /\ \E lines \in Lines(batch) :
             message' = Compose(batch, lines, alertDropped \/ batch.alert)
    BY <1>1, <1>7
  <2>2. PICK lines \in Lines(batch) :
          message' = Compose(batch, lines, alertDropped \/ batch.alert)
    BY <2>1
  <2>3. (alertDropped \/ batch.alert) \in BOOLEAN
    OBVIOUS
  <2>4. /\ message' \in [lines: 0..MaxLines, globals: Nat, more: Nat,
                          alert: BOOLEAN]
        /\ Count(message') = Batched
        /\ batch.globals <= MinLines => message'.globals = batch.globals
    BY <2>2, <2>3, ComposeOK
  <2>5. attempt' \in 0..MaxAttempts
    BY <2>1, NotifierAssumption
  <2>6. TypeOK'
    BY <1>1, <1>2, <2>1, <2>4, <2>5 DEF Inv, TypeOK
  <2>7. Stages' /\ Flushes'
    BY <1>1, <2>1 DEF Inv, Stages, Flushes
  <2>8. DatabaseListed'
    <3> SUFFICES ASSUME dbRaised <= Lesser(MaxGlobal, MinLines)
                 PROVE  dbRaised = Len(urgent) + Listed'
      BY <1>1 DEF DatabaseListed
    <3>1. dbRaised = Len(urgent) + Listed
      BY DEF Inv, DatabaseListed
    <3>2. /\ batch.globals \in Nat /\ dbTold \in Nat /\ Len(urgent) \in Nat
          /\ dbRaised \in Nat /\ Listed \in Nat
      BY Numbers, OwedIs
    <3>3. Listed = batch.globals + dbTold
      BY <1>4, <3>2 DEF Listed
    <3>4. batch.globals <= MinLines
      BY <3>1, <3>2, <3>3, Room, NotifierAssumption
    <3>5. Listed' = message'.globals + dbTold
      BY <1>1, <1>2, <2>4, <3>2 DEF Listed
    <3> QED  BY <2>4, <3>1, <3>3, <3>4, <3>5
  <2>9. Owed' = Owed
    BY <1>5, <2>4 DEF Owed
  <2>10. Ledgered
    BY <1>1, <2>1, <2>9 DEF Ledgered, Done
  <2> QED  BY <1>3, <2>6, <2>7, <2>8, <2>10 DEF StepOK, Inv
<1> QED  BY <1>6, <1>7

\* The end of a delivery tells what its message lists and counts.
LEMMA EndDeliveryOK ==
  ASSUME Inv, worker \in {"post", "backoff"}, EndDelivery
  PROVE  StepOK
<1>1. /\ told' = told + Count(message) /\ dbTold' = dbTold + message.globals
      /\ message' = NoMessage /\ attempt' = 0
      /\ worker' = IF flushing THEN "done" ELSE "wait"
      /\ UNCHANGED <<raised, dbRaised, caller, queue, urgent, unlogged,
                     alertDropped, jobsDone, flushing, batch, closing>>
  BY DEF EndDelivery, AfterMessage, inVars
<1>2. /\ NoMessage.lines = 0 /\ NoMessage.globals = 0 /\ NoMessage.more = 0
      /\ NoMessage \in [lines: 0..MaxLines, globals: Nat, more: Nat,
                        alert: BOOLEAN]
      /\ Count(NoMessage) = 0
  BY NotifierAssumption DEF NoMessage, Count
<1>3. /\ batch = EmptyBatch /\ Batched = 0 /\ batch.globals = 0
  BY DEF Inv, Stages, EmptyBatch, Batched
<1>4. TypeOK'
  <2>1. told' \in Nat /\ dbTold' \in Nat
    <3>1. /\ told \in Nat /\ dbTold \in Nat /\ Count(message) \in Nat
          /\ message.globals \in Nat
      BY Numbers
    <3> QED  BY <1>1, <3>1
  <2>2. attempt' \in 0..MaxAttempts
    BY <1>1, NotifierAssumption
  <2> QED  BY <1>1, <1>2, <2>1, <2>2 DEF Inv, TypeOK
<1>5. BatchBound' /\ Sorted' /\ Stopping' /\ Stages' /\ Flushes'
  BY <1>1 DEF Inv, BatchBound, Sorted, Stopping, Stages, Flushes
<1>6. DatabaseListed'
  <2>1. message.globals \in Nat /\ dbTold \in Nat
    BY Numbers
  <2>2. Listed' = Listed
    BY <1>1, <1>2, <1>3, <2>1 DEF Listed
  <2> QED  BY <1>1, <2>2 DEF Inv, DatabaseListed
<1>7. Ledgered
  <2>1. Owed' = Owed - Count(message) /\ Count(message) \in 0..Owed
    <3>1. Queued' = Queued /\ Dropped' = Dropped /\ Batched' = 0
      BY <1>1, <1>3 DEF Queued, Dropped, Dropping, Batched
    <3>2. Owed = Queued + Dropped + Count(message)
      BY <1>3, OwedIs DEF Owed
    <3>3. Owed' = Queued + Dropped
      BY <1>1, <1>2, <3>1, OwedIs DEF Owed
    <3> QED  BY <3>2, <3>3, OwedIs
  <2>2. flushing => Owed' = 0
    <3>1. ASSUME flushing
          PROVE  Owed = Count(message)
      BY <1>3, <3>1, LastMessage, OwedIs DEF Owed
    <3> QED  BY <2>1, <3>1, OwedIs
  <2> QED  BY <1>1, <2>1, <2>2 DEF Ledgered, Done
<1> QED  BY <1>4, <1>5, <1>6, <1>7 DEF StepOK, Inv

----------------------------------------------------------------------------
(* The theorems. *)

LEMMA InitOK ==
  ASSUME Init
  PROVE  Inv /\ Owed = 0 /\ told = 0 /\ ~Done
<1>1. /\ raised = 0 /\ dbRaised = 0 /\ dbTold = 0
      /\ caller = [c \in Callers |-> Idle]
      /\ queue = <<>> /\ urgent = <<>>
      /\ unlogged = 0 /\ alertDropped = FALSE /\ jobsDone = FALSE
      /\ worker = "wait" /\ flushing = FALSE /\ batch = EmptyBatch
      /\ message = NoMessage /\ attempt = 0 /\ told = 0
      /\ closing = "open"
  BY DEF Init
<1>2. /\ Len(<<>>) = 0 /\ <<>> \in Seq(Kinds)
      /\ <<>> \in Seq(FeedKinds) /\ <<>> \in Seq(GlobalKinds)
  BY EmptySeq
<1>3. Idle \in CallerType /\ Idle.pc = "idle"
  BY DEF CallerType, Idle, AllKinds
<1>4. TypeOK
  <2>1. /\ QueueSize \in Nat /\ MaxGlobal \in Nat /\ MaxLines \in Nat
        /\ MaxAttempts \in Nat /\ MaxEvents \in Nat
    BY NotifierAssumption
  <2>2. EmptyBatch \in [events: 0..(QueueSize + MaxGlobal), globals: Nat,
                        extra: Nat, alert: BOOLEAN]
    BY <2>1 DEF EmptyBatch
  <2>3. NoMessage \in [lines: 0..MaxLines, globals: Nat, more: Nat,
                       alert: BOOLEAN]
    BY <2>1 DEF NoMessage
  <2>4. caller \in [Callers -> CallerType]
    BY <1>1, <1>3
  <2>5. /\ Len(queue) <= QueueSize /\ Len(urgent) <= MaxGlobal
        /\ queue \in Seq(Kinds) /\ urgent \in Seq(Kinds)
    BY <1>1, <1>2, <2>1
  <2>6. /\ raised \in 0..MaxEvents /\ attempt \in 0..MaxAttempts
        /\ batch = EmptyBatch /\ message = NoMessage
    BY <1>1, <2>1
  <2> QED
    BY <1>1, <2>2, <2>3, <2>4, <2>5, <2>6 DEF TypeOK, CallerType
<1>5. Sorted /\ BatchBound /\ Stopping /\ Stages /\ Flushes
  BY <1>1, <1>2, NotifierAssumption
     DEF Sorted, BatchBound, Stopping, Stages, Flushes, EmptyBatch
<1>6. DatabaseListed
  BY <1>1, <1>2 DEF DatabaseListed, Listed, EmptyBatch, NoMessage
<1>7. Dropping = {}
  BY <1>1, <1>3 DEF Dropping
<1>8. Owed = 0
  <2>1. Queued = 0 /\ Dropped = 0
    BY <1>1, <1>2, <1>7, FS_EmptySet DEF Queued, Dropped
  <2>2. Batched = 0 /\ Count(message) = 0
    BY <1>1 DEF Batched, Count, EmptyBatch, NoMessage
  <2> QED  BY <2>1, <2>2 DEF Owed
<1> QED  BY <1>1, <1>4, <1>5, <1>6, <1>8 DEF Inv, Done

LEMMA WorkerOK ==
  ASSUME Inv, Worker
  PROVE  StepOK
<1>1. CASE Collect
  BY <1>1, TakeOK DEF Collect
<1>2. CASE Flush
  BY <1>2, TakeOK DEF Flush
<1>3. CASE Post
  BY <1>3, EndDeliveryOK DEF Post
<1>4. CASE CancelledInBackoff
  BY <1>4, EndDeliveryOK DEF CancelledInBackoff
<1> QED
  BY <1>1, <1>2, <1>3, <1>4, WindowEndsOK, SeesStopOK, FlushEndsOK, SwapDropsOK,
     SwapAlertOK, PostFailsOK, RetryOK DEF Worker

LEMMA NextOK ==
  ASSUME Inv, [Next]_vars
  PROVE  StepOK
<1>1. ASSUME NEW c \in Callers, Notify(c)
      PROVE  StepOK
  BY <1>1, QueueOK, DropOK, CountDropOK, MarkDropOK DEF Notify
<1>2. CASE UNCHANGED vars
  <2>1. /\ UNCHANGED <<inVars, batch, outVars>>
        /\ UNCHANGED <<worker, flushing, closing>>
    BY <1>2 DEF vars
  <2>2. Stopping' /\ Stages' /\ Flushes'
    BY <2>1 DEF Inv, Stopping, Stages, Flushes, inVars, outVars
  <2>3. /\ flushing' \in BOOLEAN /\ closing' \in {"open", "stop", "cancelled"}
        /\ worker' \in {"wait", "collect", "flush", "send", "compose", "post",
                        "backoff", "done"}
    BY <2>1 DEF Inv, TypeOK
  <2> QED  BY <2>1, <2>2, <2>3, WorkerMoves DEF Done
<1> QED
  BY <1>1, <1>2, JobsEndOK, WorkerOK, CloseOK DEF Next, Ended

LEMMA InvAlways == Spec => []Inv
<1>1. Init => Inv
  BY InitOK
<1>2. Inv /\ [Next]_vars => Inv'
  BY NextOK DEF StepOK
<1> QED  BY <1>1, <1>2, PTL DEF Spec

\* Neither a queue nor a batch nor a message outgrows its bound, whatever the
\* order of calls, drops, deliveries and the shutdown.
THEOREM Bounded == Spec => []TypeOK
<1>1. Inv => TypeOK
  BY DEF Inv
<1> QED  BY <1>1, InvAlways, PTL

\* As many server-wide events as there is surely room for are never crowded out
\* by feed events: each waits or has a line in a message.
THEOREM DatabaseHeard == Spec => []DatabaseListed
<1>1. Inv => DatabaseListed
  BY DEF Inv
<1> QED  BY <1>1, InvAlways, PTL

\* The notifier implements Ledger: every event is told once, as a line or in a
\* count, and none is left when the worker is done.
THEOREM NotifierImplementsLedger == Spec => EventsTold
<1> DEFINE done == worker = "done"
<1>1. Init => Told!Init
  BY InitOK DEF Told!Init, Done
<1>2. Inv /\ [Next]_vars => [Told!Raise \/ Told!Tell]_<<Owed, told, done>>
  <2> SUFFICES ASSUME Inv, [Next]_vars
               PROVE  [Told!Raise \/ Told!Tell]_<<Owed, told, done>>
    OBVIOUS
  <2>1. Ledgered
    BY NextOK DEF StepOK
  <2>2. CASE Owed' = Owed /\ told' = told /\ (Done' <=> Done)
    BY <2>2 DEF Done
  <2>3. CASE ~Done /\ ~Done' /\ Owed' = Owed + 1 /\ told' = told
    BY <2>3 DEF Told!Raise, Done
  <2>4. CASE /\ ~Done
             /\ \E n \in 0..Owed : Owed' = Owed - n /\ told' = told + n
             /\ Done' => Owed' = 0
    BY <2>4 DEF Told!Tell, Done
  <2> QED  BY <2>1, <2>2, <2>3, <2>4 DEF Ledgered
<1> QED  BY InvAlways, <1>1, <1>2, PTL DEF Spec, EventsTold, Told!Spec
============================================================================
