--------------------------- MODULE LockedUpgrade ---------------------------
(***************************************************************************)
(* How the application opens a PostgreSQL database: OpenPostgres creates   *)
(* the tables of an empty one, or upgrades an older schema in a second     *)
(* transaction.  Both take an advisory lock, so starts that overlap, as    *)
(* when a container is replaced, run one after the other.  A limit, or a   *)
(* stop signal, ends a start while the server may still be running a       *)
(* statement that holds the lock; only an upgrade waits for its end.       *)
(***************************************************************************)
EXTENDS Naturals

CONSTANTS
  CurrentSchema,  \* currentSchema
  Processes,      \* starts that may overlap
  MaxStarts       \* bound: starts in all

VARIABLES
  schema,     \* the committed schema, 0 for an empty database
  proc,       \* per process: next step, the version it read, its statements
  holder,     \* who holds the advisory lock: a process, a left session, none
  running,    \* the server is running a statement of the holder
  starts,
  \* History.
  applied,    \* how often each step of the migration has been committed
  unsent      \* no process waited for the end of the left session's statement:
              \* killed, before its upgrade, or the request did not get through

lockVars == <<schema, proc, holder, running, starts, applied, unsent>>

NoOne == "none"
Left == "left"        \* a session whose process has gone

Off == [pc |-> "off", read |-> 0, done |-> 0]

\* What the constants are; MCParts has it as its assumption.
LockAssumption ==
  /\ CurrentSchema \in Nat \ {0} /\ MaxStarts \in Nat
  /\ {NoOne, Left} \intersect Processes = {}

LockInit ==
  /\ schema \in 0 .. CurrentSchema + 1
  /\ proc = [p \in Processes |-> Off]
  /\ holder = NoOne /\ running = FALSE /\ starts = 0
  /\ applied = [v \in 1 .. CurrentSchema |-> 0] /\ unsent = FALSE

----------------------------------------------------------------------------

Goto(p, step) == proc' = [proc EXCEPT ![p].pc = step]

Exit(p) == proc' = [proc EXCEPT ![p] = Off]

\* The end of the holder's transaction, with what it leaves committed.
EndsTransaction(version, steps) ==
  /\ holder' = NoOne /\ running' = FALSE
  /\ schema' = version
  /\ applied' = [v \in DOMAIN applied |->
                   IF v \in steps THEN applied[v] + 1 ELSE applied[v]]

RollsBack == EndsTransaction(schema, {})

StartProcess(p) ==
  /\ proc[p].pc = "off" /\ starts < MaxStarts /\ starts' = starts + 1
  /\ Goto(p, "lock_initialize")
  /\ UNCHANGED <<schema, holder, running, applied, unsent>>

AwaitsLock(p) == proc[p].pc \in {"lock_initialize", "lock_upgrade"}

\* lockPostgresSchema: the lock, which its transaction keeps.
Lock(p) ==
  /\ AwaitsLock(p) /\ holder = NoOne /\ holder' = p
  /\ Goto(p, IF proc[p].pc = "lock_initialize" THEN "look" ELSE "look_again")
  /\ UNCHANGED <<schema, running, starts, applied, unsent>>

\* lock_timeout ends the wait, and the start.  The wait of a process that has
\* gone ends so too, or when it is granted the lock, which it gives back at once.
LockTimeout(p) ==
  /\ AwaitsLock(p) /\ holder # NoOne /\ Exit(p)
  /\ UNCHANGED <<schema, holder, running, starts, applied, unsent>>

\* What the transactions run under the lock: lockPostgresSchema's statements and
\* the tables of an empty database, taken as one, or a step of the migration.
Looking(p) == proc[p].pc \in {"look", "look_again"} /\ holder = p

RunStatement(p) ==
  /\ \/ Looking(p)
     \/ proc[p].pc = "migrate" /\ proc[p].done < CurrentSchema
  /\ ~running /\ running' = TRUE
  /\ UNCHANGED <<schema, proc, holder, starts, applied, unsent>>

\* initializePostgres, once it has read the version.
CreateTables(p) ==
  /\ proc[p].pc = "look" /\ schema = 0
  /\ EndsTransaction(CurrentSchema, {}) /\ UNCHANGED <<starts, unsent>>
  /\ \/ Goto(p, "up")
     \/ Exit(p)    \* the answer is lost

FindCurrent(p) ==
  /\ proc[p].pc = "look" /\ schema = CurrentSchema
  /\ RollsBack /\ Goto(p, "up") /\ UNCHANGED <<starts, unsent>>

\* An older schema: this transaction ends, and gives the lock away.
FindOlder(p) ==
  /\ proc[p].pc = "look" /\ schema \in 1 .. CurrentSchema - 1
  /\ RollsBack /\ UNCHANGED <<starts, unsent>>
  /\ proc' = [proc EXCEPT ![p] =
       [pc |-> "lock_upgrade", read |-> schema, done |-> schema]]

\* A schema of a later release, or a statement the server answers with an
\* error.
InitializeFails(p) ==
  /\ Looking(p)
  /\ RollsBack /\ Exit(p) /\ UNCHANGED <<starts, unsent>>

\* The connection of p is gone.  The server notices at the end of a statement.
Abandons(p) ==
  /\ holder' = IF holder # p THEN holder ELSE IF running THEN Left ELSE NoOne
  /\ unsent' = (unsent \/ (holder = p /\ running))
  /\ Exit(p) /\ UNCHANGED <<schema, running, starts, applied>>

\* The limit of the start or of the upgrade passes, or a stop signal arrives,
\* before the upgrade has registered its cancellation.  The driver sends one
\* from a goroutine, which may end the transaction (InitializeFails); the
\* process does not wait for it.
StartLimit(p) == Looking(p) /\ running /\ Abandons(p)

\* Wrong variant: the version read before the lock was given away.
VersionReadFirst(p) == proc[p].read

\* upgradePostgres reads the version again under the lock.
VersionUnderLock(p) == schema

AlreadyUpgraded(p) ==
  /\ proc[p].pc = "look_again" /\ VersionUnderLock(p) = CurrentSchema
  /\ RollsBack /\ Goto(p, "up") /\ UNCHANGED <<starts, unsent>>

BeginUpgrade(p) ==
  /\ proc[p].pc = "look_again" /\ VersionUnderLock(p) # CurrentSchema
  /\ proc' = [proc EXCEPT ![p] =
       [pc |-> "migrate", read |-> VersionUnderLock(p),
        done |-> VersionUnderLock(p)]]
  /\ running' = FALSE
  /\ UNCHANGED <<schema, holder, starts, applied, unsent>>

\* migratePostgres, step by step.
StatementEnds(p) ==
  /\ proc[p].pc = "migrate" /\ running /\ running' = FALSE
  /\ proc' = [proc EXCEPT ![p].done = @ + 1]
  /\ UNCHANGED <<schema, holder, starts, applied, unsent>>

Committed(p) ==
  EndsTransaction(CurrentSchema, proc[p].read + 1 .. CurrentSchema)

CommitUpgrade(p) ==
  /\ proc[p].pc = "migrate" /\ proc[p].done = CurrentSchema
  /\ Committed(p) /\ UNCHANGED <<starts, unsent>>
  /\ \/ Goto(p, "up")
     \/ Exit(p)    \* the answer is lost, or a signal was caught meanwhile

\* A statement of the migration fails, before the limit.
MigrationFails(p) ==
  /\ proc[p].pc = "migrate" /\ running
  /\ RollsBack /\ Exit(p) /\ UNCHANGED <<starts, unsent>>

\* Wrong variant: the process exits without asking the server to stop.
InterruptedExits(p) ==
  /\ Exit(p) /\ holder' = Left /\ UNCHANGED running

\* The driver drops the connection; AfterFunc asks the server to cancel the
\* statement, and the deferred function waits for the answer.
InterruptedCancels(p) ==
  /\ Goto(p, "cancel") /\ UNCHANGED <<holder, running>>

\* The limit passes, or a stop signal arrives.
Interrupted(p) ==
  /\ proc[p].pc = "migrate" /\ InterruptedCancels(p)
  /\ UNCHANGED <<schema, starts, applied, unsent>>

Canceled(p) ==
  /\ proc[p].pc = "cancel"
  /\ RollsBack /\ Exit(p) /\ UNCHANGED <<starts, unsent>>

\* The request does not get through within its five seconds.
CancelFails(p) == proc[p].pc = "cancel" /\ Abandons(p)

KillProcess(p) == proc[p].pc # "off" /\ Abandons(p)

\* The left statement ends, or reaches statement_timeout: with nobody there to
\* commit, the server rolls its transaction back.
LeftSessionEnds ==
  /\ holder = Left /\ holder' = NoOne /\ running' = FALSE /\ unsent' = FALSE
  /\ UNCHANGED <<schema, proc, starts, applied>>

LockNext ==
  \/ \E p \in Processes :
       \/ StartProcess(p) \/ Lock(p) \/ LockTimeout(p)
       \/ CreateTables(p) \/ FindCurrent(p) \/ FindOlder(p) \/ InitializeFails(p)
       \/ StartLimit(p)
       \/ AlreadyUpgraded(p) \/ BeginUpgrade(p) \/ RunStatement(p)
       \/ StatementEnds(p) \/ CommitUpgrade(p) \/ MigrationFails(p)
       \/ Interrupted(p) \/ Canceled(p) \/ CancelFails(p) \/ KillProcess(p)
  \/ LeftSessionEnds

LockSpec == LockInit /\ [][LockNext]_lockVars

----------------------------------------------------------------------------
(* Properties. *)

Steps ==
  {"off", "lock_initialize", "look", "lock_upgrade", "look_again", "migrate",
   "cancel", "up"}

LockTypeOK ==
  /\ schema \in 0 .. CurrentSchema + 1
  /\ proc \in [Processes -> [pc : Steps, read : 0 .. CurrentSchema,
                             done : 0 .. CurrentSchema]]
  /\ holder \in Processes \union {NoOne, Left}
  /\ running \in BOOLEAN /\ starts \in 0 .. MaxStarts
  /\ applied \in [1 .. CurrentSchema -> 0 .. MaxStarts] /\ unsent \in BOOLEAN

\* However starts overlap and end, a step of the migration is committed once
\* at most, all that follow it with it, and a process serves only the current
\* schema.
UpgradedOnce ==
  /\ \A v \in DOMAIN applied : applied[v] <= 1
  /\ \A v \in DOMAIN applied : applied[v] = 1 => schema = CurrentSchema
  /\ \A p \in Processes : proc[p].pc = "up" => schema = CurrentSchema

\* An upgrade that its limit or a signal ends leaves no statement holding the
\* lock against the next start, unless the server could not be asked to stop.
\* Excused are a process that is killed, and one whose start ends before its
\* upgrade registers the cancellation, which nobody waits for.
LeftLockExcused == holder = Left => unsent
=============================================================================
