--------------------------- MODULE CopiedUpgrade ---------------------------
(***************************************************************************)
(* How the application opens an SQLite database: rows left behind by       *)
(* deleted feeds are removed, an older schema is copied to a directory     *)
(* beside the database, and the upgrade runs in one transaction.  The      *)
(* process may be killed between any two steps, and the machine may lose   *)
(* power, which keeps only what was flushed.                               *)
(*                                                                         *)
(* The contents of a database are the number of writes it has seen; a      *)
(* checksum tells exactly these and the schema apart.  While the           *)
(* application is down an older release may run on the database.           *)
(***************************************************************************)
EXTENDS Naturals, FiniteSets

CONSTANTS
  Current,     \* currentSchema
  Dirs,        \* directories below backups/
  MaxWrites,   \* bound: writes of the rows
  MaxOutages   \* bound: losses of power

VARIABLES
  db,        \* the database file: schema (0 for none), data, orphans
  at,        \* the next step of the start, "down" or "up"
  skip,      \* OpenOptions.SkipUpgradeBackup of this start
  pending,   \* the schema inside the upgrade's transaction
  mine,      \* the partial directory this start made
  dirs,      \* what every directory below backups/ holds
  outages,
  \* History.
  begun,     \* the database at the start of this attempt
  origin,    \* the database that the last copied upgrade replaced
  loose      \* a start relied on a copy whose name was never flushed

upgradeVars ==
  <<db, at, skip, pending, mine, dirs, outages, begun, origin, loose>>

None == "none"
Schemas == 0 .. Current + 1        \* Current + 1: a later release's
Database == [schema : Schemas, data : 0 .. MaxWrites, orphans : BOOLEAN]

NoDatabase == [schema |-> 0, data |-> 0, orphans |-> FALSE]

\* A copy is of a database; "torn" is one that VACUUM INTO has not finished.
\* flushed: what a loss of power leaves.
Flushes == {"copy", "manifest", "name"}
Copy == [name : {"none", "partial", "final"}, of : Database, torn : BOOLEAN,
         manifest : BOOLEAN, flushed : SUBSET Flushes]
NoCopy == [name |-> "none", of |-> NoDatabase, torn |-> FALSE,
           manifest |-> FALSE, flushed |-> Flushes]

Named(name) == {d \in Dirs : dirs[d].name = name}
Partial == Named("partial")
Final == Named("final")

StartSteps ==
  {"down", "orphans", "sweep", "space", "make", "vacuum", "verify",
   "reuse", "manifest", "sync_copy", "sync_partial", "rename",
   "sync_parent", "begin", "migrate", "wal", "up"}

\* What the constants are; MCParts has it as its assumption.
UpgradeAssumption ==
  /\ Current \in Nat \ {0} /\ MaxWrites \in Nat /\ MaxOutages \in Nat
  /\ None \notin Dirs /\ IsFiniteSet(Dirs)

Supported(schema) == schema \in 1 .. Current

UpgradeInit ==
  /\ db \in [schema : Schemas, data : {0}, orphans : BOOLEAN]
  /\ db.schema = 0 => ~db.orphans
  /\ at = "down" /\ skip = FALSE /\ pending = 0 /\ mine = None
  /\ dirs = [d \in Dirs |-> NoCopy]
  /\ outages = 0 /\ begun = db /\ origin = NoDatabase /\ loose = FALSE

----------------------------------------------------------------------------
(* A start, step by step. *)

Go(step) == at' = step

\* The process ends; a transaction that has not committed is gone.
Ended == at' = "down" /\ pending' = 0 /\ mine' = None

\* OpenWithOptions reads the schema.  Only a supported one is touched before
\* the checks of initializeSQLite.
Start(withoutCopy) ==
  /\ at = "down" /\ skip' = withoutCopy /\ begun' = db
  /\ Go(IF Supported(db.schema) THEN "orphans" ELSE "begin")
  /\ UNCHANGED <<db, pending, mine, dirs, outages, origin, loose>>

\* What follows removeOrphanedRows.
AfterOrphans ==
  IF db.schema < Current /\ ~skip THEN "sweep" ELSE "begin"

RemoveOrphanedRows ==
  /\ at = "orphans" /\ db' = [db EXCEPT !.orphans = FALSE]
  /\ Go(AfterOrphans)
  /\ UNCHANGED <<skip, pending, mine, dirs, outages, begun, origin, loose>>

\* Wrong variant: copies that a kill left behind stay.
SweptNever(d) == dirs[d]

\* removeAbandonedCopies goes by the prefix of the name.
Swept(d) == IF d \in Partial THEN NoCopy ELSE dirs[d]

RemoveAbandonedCopies ==
  /\ at = "sweep" /\ Go("space")
  /\ dirs' = [d \in Dirs |-> Swept(d)]
  /\ UNCHANGED <<db, skip, pending, mine, outages, begun, origin, loose>>

CheckCopySpace ==
  /\ at = "space" /\ Go("make")
  /\ UNCHANGED <<db, skip, pending, mine, dirs, outages, begun, origin, loose>>

\* MkdirTemp, and VACUUM INTO begins to write.
MakePartial(d) ==
  /\ at = "make" /\ dirs[d] = NoCopy /\ mine' = d
  /\ dirs' = [dirs EXCEPT ![d] =
       [name |-> "partial", of |-> db, torn |-> TRUE, manifest |-> FALSE,
        flushed |-> {}]]
  /\ Go("vacuum")
  /\ UNCHANGED <<db, skip, pending, outages, begun, origin, loose>>

\* VACUUM INTO returns without an error: the copy is written, not flushed.
VacuumInto ==
  /\ at = "vacuum" /\ dirs' = [dirs EXCEPT ![mine].torn = FALSE]
  /\ Go("verify")
  /\ UNCHANGED <<db, skip, pending, mine, outages, begun, origin, loose>>

\* verifyCopy and the comparison of the counts.
Verifies(copy) == ~copy.torn /\ ~copy.of.orphans /\ copy.of = db

VerifyCopy ==
  /\ at = "verify" /\ Verifies(dirs[mine]) /\ Go("reuse")
  /\ UNCHANGED <<db, skip, pending, mine, dirs, outages, begun, origin, loose>>

\* identicalCopy goes by the manifest's schema and checksum.
Identical == {d \in Final : dirs[d].manifest /\ dirs[d].of = dirs[mine].of}

Reusable == Identical

Discarded == [dirs EXCEPT ![mine] = NoCopy]

\* An earlier copy serves, and the new one is removed.
ReuseCopy ==
  /\ at = "reuse" /\ \E d \in Reusable :
       loose' = (loose \/ "name" \notin dirs[d].flushed)
  /\ dirs' = Discarded /\ mine' = None /\ Go("begin")
  /\ UNCHANGED <<db, skip, pending, outages, begun, origin>>

KeepCopy ==
  /\ at = "reuse" /\ Reusable = {} /\ Go("manifest")
  /\ UNCHANGED <<db, skip, pending, mine, dirs, outages, begun, origin, loose>>

\* writeSynced flushes the file it writes.
WriteManifest ==
  /\ at = "manifest" /\ Go("sync_copy")
  /\ dirs' = [dirs EXCEPT ![mine].manifest = TRUE]
  /\ UNCHANGED <<db, skip, pending, mine, outages, begun, origin, loose>>

\* Wrong variant: the copy's bytes are left to the operating system.
CopyFlushedNever == dirs

\* syncPath on the copy: its bytes survive, though not yet its entry.
CopyFlushed == [dirs EXCEPT ![mine].flushed = @ \union {"copy"}]

SyncCopy ==
  /\ at = "sync_copy" /\ dirs' = CopyFlushed /\ Go("sync_partial")
  /\ UNCHANGED <<db, skip, pending, mine, outages, begun, origin, loose>>

\* syncDirectory on the partial directory: the entries of its two files.
SyncPartial ==
  /\ at = "sync_partial" /\ Go("rename")
  /\ dirs' = [dirs EXCEPT ![mine].flushed = @ \union {"manifest"}]
  /\ UNCHANGED <<db, skip, pending, mine, outages, begun, origin, loose>>

Rename ==
  /\ at = "rename" /\ Go("sync_parent") /\ mine' = None
  /\ dirs' = [dirs EXCEPT ![mine].name = "final"]
  /\ UNCHANGED <<db, skip, pending, outages, begun, origin, loose>>

\* syncDirectory on backups/ flushes the names of all of its directories.
SyncParent ==
  /\ at = "sync_parent" /\ Go("begin")
  /\ dirs' = [d \in Dirs |-> [dirs[d] EXCEPT !.flushed = @ \union {"name"}]]
  /\ UNCHANGED <<db, skip, pending, mine, outages, begun, origin, loose>>

\* initializeSQLite: one transaction from here to Commit.  A new database is
\* created at the current schema.
Begin ==
  /\ at = "begin" /\ db.schema <= Current
  /\ pending' = IF db.schema = 0 THEN Current ELSE db.schema
  /\ Go("migrate")
  /\ UNCHANGED <<db, skip, mine, dirs, outages, begun, origin, loose>>

\* One step from a schema to the next.
Migrate ==
  /\ at = "migrate" /\ pending < Current /\ pending' = pending + 1
  /\ UNCHANGED <<db, at, skip, mine, dirs, outages, begun, origin, loose>>

\* The transaction commits after the last step.
MigrationDone == pending = Current

Commit ==
  /\ at = "migrate" /\ MigrationDone /\ Go("wal")
  /\ db' = [db EXCEPT !.schema = pending] /\ pending' = 0
  /\ origin' = IF Supported(db.schema) /\ db.schema < Current /\ ~skip
               THEN db ELSE origin
  /\ UNCHANGED <<skip, mine, dirs, outages, begun, loose>>

\* The journal mode is set only now, when the version has been accepted.
SetJournal ==
  /\ at = "wal" /\ Go("up")
  /\ UNCHANGED <<db, skip, pending, mine, dirs, outages, begun, origin, loose>>

\* Any step may fail: a full disk, a refused check, a failed statement, a
\* schema of a later release.  The deferred call removes the partial directory.
Fails ==
  /\ at \notin {"down", "up"} /\ Ended
  /\ dirs' = IF mine = None THEN dirs ELSE Discarded
  /\ UNCHANGED <<db, skip, outages, begun, origin, loose>>

----------------------------------------------------------------------------
(* Faults, and what happens between two starts. *)

\* The process is killed, or stops after it has served.
Killed ==
  /\ at # "down" /\ Ended
  /\ UNCHANGED <<db, skip, dirs, outages, begun, origin, loose>>

\* A directory whose name was not flushed may be gone, or have its name of
\* before the rename; a file that was not flushed may be torn or missing.
Without(c, lost) ==
  [c EXCEPT !.name = IF "name" \in lost THEN "partial" ELSE @,
            !.manifest = IF "manifest" \in lost THEN FALSE ELSE @,
            !.torn = IF "copy" \in lost THEN TRUE ELSE @,
            !.flushed = Flushes]

\* The copy is lost with its bytes or with its entry.
AtRisk(c) == (Flushes \ c.flushed)
               \union (IF "manifest" \in c.flushed THEN {} ELSE {"copy"})

AfterOutage(c) ==
  {Without(c, lost) : lost \in SUBSET AtRisk(c)}
    \union (IF "name" \in c.flushed THEN {} ELSE {NoCopy})

LosePower ==
  /\ outages < MaxOutages /\ outages' = outages + 1 /\ Ended
  /\ dirs' \in {f \in [Dirs -> UNION {AfterOutage(dirs[d]) : d \in Dirs}] :
                  \A d \in Dirs : f[d] \in AfterOutage(dirs[d])}
  /\ UNCHANGED <<db, skip, begun, origin, loose>>

\* An older release writes, and may leave rows of deleted feeds.
OldRelease(leaves) ==
  /\ at = "down" /\ Supported(db.schema) /\ db.schema < Current
  /\ db.data < MaxWrites
  /\ db' = [db EXCEPT !.data = @ + 1, !.orphans = @ \/ leaves]
  /\ UNCHANGED <<at, skip, pending, mine, dirs, outages, begun, origin, loose>>

UpgradeNext ==
  \/ \E b \in BOOLEAN : Start(b) \/ OldRelease(b)
  \/ RemoveOrphanedRows \/ RemoveAbandonedCopies \/ CheckCopySpace
  \/ \E d \in Dirs : MakePartial(d)
  \/ VacuumInto \/ VerifyCopy \/ ReuseCopy \/ KeepCopy \/ WriteManifest
  \/ SyncCopy \/ SyncPartial \/ Rename \/ SyncParent
  \/ Begin \/ Migrate \/ Commit \/ SetJournal
  \/ Fails \/ Killed \/ LosePower

UpgradeSpec == UpgradeInit /\ [][UpgradeNext]_upgradeVars

----------------------------------------------------------------------------
(* Properties. *)

UpgradeTypeOK ==
  /\ db \in Database /\ at \in StartSteps /\ skip \in BOOLEAN
  /\ pending \in 0 .. Current /\ mine \in Dirs \union {None}
  /\ \A d \in Dirs : dirs[d] \in Copy
  /\ outages \in 0 .. MaxOutages /\ begun \in Database
  /\ origin \in Database /\ loose \in BOOLEAN

\* After an upgrade that was to be copied first, a complete copy of exactly
\* the replaced database is there to go back to, whatever was killed and
\* whenever the power went, unless this start or one before it relied on an
\* earlier copy whose rename was never flushed.
CopyToGoBackTo ==
  origin # NoDatabase /\ ~loose =>
    \E d \in Final : ~dirs[d].torn /\ dirs[d].manifest /\ dirs[d].of = origin

\* A loop of failing starts does not fill the disk: no two complete copies
\* hold the same database, and a start that copies has removed what killed
\* starts left behind.
CopiesBounded ==
  /\ \A c, d \in Final : dirs[c].of = dirs[d].of => c = d
  /\ mine # None => Partial = {mine}

\* A database is never seen between two schemas: it is of the schema this
\* attempt found, or at the current one.  A later release's is not touched.
SchemaWhole ==
  /\ db.schema \in {begun.schema, Current}
  /\ begun.schema > Current => db = begun
=============================================================================
