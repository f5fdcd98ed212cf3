---------------------------- MODULE StoreProofs ----------------------------
(***************************************************************************)
(* The database: opening it, its row locks and the filters it combines.    *)
(*                                                                         *)
(* SQLite: the copy to go back to survives.  The argument follows one      *)
(* directory: what each step of a start has flushed of it, so that it is   *)
(* complete on the disk when it gets its final name, and that nothing      *)
(* touches it from then on.                                                *)
(*                                                                         *)
(* PostgreSQL: an upgrade is committed once, and its lock is left behind   *)
(* only with an excuse.  Here the argument is what a process may go by     *)
(* while it, and nobody else, holds the lock.                              *)
(*                                                                         *)
(* Row locks: the rules a feed ends up with are validated ones, which      *)
(* follows from what each transaction has locked when it has read          *)
(* something; and no transactions wait in a circle, which follows from the *)
(* order they take their rows in.                                          *)
(*                                                                         *)
(* Filters: the combined rules are those that were meant, for every set of *)
(* rules: what passes a feed's own rules and all it shares, and no more.   *)
(***************************************************************************)
EXTENDS CopiedUpgrade, LockedUpgrade, FilterLocks, FilterRules,
        FiniteSetTheorems, TLAPS

----------------------------------------------------------------------------
(* Opening a database. *)

CopyFields == {"name", "of", "torn", "manifest", "flushed"}

Shape ==
  /\ DOMAIN db = {"schema", "data", "orphans"}
  /\ DOMAIN dirs = Dirs /\ \A d \in Dirs : DOMAIN dirs[d] = CopyFields

\* A directory with its final name is complete on the disk.
FinalsComplete ==
  \A d \in Dirs : dirs[d].name = "final" =>
    /\ ~dirs[d].torn /\ dirs[d].manifest
    /\ "copy" \in dirs[d].flushed /\ "manifest" \in dirs[d].flushed

\* A complete copy of x is there, and so is its name.
Durable(x) ==
  \E d \in Dirs : /\ dirs[d].name = "final" /\ dirs[d].of = x
                  /\ "name" \in dirs[d].flushed

Copying == {"vacuum", "verify", "reuse", "manifest", "sync_copy",
            "sync_partial", "rename"}

\* What a start has written and flushed of its partial directory.
MineOK ==
  /\ mine # None <=> at \in Copying
  /\ mine # None =>
       /\ mine \in Dirs /\ dirs[mine].name = "partial"
       /\ at \notin {"vacuum", "verify"} =>
            ~dirs[mine].torn /\ dirs[mine].of = db
       /\ at \in {"sync_copy", "sync_partial", "rename"} => dirs[mine].manifest
       /\ at \in {"sync_partial", "rename"} => "copy" \in dirs[mine].flushed
       /\ at = "rename" => "manifest" \in dirs[mine].flushed

\* The database a start upgrades was copied.
CopiedFirst ==
  /\ at = "sync_parent" =>
       \E d \in Dirs : dirs[d].name = "final" /\ dirs[d].of = db
  /\ /\ at \in {"begin", "migrate"} /\ ~skip /\ ~loose
     /\ Supported(db.schema) /\ db.schema < Current
     => Durable(db)

OriginKept == origin # NoDatabase /\ ~loose => Durable(origin)

CopyInv == Shape /\ FinalsComplete /\ MineOK /\ CopiedFirst /\ OriginKept

----------------------------------------------------------------------------
\* What a step keeps that leaves every directory with a final name alone.
LEMMA FinalsKept ==
  ASSUME Shape, FinalsComplete,
         \A d \in Dirs : dirs[d].name = "final" => dirs'[d] = dirs[d],
         \A d \in Dirs : dirs'[d].name = "final" => dirs[d].name = "final"
  PROVE  FinalsComplete' /\ \A x : Durable(x) => Durable(x)'
BY DEF FinalsComplete, Durable

\* Steps that leave the directories alone.
LEMMA StartsInv ==
  ASSUME CopyInv,
         \/ \E b \in BOOLEAN : Start(b)
         \/ RemoveOrphanedRows \/ CheckCopySpace \/ VerifyCopy \/ KeepCopy
         \/ Begin \/ Migrate \/ SetJournal
  PROVE  CopyInv'
<1>1. dirs' = dirs /\ origin' = origin /\ loose' = loose /\ mine' = mine
  BY DEF Start, RemoveOrphanedRows, CheckCopySpace, VerifyCopy, KeepCopy, Begin,
         Migrate, SetJournal
<1>2. FinalsComplete' /\ OriginKept'
  BY <1>1 DEF CopyInv, FinalsComplete, OriginKept, Durable
<1>3. CASE \E b \in BOOLEAN : Start(b)
  <2>1. db' = db /\ at = "down" /\ at' \in {"orphans", "begin"}
        /\ (at' = "begin" => ~Supported(db.schema))
    BY <1>3 DEF Start, Go
  <2> QED
    BY <1>1, <1>2, <2>1 DEF CopyInv, Shape, MineOK, CopiedFirst, Copying
<1>4. CASE RemoveOrphanedRows
  <2>1. /\ DOMAIN db' = DOMAIN db /\ db'.schema = db.schema /\ skip' = skip
        /\ at = "orphans" /\ at' \in {"sweep", "begin"}
        /\ (at' = "begin" => ~(db.schema < Current) \/ skip)
    BY <1>4 DEF RemoveOrphanedRows, AfterOrphans, Go, CopyInv, Shape
  <2> QED
    BY <1>1, <1>2, <2>1 DEF CopyInv, Shape, MineOK, CopiedFirst, Copying
<1>5. CASE CheckCopySpace
  BY <1>1, <1>2, <1>5
     DEF CopyInv, Shape, MineOK, CopiedFirst, Copying, CheckCopySpace, Go
<1>6. CASE VerifyCopy
  BY <1>1, <1>2, <1>6
     DEF CopyInv, Shape, MineOK, CopiedFirst, Copying, VerifyCopy, Verifies, Go
<1>7. CASE KeepCopy
  BY <1>1, <1>2, <1>7
     DEF CopyInv, Shape, MineOK, CopiedFirst, Copying, KeepCopy, Go
<1>8. CASE Begin
  BY <1>1, <1>2, <1>8
     DEF CopyInv, Shape, MineOK, CopiedFirst, Copying, Begin, Go, Durable
<1>9. CASE Migrate
  BY <1>1, <1>2, <1>9
     DEF CopyInv, Shape, MineOK, CopiedFirst, Copying, Migrate, Durable
<1>10. CASE SetJournal
  BY <1>1, <1>2, <1>10
     DEF CopyInv, Shape, MineOK, CopiedFirst, Copying, SetJournal, Go
<1> QED
  BY <1>3, <1>4, <1>5, <1>6, <1>7, <1>8, <1>9, <1>10

\* The sweep, and the new partial directory.
LEMMA SweepInv ==
  ASSUME CopyInv, RemoveAbandonedCopies
  PROVE  CopyInv'
<1>1. \A d \in Dirs : dirs'[d] = Swept(d)
  BY DEF RemoveAbandonedCopies
<1>2. \A d \in Dirs : dirs[d].name = "final" => dirs'[d] = dirs[d]
  BY <1>1 DEF Swept, Partial, Named
<1>3. \A d \in Dirs : dirs'[d].name = "final" => dirs[d].name = "final"
  BY <1>1 DEF Swept, NoCopy
<1>4. Shape'
  BY <1>1 DEF CopyInv, Shape, RemoveAbandonedCopies, Swept, NoCopy, CopyFields
<1>5. FinalsComplete' /\ \A x : Durable(x) => Durable(x)'
  BY <1>2, <1>3, FinalsKept DEF CopyInv
<1> QED
  BY <1>4, <1>5 DEF CopyInv, MineOK, CopiedFirst, Copying, OriginKept,
                    RemoveAbandonedCopies, Go

LEMMA MakeInv ==
  ASSUME CopyInv, NEW e \in Dirs, MakePartial(e), UpgradeAssumption
  PROVE  CopyInv'
<1>1. /\ dirs'[e].name = "partial" /\ dirs[e].name = "none"
      /\ DOMAIN dirs'[e] = CopyFields /\ DOMAIN dirs' = Dirs
      /\ \A d \in Dirs \ {e} : dirs'[d] = dirs[d]
  BY DEF MakePartial, NoCopy, CopyInv, Shape, CopyFields
<1>2. Shape'
  BY <1>1 DEF CopyInv, Shape, MakePartial
<1>3. FinalsComplete' /\ \A x : Durable(x) => Durable(x)'
  BY <1>1, FinalsKept DEF CopyInv
<1>4. MineOK'
  BY <1>1 DEF MakePartial, Go, MineOK, Copying, UpgradeAssumption
<1> QED
  BY <1>2, <1>3, <1>4 DEF CopyInv, CopiedFirst, OriginKept, MakePartial, Go

\* A step of a start changes its own partial directory.
LEMMA OwnCopy ==
  ASSUME CopyInv, mine # None, NEW c, DOMAIN c = CopyFields, c.name # "final",
         dirs' = [dirs EXCEPT ![mine] = c]
  PROVE  /\ dirs'[mine] = c
         /\ DOMAIN dirs' = Dirs /\ \A d \in Dirs : DOMAIN dirs'[d] = CopyFields
         /\ FinalsComplete' /\ \A x : Durable(x) => Durable(x)'
<1>1. mine \in Dirs /\ dirs[mine].name # "final"
  BY DEF CopyInv, MineOK
<1>2. /\ dirs'[mine] = c /\ DOMAIN dirs' = Dirs
      /\ \A d \in Dirs \ {mine} : dirs'[d] = dirs[d]
  BY <1>1 DEF CopyInv, Shape
<1> QED
  BY <1>1, <1>2, FinalsKept DEF CopyInv, Shape

LEMMA WriteInv ==
  ASSUME CopyInv, VacuumInto \/ WriteManifest \/ SyncCopy \/ SyncPartial
  PROVE  CopyInv'
<1> DEFINE old == dirs[mine]
<1>1. at \in Copying \ {"rename"} /\ mine # None /\ mine' = mine
  BY DEF VacuumInto, WriteManifest, SyncCopy, SyncPartial, Copying, CopyInv,
         MineOK
<1>2. UNCHANGED <<db, skip, origin, loose>> /\ at' \in Copying
  BY DEF VacuumInto, WriteManifest, SyncCopy, SyncPartial, Go, Copying
<1>3. old.name = "partial" /\ DOMAIN old = CopyFields
  BY <1>1 DEF CopyInv, MineOK, Shape
<1>4. ASSUME NEW c, DOMAIN c = CopyFields, c.name = "partial",
             dirs' = [dirs EXCEPT ![mine] = c], MineOK'
      PROVE  CopyInv'
  <2>1. /\ DOMAIN dirs' = Dirs /\ \A d \in Dirs : DOMAIN dirs'[d] = CopyFields
        /\ FinalsComplete' /\ \A x : Durable(x) => Durable(x)'
    BY <1>1, <1>4, OwnCopy
  <2> QED
    BY <1>2, <1>4, <2>1 DEF CopyInv, Shape, CopiedFirst, OriginKept, Copying
<1>5. CASE VacuumInto
  <2> DEFINE c == [old EXCEPT !.torn = FALSE]
  <2>1. dirs' = [dirs EXCEPT ![mine] = c]
    BY <1>5 DEF VacuumInto
  <2>2. DOMAIN c = CopyFields /\ c.name = "partial"
    BY <1>3 DEF CopyFields
  <2>3. dirs'[mine] = c
    BY <1>1, <2>1, <2>2, OwnCopy
  <2>4. MineOK'
    BY <1>1, <1>2, <1>5, <2>2, <2>3 DEF CopyInv, MineOK, VacuumInto, Go, Copying
  <2> HIDE DEF c
  <2> QED
    BY <1>4, <2>1, <2>2, <2>4
<1>6. CASE WriteManifest
  <2> DEFINE c == [old EXCEPT !.manifest = TRUE]
  <2>1. dirs' = [dirs EXCEPT ![mine] = c]
    BY <1>6 DEF WriteManifest
  <2>2. /\ DOMAIN c = CopyFields /\ c.name = "partial"
        /\ c.torn = old.torn /\ c.of = old.of /\ c.manifest
    BY <1>3 DEF CopyFields
  <2>3. dirs'[mine] = c
    BY <1>1, <2>1, <2>2, OwnCopy
  <2> HIDE DEF c
  <2>4. MineOK'
    BY <1>1, <1>2, <1>6, <2>2, <2>3
       DEF CopyInv, MineOK, WriteManifest, Go, Copying
  <2> QED
    BY <1>4, <2>1, <2>2, <2>4
<1>7. CASE SyncCopy
  <2> DEFINE c == [old EXCEPT !.flushed = @ \union {"copy"}]
  <2>1. dirs' = [dirs EXCEPT ![mine] = c]
    BY <1>7 DEF SyncCopy, CopyFlushed
  <2>2. /\ DOMAIN c = CopyFields /\ c.name = "partial" /\ c.torn = old.torn
        /\ c.of = old.of /\ c.manifest = old.manifest /\ "copy" \in c.flushed
    BY <1>3 DEF CopyFields
  <2>3. dirs'[mine] = c
    BY <1>1, <2>1, <2>2, OwnCopy
  <2> HIDE DEF c
  <2>4. MineOK'
    BY <1>1, <1>2, <1>7, <2>2, <2>3 DEF CopyInv, MineOK, SyncCopy, Go, Copying
  <2> QED
    BY <1>4, <2>1, <2>2, <2>4
<1>8. CASE SyncPartial
  <2> DEFINE c == [old EXCEPT !.flushed = @ \union {"manifest"}]
  <2>1. dirs' = [dirs EXCEPT ![mine] = c]
    BY <1>8 DEF SyncPartial
  <2>2. /\ DOMAIN c = CopyFields /\ c.name = "partial" /\ c.torn = old.torn
        /\ c.of = old.of /\ c.manifest = old.manifest
        /\ "copy" \in old.flushed => "copy" \in c.flushed
        /\ "manifest" \in c.flushed
    BY <1>3 DEF CopyFields
  <2>3. dirs'[mine] = c
    BY <1>1, <2>1, <2>2, OwnCopy
  <2> HIDE DEF c
  <2>4. MineOK'
    BY <1>1, <1>2, <1>8, <2>2, <2>3
       DEF CopyInv, MineOK, SyncPartial, Go, Copying
  <2> QED
    BY <1>4, <2>1, <2>2, <2>4
<1> QED
  BY <1>5, <1>6, <1>7, <1>8

\* An identical earlier copy serves; the new one goes.
LEMMA ReuseInv ==
  ASSUME CopyInv, ReuseCopy
  PROVE  CopyInv'
<1>1. /\ mine # None /\ mine \in Dirs /\ dirs[mine].of = db
      /\ UNCHANGED <<db, skip, origin>> /\ at' = "begin" /\ mine' = None
  BY DEF ReuseCopy, CopyInv, MineOK, Copying, Go
<1>2. PICK d \in Dirs :
        /\ dirs[d].name = "final" /\ dirs[d].of = db
        /\ loose' = (loose \/ "name" \notin dirs[d].flushed)
  BY <1>1 DEF ReuseCopy, Reusable, Identical, Final, Named
<1>3. DOMAIN NoCopy = CopyFields /\ NoCopy.name # "final"
  BY DEF NoCopy, CopyFields
<1>4. dirs' = [dirs EXCEPT ![mine] = NoCopy]
  BY DEF ReuseCopy, Discarded
<1>5. /\ DOMAIN dirs' = Dirs /\ \A e \in Dirs : DOMAIN dirs'[e] = CopyFields
      /\ FinalsComplete' /\ \A x : Durable(x) => Durable(x)'
  BY <1>1, <1>3, <1>4, OwnCopy
<1>6. Shape' /\ MineOK'
  BY <1>1, <1>5 DEF CopyInv, Shape, MineOK, Copying
<1>7. ~loose' => ~loose /\ Durable(db)
  BY <1>2 DEF Durable
<1>8. CopiedFirst' /\ OriginKept'
  BY <1>1, <1>5, <1>7 DEF CopyInv, CopiedFirst, OriginKept
<1> QED
  BY <1>5, <1>6, <1>8 DEF CopyInv

\* The partial directory gets its final name.
LEMMA RenameInv ==
  ASSUME CopyInv, Rename
  PROVE  CopyInv'
<1> DEFINE c == [dirs[mine] EXCEPT !.name = "final"]
<1>1. /\ mine # None /\ mine \in Dirs /\ dirs[mine].name = "partial"
      /\ dirs[mine].of = db /\ DOMAIN dirs[mine] = CopyFields
      /\ ~dirs[mine].torn /\ dirs[mine].manifest
      /\ "copy" \in dirs[mine].flushed /\ "manifest" \in dirs[mine].flushed
  BY DEF Rename, CopyInv, MineOK, Copying, Shape
<1>2. /\ DOMAIN c = CopyFields /\ c.name = "final" /\ c.of = db
      /\ ~c.torn /\ c.manifest
      /\ "copy" \in c.flushed /\ "manifest" \in c.flushed
  BY <1>1 DEF CopyFields
<1>3. dirs' = [dirs EXCEPT ![mine] = c]
  BY DEF Rename
<1>4. /\ UNCHANGED <<db, skip, origin, loose>>
      /\ at' = "sync_parent" /\ mine' = None
  BY DEF Rename, Go
<1> HIDE DEF c
<1>5. /\ DOMAIN dirs' = Dirs /\ dirs'[mine] = c
      /\ \A d \in Dirs \ {mine} : dirs'[d] = dirs[d]
  BY <1>1, <1>3 DEF CopyInv, Shape
<1>6. Shape' /\ FinalsComplete'
  BY <1>2, <1>4, <1>5 DEF CopyInv, Shape, FinalsComplete
<1>7. \A x : Durable(x) => Durable(x)'
  BY <1>1, <1>5 DEF Durable
<1>8. MineOK' /\ CopiedFirst'
  BY <1>1, <1>2, <1>4, <1>5 DEF MineOK, Copying, CopiedFirst
<1>9. OriginKept'
  BY <1>4, <1>7 DEF CopyInv, OriginKept
<1> QED
  BY <1>6, <1>8, <1>9 DEF CopyInv

\* The names of all directories are flushed.
LEMMA SyncParentInv ==
  ASSUME CopyInv, SyncParent
  PROVE  CopyInv'
<1>1. /\ UNCHANGED <<db, skip, origin, loose, mine>>
      /\ at = "sync_parent" /\ at' = "begin"
  BY DEF SyncParent, Go
<1>2. \A d \in Dirs :
        /\ dirs'[d] = [dirs[d] EXCEPT !.flushed = @ \union {"name"}]
        /\ DOMAIN dirs[d] = CopyFields
  BY DEF SyncParent, CopyInv, Shape
<1>3. \A d \in Dirs :
        /\ DOMAIN dirs'[d] = CopyFields
        /\ dirs'[d].name = dirs[d].name /\ dirs'[d].of = dirs[d].of
        /\ dirs'[d].torn = dirs[d].torn /\ dirs'[d].manifest = dirs[d].manifest
        /\ dirs'[d].flushed = dirs[d].flushed \union {"name"}
  BY <1>2 DEF CopyFields
<1>4. Shape'
  BY <1>1, <1>3 DEF CopyInv, Shape, SyncParent
<1>5. FinalsComplete'
  BY <1>3 DEF CopyInv, FinalsComplete
<1>6. \A x : (\E d \in Dirs : dirs[d].name = "final" /\ dirs[d].of = x)
             => Durable(x)'
  BY <1>3 DEF Durable
<1>7. Durable(db)' /\ \A x : Durable(x) => Durable(x)'
  BY <1>1, <1>6 DEF CopyInv, CopiedFirst, Durable
<1>8. MineOK' /\ CopiedFirst' /\ OriginKept'
  BY <1>1, <1>7 DEF CopyInv, MineOK, Copying, CopiedFirst, OriginKept
<1> QED
  BY <1>4, <1>5, <1>8 DEF CopyInv

LEMMA CommitInv ==
  ASSUME CopyInv, Commit
  PROVE  CopyInv'
<1>1. /\ UNCHANGED <<dirs, skip, loose, mine>>
      /\ at = "migrate" /\ at' = "wal" /\ DOMAIN db' = DOMAIN db
  BY DEF Commit, Go, CopyInv, Shape
<1>2. Shape' /\ FinalsComplete' /\ MineOK' /\ CopiedFirst'
  BY <1>1 DEF CopyInv, Shape, FinalsComplete, MineOK, Copying, CopiedFirst
<1>3. OriginKept'
  <2>1. CASE Supported(db.schema) /\ db.schema < Current /\ ~skip
    BY <1>1, <2>1 DEF CopyInv, CopiedFirst, OriginKept, Durable, Commit
  <2>2. CASE ~(Supported(db.schema) /\ db.schema < Current /\ ~skip)
    BY <1>1, <2>2 DEF CopyInv, OriginKept, Durable, Commit
  <2> QED
    BY <2>1, <2>2
<1> QED
  BY <1>2, <1>3 DEF CopyInv

\* A failed start removes its partial directory, a killed one leaves it.
LEMMA EndsInv ==
  ASSUME CopyInv, Fails \/ Killed
  PROVE  CopyInv'
<1>1. UNCHANGED <<db, skip, origin, loose>> /\ at' = "down" /\ mine' = None
  BY DEF Fails, Killed, Ended
<1>2. CASE dirs' = dirs
  BY <1>1, <1>2 DEF CopyInv, Shape, FinalsComplete, MineOK, Copying,
                    CopiedFirst, OriginKept, Durable
<1>3. CASE mine # None /\ dirs' = Discarded
  <2>1. DOMAIN NoCopy = CopyFields /\ NoCopy.name # "final"
    BY DEF NoCopy, CopyFields
  <2>2. dirs' = [dirs EXCEPT ![mine] = NoCopy]
    BY <1>3 DEF Discarded
  <2>3. /\ DOMAIN dirs' = Dirs /\ \A e \in Dirs : DOMAIN dirs'[e] = CopyFields
        /\ FinalsComplete' /\ \A x : Durable(x) => Durable(x)'
    BY <1>3, <2>1, <2>2, OwnCopy
  <2> QED
    BY <1>1, <2>3 DEF CopyInv, Shape, MineOK, Copying, CopiedFirst, OriginKept
<1> QED
  BY <1>2, <1>3 DEF Fails, Killed

\* What a loss of power leaves of one directory.
LEMMA OutageKeeps ==
  ASSUME NEW c, DOMAIN c = CopyFields, NEW a \in AfterOutage(c)
  PROVE  /\ DOMAIN a = CopyFields
         /\ a.name = "final" =>
              /\ c.name = "final" /\ a.of = c.of /\ a.flushed = Flushes
              /\ ("copy" \in c.flushed /\ "manifest" \in c.flushed) =>
                   a.torn = c.torn /\ a.manifest = c.manifest
         /\ "name" \in c.flushed =>
              a.name = c.name /\ a.of = c.of /\ a.flushed = Flushes
<1>1. DOMAIN NoCopy = CopyFields /\ NoCopy.name = "none"
  BY DEF NoCopy, CopyFields
<1>2. CASE a = NoCopy /\ "name" \notin c.flushed
  BY <1>1, <1>2
<1>3. CASE \E lost \in SUBSET AtRisk(c) : a = Without(c, lost)
  <2>1. PICK lost \in SUBSET AtRisk(c) : a = Without(c, lost)
    BY <1>3
  <2>2. /\ DOMAIN a = CopyFields /\ a.of = c.of /\ a.flushed = Flushes
        /\ a.name = IF "name" \in lost THEN "partial" ELSE c.name
        /\ a.manifest = IF "manifest" \in lost THEN FALSE ELSE c.manifest
        /\ a.torn = IF "copy" \in lost THEN TRUE ELSE c.torn
    BY <2>1 DEF Without, CopyFields
  <2>3. \A f \in lost :
          f \in c.flushed => (f = "copy" /\ "manifest" \notin c.flushed)
    BY <2>1 DEF AtRisk
  <2> QED
    BY <2>2, <2>3
<1> QED
  BY <1>2, <1>3 DEF AfterOutage

LEMMA OutageInv ==
  ASSUME CopyInv, LosePower
  PROVE  CopyInv'
<1>1. /\ UNCHANGED <<db, skip, origin, loose>> /\ at' = "down" /\ mine' = None
      /\ DOMAIN dirs' = Dirs
      /\ \A d \in Dirs : dirs'[d] \in AfterOutage(dirs[d])
  BY DEF LosePower, Ended
<1>2. \A d \in Dirs :
        /\ DOMAIN dirs'[d] = CopyFields
        /\ dirs'[d].name = "final" =>
             /\ dirs[d].name = "final" /\ dirs'[d].flushed = Flushes
             /\ "copy" \in dirs[d].flushed /\ "manifest" \in dirs[d].flushed =>
                  /\ dirs'[d].torn = dirs[d].torn
                  /\ dirs'[d].manifest = dirs[d].manifest
        /\ "name" \in dirs[d].flushed =>
             /\ dirs'[d].name = dirs[d].name /\ dirs'[d].of = dirs[d].of
             /\ dirs'[d].flushed = Flushes
  BY <1>1, OutageKeeps DEF CopyInv, Shape
<1>3. Shape' /\ MineOK' /\ CopiedFirst'
  BY <1>1, <1>2 DEF CopyInv, Shape, MineOK, Copying, CopiedFirst
<1>4. FinalsComplete'
  BY <1>2 DEF CopyInv, FinalsComplete, Flushes
<1>5. OriginKept'
  BY <1>1, <1>2 DEF CopyInv, OriginKept, Durable, Flushes
<1> QED
  BY <1>3, <1>4, <1>5 DEF CopyInv

LEMMA OldReleaseInv ==
  ASSUME CopyInv, NEW leaves, OldRelease(leaves)
  PROVE  CopyInv'
<1>1. /\ UNCHANGED <<dirs, skip, loose, mine, origin>>
      /\ at = "down" /\ at' = "down" /\ DOMAIN db' = DOMAIN db
  BY DEF OldRelease, CopyInv, Shape
<1> QED
  BY <1>1 DEF CopyInv, Shape, FinalsComplete, MineOK, Copying, CopiedFirst,
              OriginKept, Durable

LEMMA CopyInvInit ==
  ASSUME UpgradeInit
  PROVE  CopyInv
<1>1. Shape /\ FinalsComplete
  BY DEF UpgradeInit, Shape, FinalsComplete, NoCopy, CopyFields
<1> QED
  BY <1>1 DEF UpgradeInit, CopyInv, MineOK, Copying, CopiedFirst, OriginKept

LEMMA CopyInvStep ==
  ASSUME CopyInv, UpgradeAssumption, [UpgradeNext]_upgradeVars
  PROVE  CopyInv'
<1>1. CASE UNCHANGED upgradeVars
  BY <1>1 DEF upgradeVars, CopyInv, Shape, FinalsComplete, MineOK, CopiedFirst,
              OriginKept, Durable
<1>2. CASE \E b \in BOOLEAN : OldRelease(b)
  BY <1>2, OldReleaseInv
<1>3. CASE \/ \E b \in BOOLEAN : Start(b)
           \/ RemoveOrphanedRows \/ CheckCopySpace \/ VerifyCopy \/ KeepCopy
           \/ Begin \/ Migrate \/ SetJournal
  BY <1>3, StartsInv
<1>4. CASE RemoveAbandonedCopies
  BY <1>4, SweepInv
<1>5. CASE \E d \in Dirs : MakePartial(d)
  BY <1>5, MakeInv
<1>6. CASE VacuumInto \/ WriteManifest \/ SyncCopy \/ SyncPartial
  BY <1>6, WriteInv
<1>7. CASE ReuseCopy
  BY <1>7, ReuseInv
<1>8. CASE Rename
  BY <1>8, RenameInv
<1>9. CASE SyncParent
  BY <1>9, SyncParentInv
<1>10. CASE Commit
  BY <1>10, CommitInv
<1>11. CASE Fails \/ Killed
  BY <1>11, EndsInv
<1>12. CASE LosePower
  BY <1>12, OutageInv
<1> QED
  BY <1>1, <1>2, <1>3, <1>4, <1>5, <1>6, <1>7, <1>8, <1>9, <1>10, <1>11, <1>12
     DEF UpgradeNext

----------------------------------------------------------------------------
\* After an upgrade that was to be copied first (backupBeforeUpgrade, then
\* initializeSQLite), a complete copy of the replaced database is under a
\* final name, unless this start or one before it relied on an earlier copy
\* whose rename was never flushed.
THEOREM CopyKept == UpgradeAssumption => (UpgradeSpec => []CopyToGoBackTo)
<1>1. CopyInv => CopyToGoBackTo
  BY DEF CopyInv, OriginKept, Durable, FinalsComplete, CopyToGoBackTo, Final,
         Named
<1>2. UpgradeInit => CopyInv
  BY CopyInvInit
<1>3. ASSUME UpgradeAssumption
      PROVE  CopyInv /\ [UpgradeNext]_upgradeVars => CopyInv'
  BY <1>3, CopyInvStep
<1>4. ASSUME UpgradeAssumption
      PROVE  UpgradeSpec => []CopyToGoBackTo
  <2>1. CopyInv /\ [UpgradeNext]_upgradeVars => CopyInv'
    BY <1>3, <1>4
  <2> QED
    BY <1>1, <1>2, <2>1, PTL DEF UpgradeSpec
<1> QED
  BY <1>4

----------------------------------------------------------------------------
\* Only a database of a schema this release knows is written to.
SchemaInv ==
  /\ DOMAIN db = {"schema", "data", "orphans"}
  /\ db.schema \in Nat /\ begun.schema \in Nat
  /\ at = "orphans" => Supported(db.schema)
  /\ at = "migrate" => db.schema <= Current
  /\ SchemaWhole

LEMMA SchemaInvStep ==
  ASSUME SchemaInv, UpgradeAssumption, [UpgradeNext]_upgradeVars
  PROVE  SchemaInv'
<1>1. Current \in Nat
  BY DEF UpgradeAssumption
<1>2. CASE \E b \in BOOLEAN : Start(b)
  BY <1>2 DEF Start, Go, SchemaInv, SchemaWhole
<1>3. CASE \E b \in BOOLEAN : OldRelease(b)
  <2>1. /\ DOMAIN db' = DOMAIN db /\ db'.schema = db.schema
        /\ db.schema < Current /\ begun' = begun /\ at = "down" /\ at' = at
    BY <1>3 DEF OldRelease, SchemaInv
  <2> QED
    BY <1>1, <2>1 DEF SchemaInv, SchemaWhole
<1>4. CASE RemoveOrphanedRows
  <2>1. /\ DOMAIN db' = DOMAIN db /\ db'.schema = db.schema
        /\ begun' = begun /\ at = "orphans" /\ at' \in {"sweep", "begin"}
    BY <1>4 DEF RemoveOrphanedRows, AfterOrphans, Go, SchemaInv
  <2> QED
    BY <1>1, <2>1 DEF SchemaInv, SchemaWhole, Supported
<1>5. CASE Commit
  <2>1. /\ DOMAIN db' = DOMAIN db /\ db'.schema = Current
        /\ begun' = begun /\ at = "migrate" /\ at' = "wal"
    BY <1>5 DEF Commit, MigrationDone, Go, SchemaInv
  <2> QED
    BY <1>1, <2>1 DEF SchemaInv, SchemaWhole
<1>6. CASE Begin
  BY <1>6 DEF Begin, Go, SchemaInv, SchemaWhole
<1>7. CASE UNCHANGED <<db, begun>> /\ at' \notin {"orphans", "migrate"}
  BY <1>7 DEF SchemaInv, SchemaWhole
<1>8. CASE UNCHANGED <<db, begun, at>>
  BY <1>8 DEF SchemaInv, SchemaWhole
<1>9. CASE \/ RemoveAbandonedCopies \/ CheckCopySpace
           \/ \E d \in Dirs : MakePartial(d)
           \/ VacuumInto \/ VerifyCopy \/ ReuseCopy \/ KeepCopy \/ WriteManifest
           \/ SyncCopy \/ SyncPartial \/ Rename \/ SyncParent \/ SetJournal
  BY <1>7, <1>9
     DEF RemoveAbandonedCopies, CheckCopySpace, MakePartial, VacuumInto,
         VerifyCopy, ReuseCopy, KeepCopy, WriteManifest, SyncCopy, SyncPartial,
         Rename, SyncParent, SetJournal, Go
<1>10. CASE Fails \/ Killed \/ LosePower
  BY <1>7, <1>10 DEF Fails, Killed, LosePower, Ended
<1>11. CASE Migrate \/ UNCHANGED upgradeVars
  BY <1>8, <1>11 DEF Migrate, upgradeVars
<1> QED
  BY <1>2, <1>3, <1>4, <1>5, <1>6, <1>9, <1>10, <1>11 DEF UpgradeNext

\* A database is never seen between two schemas, and one of a later release
\* is not touched (OpenWithOptions and initializeSQLite).
THEOREM SchemaKept == UpgradeAssumption => (UpgradeSpec => []SchemaWhole)
<1>1. ASSUME UpgradeAssumption, UpgradeInit
      PROVE  SchemaInv
  BY <1>1 DEF UpgradeAssumption, UpgradeInit, Schemas, SchemaInv, SchemaWhole
<1>2. ASSUME UpgradeAssumption
      PROVE  UpgradeSpec => []SchemaWhole
  <2>1. UpgradeInit => SchemaInv
    BY <1>1, <1>2
  <2>2. SchemaInv /\ [UpgradeNext]_upgradeVars => SchemaInv'
    BY <1>2, SchemaInvStep
  <2>3. SchemaInv => SchemaWhole
    BY DEF SchemaInv
  <2> QED
    BY <2>1, <2>2, <2>3, PTL DEF UpgradeSpec
<1> QED
  BY <1>2

----------------------------------------------------------------------------
\* Copies do not pile up: no two final ones hold the same database, since one
\* that gets its name was compared with them, and the partial ones were swept.
Distinct ==
  \A c, d \in Dirs :
    /\ dirs[c].name = "final" /\ dirs[d].name = "final"
    /\ dirs[c].of = dirs[d].of
    => c = d

Naming == {"manifest", "sync_copy", "sync_partial", "rename"}

OnePartial ==
  /\ at \in {"space", "make"} => \A d \in Dirs : dirs[d].name # "partial"
  /\ mine # None => \A d \in Dirs : dirs[d].name = "partial" => d = mine

NewCopy ==
  at \in Naming => \A d \in Dirs : dirs[d].name = "final" => dirs[d].of # db

BoundInv == CopyInv /\ Distinct /\ OnePartial /\ NewCopy

\* A step that gives no directory another name, or takes names away.
LEMMA NamesKept ==
  ASSUME BoundInv,
         \A d \in Dirs : dirs'[d].name = "final" =>
           dirs[d].name = "final" /\ dirs'[d].of = dirs[d].of,
         \A d \in Dirs : dirs'[d].name = "partial" => dirs[d].name = "partial"
  PROVE  /\ Distinct'
         /\ mine' = mine \/ mine' = None =>
              (mine' # None =>
                 \A d \in Dirs : dirs'[d].name = "partial" => d = mine')
         /\ db' = db /\ at \in Naming => NewCopy'
BY DEF BoundInv, Distinct, OnePartial, NewCopy

\* Steps that leave the directories alone.
LEMMA QuietBound ==
  ASSUME BoundInv, CopyInv', dirs' = dirs, mine' = mine \/ mine' = None,
         at' \in {"space", "make"} => at \in {"space", "make"},
         at' \in Naming => at \in Naming /\ db' = db
  PROVE  BoundInv'
BY DEF BoundInv, Distinct, OnePartial, NewCopy

LEMMA StartsBound ==
  ASSUME BoundInv, CopyInv',
         \/ \E b \in BOOLEAN : Start(b) \/ OldRelease(b)
         \/ RemoveOrphanedRows \/ CheckCopySpace \/ VerifyCopy
         \/ Begin \/ Migrate \/ Commit \/ SetJournal \/ Killed
  PROVE  BoundInv'
<1>1. dirs' = dirs /\ (mine' = mine \/ mine' = None)
  BY DEF Start, OldRelease, RemoveOrphanedRows, CheckCopySpace, VerifyCopy,
         Begin, Migrate, Commit, SetJournal, Killed, Ended
<1>2. at' \in {"space", "make"} => at \in {"space", "make"}
  BY DEF Start, OldRelease, RemoveOrphanedRows, CheckCopySpace, VerifyCopy,
         Begin, Migrate, Commit, SetJournal, Killed, Ended, Go, AfterOrphans
<1>3. at' \notin Naming
  BY DEF Start, OldRelease, RemoveOrphanedRows, CheckCopySpace, VerifyCopy,
         Begin, Migrate, Commit, SetJournal, Killed, Ended, Go, AfterOrphans,
         Naming
<1> QED
  BY <1>1, <1>2, <1>3, QuietBound

LEMMA KeepBound ==
  ASSUME BoundInv, CopyInv', KeepCopy
  PROVE  BoundInv'
<1>1. /\ UNCHANGED <<dirs, mine, db>> /\ at = "reuse" /\ at' = "manifest"
      /\ dirs[mine].of = db /\ Reusable = {}
  BY DEF KeepCopy, Go, BoundInv, CopyInv, MineOK, Copying
<1>2. \A d \in Dirs : dirs[d].name = "final" => dirs[d].of # db
  BY <1>1 DEF Reusable, Identical, Final, Named, BoundInv, CopyInv,
              FinalsComplete
<1> QED
  BY <1>1, <1>2 DEF BoundInv, Distinct, OnePartial, NewCopy

LEMMA SweepBound ==
  ASSUME BoundInv, CopyInv', RemoveAbandonedCopies
  PROVE  BoundInv'
<1>1. \A d \in Dirs : dirs'[d] = Swept(d)
  BY DEF RemoveAbandonedCopies
<1>2. \A d \in Dirs : dirs'[d].name # "partial" /\ (dirs'[d].name = "final"
        => dirs[d].name = "final" /\ dirs'[d].of = dirs[d].of)
  BY <1>1 DEF Swept, NoCopy, Partial, Named
<1>3. at' = "space" /\ mine' = mine
  BY DEF RemoveAbandonedCopies, Go
<1> QED
  BY <1>2, <1>3, NamesKept DEF BoundInv, OnePartial, NewCopy, Naming

LEMMA MakeBound ==
  ASSUME BoundInv, CopyInv', NEW e \in Dirs, MakePartial(e)
  PROVE  BoundInv'
<1>1. /\ dirs'[e].name = "partial" /\ \A d \in Dirs \ {e} : dirs'[d] = dirs[d]
      /\ at = "make" /\ at' = "vacuum" /\ mine' = e
  BY DEF MakePartial, Go, BoundInv, CopyInv, Shape
<1> QED
  BY <1>1 DEF BoundInv, Distinct, OnePartial, NewCopy, Naming

\* What a start does to the directory it copies into.
LEMMA OwnBound ==
  ASSUME BoundInv, CopyInv', mine # None,
         NEW c, c.name # "final", dirs' = [dirs EXCEPT ![mine] = c],
         mine' = mine \/ mine' = None, at' \notin {"space", "make"},
         at' \in Naming => at \in Naming /\ db' = db
  PROVE  BoundInv'
<1>1. mine \in Dirs /\ dirs[mine].name = "partial" /\ dirs'[mine] = c
      /\ \A d \in Dirs \ {mine} : dirs'[d] = dirs[d]
  BY DEF BoundInv, CopyInv, MineOK, Shape
<1> QED
  BY <1>1, NamesKept DEF BoundInv, OnePartial, NewCopy

LEMMA WriteBound ==
  ASSUME BoundInv, CopyInv',
         \/ VacuumInto \/ WriteManifest \/ SyncCopy \/ SyncPartial
         \/ ReuseCopy \/ (Fails /\ mine # None)
  PROVE  BoundInv'
<1>1. /\ mine # None /\ dirs[mine].name = "partial"
      /\ DOMAIN dirs[mine] = CopyFields
  BY DEF VacuumInto, WriteManifest, SyncCopy, SyncPartial, ReuseCopy, BoundInv,
         CopyInv, MineOK, Copying, Shape
<1>2. /\ mine' = mine \/ mine' = None
      /\ at' \notin {"space", "make"}
      /\ at' \in Naming => at \in Naming /\ db' = db
  BY DEF VacuumInto, WriteManifest, SyncCopy, SyncPartial, ReuseCopy, Fails,
         Ended, Go, Naming
<1>3. CASE VacuumInto
  <2>1. dirs' = [dirs EXCEPT ![mine] = [dirs[mine] EXCEPT !.torn = FALSE]]
    BY <1>3 DEF VacuumInto
  <2>2. [dirs[mine] EXCEPT !.torn = FALSE].name # "final"
    BY <1>1 DEF CopyFields
  <2> QED
    BY <1>1, <1>2, <2>1, <2>2, OwnBound
<1>4. CASE WriteManifest
  <2>1. dirs' = [dirs EXCEPT ![mine] = [dirs[mine] EXCEPT !.manifest = TRUE]]
    BY <1>4 DEF WriteManifest
  <2>2. [dirs[mine] EXCEPT !.manifest = TRUE].name # "final"
    BY <1>1 DEF CopyFields
  <2> QED
    BY <1>1, <1>2, <2>1, <2>2, OwnBound
<1>5. CASE SyncCopy
  <2>1. dirs' = [dirs EXCEPT ![mine] =
                   [dirs[mine] EXCEPT !.flushed = @ \union {"copy"}]]
    BY <1>5 DEF SyncCopy, CopyFlushed
  <2>2. [dirs[mine] EXCEPT !.flushed = @ \union {"copy"}].name # "final"
    BY <1>1 DEF CopyFields
  <2> QED
    BY <1>1, <1>2, <2>1, <2>2, OwnBound
<1>6. CASE SyncPartial
  <2>1. dirs' = [dirs EXCEPT ![mine] =
                   [dirs[mine] EXCEPT !.flushed = @ \union {"manifest"}]]
    BY <1>6 DEF SyncPartial
  <2>2. [dirs[mine] EXCEPT !.flushed = @ \union {"manifest"}].name # "final"
    BY <1>1 DEF CopyFields
  <2> QED
    BY <1>1, <1>2, <2>1, <2>2, OwnBound
<1>7. CASE ReuseCopy \/ (Fails /\ mine # None)
  <2>1. dirs' = [dirs EXCEPT ![mine] = NoCopy] /\ NoCopy.name # "final"
    BY <1>7 DEF ReuseCopy, Fails, Discarded, NoCopy
  <2> QED
    BY <1>1, <1>2, <2>1, OwnBound
<1> QED
  BY <1>3, <1>4, <1>5, <1>6, <1>7

LEMMA RenameBound ==
  ASSUME BoundInv, CopyInv', Rename
  PROVE  BoundInv'
<1>1. /\ mine \in Dirs /\ dirs[mine].of = db /\ at = "rename"
      /\ DOMAIN dirs[mine] = CopyFields
      /\ at' = "sync_parent" /\ mine' = None /\ db' = db
  BY DEF Rename, Go, BoundInv, CopyInv, MineOK, Copying, Shape
<1>2. /\ dirs'[mine].of = db /\ dirs'[mine].name = "final"
      /\ \A d \in Dirs \ {mine} : dirs'[d] = dirs[d]
  BY <1>1 DEF Rename, BoundInv, CopyInv, Shape, CopyFields
<1>3. \A d \in Dirs : dirs[d].name = "final" => dirs[d].of # db
  BY <1>1 DEF BoundInv, NewCopy, Naming
<1> QED
  BY <1>1, <1>2, <1>3 DEF BoundInv, Distinct, OnePartial, NewCopy, Naming

LEMMA SyncParentBound ==
  ASSUME BoundInv, CopyInv', SyncParent
  PROVE  BoundInv'
<1>1. \A d \in Dirs : dirs'[d] = [dirs[d] EXCEPT !.flushed = @ \union {"name"}]
  BY DEF SyncParent
<1>2. \A d \in Dirs : dirs'[d].name = dirs[d].name /\ dirs'[d].of = dirs[d].of
  BY <1>1 DEF BoundInv, CopyInv, Shape, CopyFields
<1>3. at' = "begin" /\ mine' = mine
  BY DEF SyncParent, Go
<1> QED
  BY <1>2, <1>3, NamesKept DEF BoundInv, OnePartial, NewCopy, Naming

\* A loss of power takes names away, or gives a partial one back.
LEMMA OutageBound ==
  ASSUME BoundInv, CopyInv', LosePower
  PROVE  BoundInv'
<1>1. /\ at' = "down" /\ mine' = None
      /\ \A d \in Dirs : dirs'[d] \in AfterOutage(dirs[d])
  BY DEF LosePower, Ended
<1>2. \A d \in Dirs : dirs'[d].name = "final" =>
        dirs[d].name = "final" /\ dirs'[d].of = dirs[d].of
  BY <1>1, OutageKeeps DEF BoundInv, CopyInv, Shape
<1> QED
  BY <1>1, <1>2 DEF BoundInv, Distinct, OnePartial, NewCopy, Naming

LEMMA BoundInvStep ==
  ASSUME BoundInv, UpgradeAssumption, [UpgradeNext]_upgradeVars
  PROVE  BoundInv'
<1>1. CopyInv'
  BY CopyInvStep DEF BoundInv
<1>2. CASE Fails /\ mine = None
  <2>1. dirs' = dirs /\ mine' = None /\ at' = "down" /\ db' = db
    BY <1>2 DEF Fails, Ended
  <2> QED
    BY <1>1, <2>1, QuietBound DEF Naming
<1>3. CASE \/ \E b \in BOOLEAN : Start(b) \/ OldRelease(b)
           \/ RemoveOrphanedRows \/ CheckCopySpace \/ VerifyCopy
           \/ Begin \/ Migrate \/ Commit \/ SetJournal \/ Killed
  BY <1>1, <1>3, StartsBound
<1>4. CASE RemoveAbandonedCopies
  BY <1>1, <1>4, SweepBound
<1>5. CASE \E d \in Dirs : MakePartial(d)
  BY <1>1, <1>5, MakeBound
<1>6. CASE \/ VacuumInto \/ WriteManifest \/ SyncCopy \/ SyncPartial
           \/ ReuseCopy \/ (Fails /\ mine # None)
  BY <1>1, <1>6, WriteBound
<1>7. CASE KeepCopy
  BY <1>1, <1>7, KeepBound
<1>8. CASE Rename
  BY <1>1, <1>8, RenameBound
<1>9. CASE SyncParent
  BY <1>1, <1>9, SyncParentBound
<1>10. CASE LosePower
  BY <1>1, <1>10, OutageBound
<1>11. CASE Fails
  <2>1. CASE mine = None
    BY <1>11, <1>2, <2>1
  <2>2. CASE mine # None
    BY <1>11, <1>6, <2>2
  <2> QED
    BY <2>1, <2>2
<1>12. CASE \E b \in BOOLEAN : Start(b) \/ OldRelease(b)
  BY <1>12, <1>3
<1>13. CASE VacuumInto \/ WriteManifest
  BY <1>13, <1>6
<1>14. CASE SyncCopy \/ SyncPartial \/ ReuseCopy
  BY <1>14, <1>6
<1>15. CASE UNCHANGED upgradeVars
  <2>1. dirs' = dirs /\ mine' = mine /\ at' = at /\ db' = db
    BY <1>15 DEF upgradeVars
  <2> QED
    BY <1>1, <2>1, QuietBound DEF Naming
<1>16. CASE RemoveOrphanedRows \/ CheckCopySpace \/ VerifyCopy \/ Killed
  BY <1>16, <1>3
<1>17. CASE Begin \/ Migrate \/ Commit \/ SetJournal
  BY <1>17, <1>3
<1> QED
  BY <1>4, <1>5, <1>7, <1>8, <1>9, <1>10, <1>11, <1>12, <1>13, <1>14,
     <1>15, <1>16, <1>17 DEF UpgradeNext

\* Starts that fail again and again do not fill the disk with copies: no two
\* complete copies hold the same database (identicalCopy), and a start that
\* copies has removed what killed starts left (removeAbandonedCopies).
THEOREM CopiesFew == UpgradeAssumption => (UpgradeSpec => []CopiesBounded)
<1>1. BoundInv => CopiesBounded
  BY DEF BoundInv, CopyInv, MineOK, Distinct, OnePartial, CopiesBounded, Final,
         Partial, Named
<1>2. UpgradeInit => BoundInv
  <2>1. UpgradeInit => CopyInv
    BY CopyInvInit
  <2>2. UpgradeInit => Distinct /\ OnePartial /\ NewCopy
    BY DEF UpgradeInit, Distinct, OnePartial, NewCopy, NoCopy, Naming
  <2> QED
    BY <2>1, <2>2 DEF BoundInv
<1>3. ASSUME UpgradeAssumption
      PROVE  UpgradeSpec => []CopiesBounded
  <2>1. BoundInv /\ [UpgradeNext]_upgradeVars => BoundInv'
    BY <1>3, BoundInvStep
  <2> QED
    BY <1>1, <1>2, <2>1, PTL DEF UpgradeSpec
<1> QED
  BY <1>3

----------------------------------------------------------------------------
(* The upgrade of PostgreSQL. *)

HoldingSteps == {"look", "look_again", "migrate", "cancel"}

Process == [pc : Steps, read : 0 .. CurrentSchema, done : Nat]

LockShape ==
  /\ schema \in 0 .. CurrentSchema + 1
  /\ proc \in [Processes -> Process]
  /\ DOMAIN applied = 1 .. CurrentSchema
  /\ applied \in [1 .. CurrentSchema -> {0, 1}]

\* The lock is held by the one process that looks at the schema or changes it.
HolderOK == \A p \in Processes : proc[p].pc \in HoldingSteps => holder = p

\* What a process has read is so for as long as it goes by it.
ReadOK ==
  \A p \in Processes :
    /\ proc[p].pc \in {"lock_upgrade", "look_again"} =>
         schema \in 1 .. CurrentSchema
    /\ proc[p].pc \in {"migrate", "cancel"} =>
         proc[p].read = schema /\ schema \in 1 .. CurrentSchema - 1
    /\ proc[p].pc = "up" => schema = CurrentSchema

AppliedOK ==
  \A v \in 1 .. CurrentSchema : applied[v] = 1 => schema = CurrentSchema

UpgradeInv == LockShape /\ HolderOK /\ ReadOK /\ AppliedOK /\ LeftLockExcused

----------------------------------------------------------------------------
LEMMA InitUpgradeInv == LockAssumption /\ LockInit => UpgradeInv
BY DEF Process, LockAssumption, LockInit, UpgradeInv, LockShape, HolderOK, ReadOK,
  AppliedOK, LeftLockExcused, HoldingSteps, Off, Steps, NoOne, Left

\* A step of p that leaves the schema alone.
LEMMA SchemaAlone ==
  ASSUME LockAssumption, UpgradeInv, NEW p \in Processes,
         NEW q \in Process,
         proc' = [proc EXCEPT ![p] = q],
         schema' = schema, applied' = applied,
         q.pc \in {"lock_upgrade", "look_again"} => schema \in 1 .. CurrentSchema,
         q.pc \in {"migrate", "cancel"} =>
           q.read = schema /\ schema \in 1 .. CurrentSchema - 1,
         q.pc = "up" => schema = CurrentSchema
  PROVE  LockShape' /\ ReadOK' /\ AppliedOK'
BY DEF UpgradeInv, LockShape, ReadOK, AppliedOK

\* The end of the holder's transaction, which leaves the lock to others.
LEMMA HolderGone ==
  ASSUME LockAssumption, UpgradeInv, NEW p \in Processes, holder = p,
         NEW q \in Process,
         proc' = [proc EXCEPT ![p] = q], q.pc \notin HoldingSteps
  PROVE  \A r \in Processes : proc'[r].pc \notin HoldingSteps
BY DEF UpgradeInv, LockShape, HolderOK

\* A transaction that ends without a change.
LEMMA RollsBackInv ==
  ASSUME LockAssumption, UpgradeInv, NEW p \in Processes, holder = p,
         NEW q \in Process,
         proc' = [proc EXCEPT ![p] = q], q.pc \notin HoldingSteps,
         q.pc = "lock_upgrade" => schema \in 1 .. CurrentSchema,
         q.pc = "up" => schema = CurrentSchema,
         RollsBack, unsent' = unsent
  PROVE  UpgradeInv'
<1>1. schema' = schema /\ holder' = NoOne /\ applied' = applied
  BY DEF RollsBack, EndsTransaction, UpgradeInv, LockShape
<1>2. LockShape' /\ ReadOK' /\ AppliedOK'
  BY <1>1, SchemaAlone DEF HoldingSteps
<1>3. HolderOK'
  BY HolderGone DEF HolderOK
<1>4. LeftLockExcused'
  BY <1>1 DEF LeftLockExcused, NoOne, Left
<1> QED
  BY <1>2, <1>3, <1>4 DEF UpgradeInv

\* A transaction that creates the tables, or runs every step that is left.
LEMMA CommitsInv ==
  ASSUME LockAssumption, UpgradeInv, NEW p \in Processes, holder = p,
         NEW from \in 0 .. CurrentSchema,
         NEW q \in Process,
         \/ from = CurrentSchema
         \/ from = schema /\ schema < CurrentSchema,
         EndsTransaction(CurrentSchema, from + 1 .. CurrentSchema),
         proc' = [proc EXCEPT ![p] = q], q.pc \in {"up", "off"},
         unsent' = unsent
  PROVE  UpgradeInv'
<1>1. schema' = CurrentSchema /\ holder' = NoOne
  BY DEF EndsTransaction
<1>2. applied' \in [1 .. CurrentSchema -> {0, 1}]
  <2>1. CASE from = CurrentSchema
    <3>1. from + 1 .. CurrentSchema = {}
      BY <2>1 DEF LockAssumption
    <3> QED
      BY <3>1 DEF EndsTransaction, UpgradeInv, LockShape
  <2>2. CASE from = schema /\ schema < CurrentSchema
    <3>1. \A v \in 1 .. CurrentSchema : applied[v] = 0
      BY <2>2 DEF UpgradeInv, LockShape, AppliedOK
    <3> QED
      BY <3>1 DEF EndsTransaction, UpgradeInv, LockShape
  <2> QED
    BY <2>1, <2>2
<1>3. \A r \in Processes : proc'[r].pc \notin HoldingSteps
  BY HolderGone DEF HoldingSteps
<1>4. LockShape'
  BY <1>1, <1>2 DEF UpgradeInv, LockShape, LockAssumption
<1>5. ReadOK'
  BY <1>1, <1>3 DEF ReadOK, HoldingSteps, LockAssumption
<1>6. HolderOK' /\ AppliedOK' /\ LeftLockExcused'
  BY <1>1, <1>3 DEF HolderOK, AppliedOK, LeftLockExcused, NoOne, Left
<1> QED
  BY <1>4, <1>5, <1>6 DEF UpgradeInv

\* A step that moves p on and leaves the lock as it is.
LEMMA LockKept ==
  ASSUME LockAssumption, UpgradeInv, NEW p \in Processes,
         NEW q \in Process,
         proc' = [proc EXCEPT ![p] = q],
         q.pc \in HoldingSteps => holder = p,
         q.pc \in {"lock_upgrade", "look_again"} => schema \in 1 .. CurrentSchema,
         q.pc \in {"migrate", "cancel"} =>
           q.read = schema /\ schema \in 1 .. CurrentSchema - 1,
         q.pc = "up" => schema = CurrentSchema,
         UNCHANGED <<schema, holder, applied, unsent>>
  PROVE  UpgradeInv'
<1>1. LockShape' /\ ReadOK' /\ AppliedOK'
  BY SchemaAlone
<1>2. HolderOK' /\ LeftLockExcused'
  BY DEF UpgradeInv, LockShape, HolderOK, LeftLockExcused
<1> QED
  BY <1>1, <1>2 DEF UpgradeInv

LEMMA AbandonsInv ==
  ASSUME LockAssumption, UpgradeInv, NEW p \in Processes, Abandons(p)
  PROVE  UpgradeInv'
<1>1. /\ proc' = [proc EXCEPT ![p] = Off] /\ schema' = schema
      /\ applied' = applied
  BY DEF Abandons, Exit
<1>2. Off \in Process /\ Off.pc = "off"
  BY DEF Off, Process, Steps, LockAssumption
<1>3. LockShape' /\ ReadOK' /\ AppliedOK'
  BY <1>1, <1>2, SchemaAlone
<1>4. HolderOK'
  BY <1>1, <1>2 DEF Abandons, UpgradeInv, LockShape, HolderOK, HoldingSteps
<1>5. LeftLockExcused'
  BY DEF Abandons, UpgradeInv, LeftLockExcused, LockAssumption, NoOne, Left
<1> QED
  BY <1>3, <1>4, <1>5 DEF UpgradeInv

----------------------------------------------------------------------------
LEMMA NextUpgradeInv ==
  LockAssumption /\ UpgradeInv /\ [LockNext]_lockVars => UpgradeInv'
<1> SUFFICES ASSUME LockAssumption, UpgradeInv, [LockNext]_lockVars
             PROVE  UpgradeInv'
  OBVIOUS
<1>1. Off \in Process /\ Off.pc = "off"
  BY DEF Off, Process, Steps, LockAssumption
<1>2. ASSUME NEW p \in Processes, NEW step \in Steps, Goto(p, step)
      PROVE  \E q \in Process :
               /\ q.pc = step /\ q.read = proc[p].read
               /\ proc' = [proc EXCEPT ![p] = q]
  <2> DEFINE q == [proc[p] EXCEPT !.pc = step]
  <2>1. proc[p] \in Process
    BY DEF UpgradeInv, LockShape
  <2>2. q \in Process /\ q.pc = step /\ q.read = proc[p].read
    BY <2>1 DEF Process
  <2>3. proc' = [proc EXCEPT ![p] = q]
    BY <1>2 DEF Goto
  <2> QED
    BY <2>2, <2>3
<1>3. ASSUME NEW p \in Processes, proc[p].pc \in HoldingSteps PROVE holder = p
  BY <1>3 DEF UpgradeInv, HolderOK
<1>4. ASSUME NEW p \in Processes, StartProcess(p) PROVE UpgradeInv'
  <2>1. PICK q \in Process :
          q.pc = "lock_initialize" /\ proc' = [proc EXCEPT ![p] = q]
    BY <1>2, <1>4 DEF StartProcess, Steps
  <2>2. UNCHANGED <<schema, holder, applied, unsent>>
    BY <1>4 DEF StartProcess
  <2> QED
    BY <2>1, <2>2, LockKept DEF HoldingSteps
<1>5. ASSUME NEW p \in Processes, Lock(p) PROVE UpgradeInv'
  <2> DEFINE step == IF proc[p].pc = "lock_initialize" THEN "look"
                                                       ELSE "look_again"
  <2>1. /\ holder = NoOne /\ holder' = p /\ Goto(p, step)
        /\ UNCHANGED <<schema, running, starts, applied, unsent>>
    BY <1>5 DEF Lock
  <2>2. step \in Steps /\ (step = "look_again" => schema \in 1 .. CurrentSchema)
    BY <1>5 DEF Lock, AwaitsLock, Steps, UpgradeInv, ReadOK
  <2>3. LockShape' /\ ReadOK' /\ AppliedOK'
    <3>1. step \in {"look", "look_again"}
      OBVIOUS
    <3>2. PICK q \in Process : q.pc = step /\ proc' = [proc EXCEPT ![p] = q]
      BY <1>2, <2>1, <2>2
    <3> QED
      BY <2>1, <2>2, <3>1, <3>2, SchemaAlone
  <2>4. \A r \in Processes : r # p => proc'[r].pc \notin HoldingSteps
    BY <2>1 DEF Goto, UpgradeInv, LockShape, HolderOK, LockAssumption, NoOne
  <2>5. HolderOK' /\ LeftLockExcused'
    BY <2>1, <2>4 DEF HolderOK, LeftLockExcused, LockAssumption, Left
  <2> QED
    BY <2>3, <2>5 DEF UpgradeInv
<1>6. ASSUME NEW p \in Processes, LockTimeout(p) PROVE UpgradeInv'
  BY <1>1, <1>6, LockKept DEF LockTimeout, Exit, HoldingSteps
<1>7. ASSUME NEW p \in Processes, CreateTables(p) PROVE UpgradeInv'
  <2>1. CurrentSchema + 1 .. CurrentSchema = {}
    BY DEF LockAssumption
  <2>2. PICK q \in Process :
          q.pc \in {"up", "off"} /\ proc' = [proc EXCEPT ![p] = q]
    BY <1>1, <1>2, <1>7 DEF CreateTables, Exit, Steps
  <2>3. /\ holder = p /\ CurrentSchema \in 0 .. CurrentSchema
        /\ EndsTransaction(CurrentSchema, {}) /\ unsent' = unsent
    BY <1>3, <1>7 DEF CreateTables, HoldingSteps, LockAssumption
  <2> QED
    BY <2>1, <2>2, <2>3, CommitsInv
<1>8. ASSUME NEW p \in Processes, FindCurrent(p) \/ AlreadyUpgraded(p)
      PROVE  UpgradeInv'
  <2>1. PICK q \in Process : q.pc = "up" /\ proc' = [proc EXCEPT ![p] = q]
    BY <1>2, <1>8 DEF FindCurrent, AlreadyUpgraded, Steps
  <2>2. holder = p /\ schema = CurrentSchema /\ RollsBack /\ unsent' = unsent
    BY <1>3, <1>8 DEF FindCurrent, AlreadyUpgraded, VersionUnderLock, HoldingSteps
  <2> QED
    BY <2>1, <2>2, RollsBackInv DEF HoldingSteps
<1>9. ASSUME NEW p \in Processes, FindOlder(p) PROVE UpgradeInv'
  <2> DEFINE q == [pc |-> "lock_upgrade", read |-> schema, done |-> schema]
  <2>1. q \in Process /\ schema \in 1 .. CurrentSchema
    BY <1>9 DEF FindOlder, Process, Steps, LockAssumption
  <2> QED
    BY <1>3, <1>9, <2>1, RollsBackInv DEF FindOlder, HoldingSteps
<1>10. ASSUME NEW p \in Processes,
              InitializeFails(p) \/ MigrationFails(p) \/ Canceled(p)
       PROVE  UpgradeInv'
  BY <1>1, <1>3, <1>10, RollsBackInv
  DEF InitializeFails, Looking, MigrationFails, Canceled, Exit, HoldingSteps
<1>11. ASSUME NEW p \in Processes, BeginUpgrade(p) PROVE UpgradeInv'
  <2> DEFINE q == [pc |-> "migrate", read |-> schema, done |-> schema]
  <2>1. schema \in 1 .. CurrentSchema - 1 /\ q \in Process
    BY <1>11 DEF BeginUpgrade, VersionUnderLock, UpgradeInv, ReadOK, Process,
         Steps, LockAssumption
  <2>2. /\ holder = p /\ proc' = [proc EXCEPT ![p] = q]
        /\ UNCHANGED <<schema, holder, applied, unsent>>
    BY <1>3, <1>11 DEF BeginUpgrade, VersionUnderLock, HoldingSteps
  <2> QED
    BY <2>1, <2>2, LockKept
<1>12. ASSUME NEW p \in Processes, RunStatement(p) PROVE UpgradeInv'
  BY <1>12 DEF RunStatement, UpgradeInv, LockShape, HolderOK, ReadOK, AppliedOK,
       LeftLockExcused
<1>13. ASSUME NEW p \in Processes, StatementEnds(p) PROVE UpgradeInv'
  <2> DEFINE q == [proc[p] EXCEPT !.done = @ + 1]
  <2>1. /\ proc[p].pc = "migrate" /\ proc' = [proc EXCEPT ![p] = q]
        /\ UNCHANGED <<schema, holder, applied, unsent>>
    BY <1>13 DEF StatementEnds
  <2>2. /\ proc[p].read = schema /\ schema \in 1 .. CurrentSchema - 1
        /\ holder = p
    BY <1>3, <2>1 DEF UpgradeInv, ReadOK, HoldingSteps
  <2>3. proc[p] \in Process
    BY DEF UpgradeInv, LockShape
  <2>4. q \in Process /\ q.pc = "migrate" /\ q.read = schema
    BY <2>1, <2>2, <2>3 DEF Process
  <2> HIDE DEF q
  <2> QED
    BY <2>1, <2>2, <2>4, LockKept
<1>14. ASSUME NEW p \in Processes, CommitUpgrade(p) PROVE UpgradeInv'
  <2>1. /\ proc[p].read = schema /\ schema \in 1 .. CurrentSchema - 1
        /\ holder = p
    BY <1>3, <1>14 DEF CommitUpgrade, UpgradeInv, ReadOK, HoldingSteps
  <2>2. EndsTransaction(CurrentSchema, schema + 1 .. CurrentSchema)
    BY <1>14, <2>1 DEF CommitUpgrade, Committed
  <2>3. PICK q \in Process :
          q.pc \in {"up", "off"} /\ proc' = [proc EXCEPT ![p] = q]
    BY <1>1, <1>2, <1>14 DEF CommitUpgrade, Exit, Steps
  <2>4. /\ unsent' = unsent /\ schema \in 0 .. CurrentSchema
        /\ schema < CurrentSchema
    BY <1>14, <2>1 DEF CommitUpgrade, LockAssumption
  <2> QED
    BY <2>1, <2>2, <2>3, <2>4, CommitsInv
<1>15. ASSUME NEW p \in Processes, Interrupted(p) PROVE UpgradeInv'
  <2>1. /\ proc[p].pc = "migrate" /\ Goto(p, "cancel")
        /\ UNCHANGED <<schema, holder, applied, unsent>>
    BY <1>15 DEF Interrupted, InterruptedCancels
  <2>2. /\ proc[p].read = schema /\ schema \in 1 .. CurrentSchema - 1
        /\ holder = p
    BY <1>3, <2>1 DEF UpgradeInv, ReadOK, HoldingSteps
  <2>3. PICK q \in Process : /\ q.pc = "cancel" /\ q.read = proc[p].read
                             /\ proc' = [proc EXCEPT ![p] = q]
    BY <1>2, <2>1 DEF Steps
  <2> QED
    BY <2>1, <2>2, <2>3, LockKept
<1>16. ASSUME NEW p \in Processes,
              StartLimit(p) \/ CancelFails(p) \/ KillProcess(p)
       PROVE  UpgradeInv'
  BY <1>16, AbandonsInv DEF StartLimit, CancelFails, KillProcess
<1>17. CASE LeftSessionEnds
  <2>1. \A p \in Processes : proc[p].pc \notin HoldingSteps
    BY <1>17 DEF LeftSessionEnds, UpgradeInv, HolderOK, LockAssumption
  <2> QED
    BY <1>17, <2>1 DEF LeftSessionEnds, UpgradeInv, LockShape, HolderOK, ReadOK,
         AppliedOK, LeftLockExcused, NoOne, Left
<1>18. CASE UNCHANGED lockVars
  BY <1>18 DEF lockVars, UpgradeInv, LockShape, HolderOK, ReadOK, AppliedOK,
       LeftLockExcused
<1> QED
  BY <1>4, <1>5, <1>6, <1>7, <1>8, <1>9, <1>10, <1>11, <1>12, <1>13, <1>14,
     <1>15, <1>16, <1>17, <1>18 DEF LockNext

\* However starts overlap, are killed, interrupted or time out, each step of a
\* migration is committed once at most, with all that follow it, and a process
\* serves only the current schema (OpenPostgres, upgradePostgres).
THEOREM UpgradeOnce == LockAssumption => (LockSpec => []UpgradedOnce)
<1> SUFFICES ASSUME LockAssumption PROVE LockSpec => []UpgradedOnce
  OBVIOUS
<1>1. LockInit => UpgradeInv
  BY InitUpgradeInv
<1>2. UpgradeInv /\ [LockNext]_lockVars => UpgradeInv'
  BY NextUpgradeInv
<1>3. UpgradeInv => UpgradedOnce
  BY DEF UpgradeInv, LockShape, AppliedOK, ReadOK, UpgradedOnce
<1> QED
  BY <1>1, <1>2, <1>3, PTL DEF LockSpec

\* An upgrade that its limit or a signal ends leaves no statement with the lock
\* behind, unless the server cannot be reached: one is left by a process that is
\* killed, or that ends before it has registered the cancellation it waits for
\* (upgradePostgres).
THEOREM LockExcused == LockAssumption => (LockSpec => []LeftLockExcused)
<1> SUFFICES ASSUME LockAssumption PROVE LockSpec => []LeftLockExcused
  OBVIOUS
<1>1. LockInit => UpgradeInv
  BY InitUpgradeInv
<1>2. UpgradeInv /\ [LockNext]_lockVars => UpgradeInv'
  BY NextUpgradeInv
<1>3. UpgradeInv => LeftLockExcused
  BY DEF UpgradeInv
<1> QED
  BY <1>1, <1>2, <1>3, PTL DEF LockSpec

----------------------------------------------------------------------------
(* The types of both openings. *)

\* The types of an upgrade's variables, with the directories as a function.
UpgradeTyped == UpgradeTypeOK /\ dirs \in [Dirs -> Copy]

LEMMA UpgradeTypedInit ==
  ASSUME UpgradeAssumption, UpgradeInit
  PROVE  UpgradeTyped
<1>1. NoCopy \in Copy /\ NoDatabase \in Database
  BY DEF UpgradeAssumption, NoCopy, Copy, NoDatabase, Database, Schemas
<1>2. dirs \in [Dirs -> Copy]
  BY <1>1 DEF UpgradeInit
<1>3. db \in Database
  BY DEF UpgradeInit, UpgradeAssumption, Database
<1>4. /\ at \in StartSteps /\ skip \in BOOLEAN /\ loose \in BOOLEAN
      /\ mine = None /\ begun = db /\ origin = NoDatabase
  BY Zenon DEF UpgradeInit, StartSteps
<1>5. pending \in 0 .. Current /\ outages \in 0 .. MaxOutages
  BY DEF UpgradeInit, UpgradeAssumption
<1> QED
  BY <1>1, <1>2, <1>3, <1>4, <1>5, Zenon DEF UpgradeTyped, UpgradeTypeOK

\* The steps of a start that change no directory.
LEMMA StartTyped ==
  ASSUME UpgradeAssumption, UpgradeTyped,
         \/ \E b \in BOOLEAN : Start(b) \/ OldRelease(b)
         \/ RemoveOrphanedRows \/ CheckCopySpace \/ VerifyCopy \/ KeepCopy
         \/ Begin \/ Migrate \/ Commit \/ SetJournal \/ Killed
  PROVE  UpgradeTyped'
<1>1. dirs' = dirs /\ outages' = outages
  BY DEF Start, OldRelease, RemoveOrphanedRows, CheckCopySpace, VerifyCopy,
         KeepCopy, Begin, Migrate, Commit, SetJournal, Killed
<1>2. db' \in Database
  <2>1. CASE \E b \in BOOLEAN : OldRelease(b)
    <3>1. PICK b \in BOOLEAN : OldRelease(b)
      BY <2>1
    <3>2. db.data + 1 \in 0 .. MaxWrites
      <4>1. db \in Database /\ MaxWrites \in Nat /\ db.data < MaxWrites
        BY <3>1 DEF OldRelease, UpgradeTyped, UpgradeTypeOK, UpgradeAssumption
      <4>2. db.data \in 0 .. MaxWrites
        BY <4>1 DEF Database
      <4> QED
        BY <4>1, <4>2
    <3>3. db' = [db EXCEPT !.data = db.data + 1, !.orphans = (db.orphans \/ b)]
      BY <3>1, Zenon DEF OldRelease
    <3> DEFINE o == db.orphans \/ b
    <3>4. o \in BOOLEAN
      BY Zenon
    <3> HIDE DEF o
    <3>5. db' = [db EXCEPT !.data = db.data + 1, !.orphans = o]
      BY <3>3 DEF o
    <3> QED
      BY <3>2, <3>4, <3>5 DEF UpgradeTyped, UpgradeTypeOK, Database
  <2>2. CASE RemoveOrphanedRows
    BY <2>2 DEF RemoveOrphanedRows, UpgradeTyped, UpgradeTypeOK, Database
  <2>3. CASE Commit
    BY <2>3 DEF Commit, UpgradeTyped, UpgradeTypeOK, Database, Schemas,
                UpgradeAssumption
  <2>4. CASE UNCHANGED db
    BY <2>4 DEF UpgradeTyped, UpgradeTypeOK
  <2> QED
    BY <2>1, <2>2, <2>3, <2>4
    DEF Start, CheckCopySpace, VerifyCopy, KeepCopy, Begin, Migrate, SetJournal,
        Killed
<1>3. pending' \in 0 .. Current
  <2>1. /\ Current \in Nat /\ pending \in 0 .. Current
        /\ db.schema \in 0 .. Current + 1
    BY DEF UpgradeTyped, UpgradeTypeOK, UpgradeAssumption, Database, Schemas
  <2>2. CASE Begin \/ Migrate
    BY <2>1, <2>2 DEF Begin, Migrate
  <2>3. CASE pending' \in {0, pending}
    BY <2>1, <2>3
  <2> QED
    BY <2>2, <2>3
    DEF Start, OldRelease, RemoveOrphanedRows, CheckCopySpace, VerifyCopy,
        KeepCopy, Commit, SetJournal, Killed, Ended
<1>4. at' \in StartSteps
  BY DEF UpgradeTyped, UpgradeTypeOK, StartSteps, Go, AfterOrphans, Start,
         OldRelease, RemoveOrphanedRows, CheckCopySpace, VerifyCopy, KeepCopy,
         Begin, Migrate, Commit, SetJournal, Killed, Ended
<1>5. /\ skip' \in BOOLEAN /\ mine' \in Dirs \union {None}
      /\ begun' \in Database /\ origin' \in Database /\ loose' \in BOOLEAN
  BY DEF UpgradeTyped, UpgradeTypeOK, Start,
         OldRelease, RemoveOrphanedRows, CheckCopySpace, VerifyCopy, KeepCopy,
         Begin, Migrate, Commit, SetJournal, Killed, Ended
<1> QED
  BY <1>1, <1>2, <1>3, <1>4, <1>5 DEF UpgradeTyped, UpgradeTypeOK

\* The steps that change a directory.
LEMMA DirsTyped ==
  ASSUME UpgradeAssumption, UpgradeTyped,
         \/ RemoveAbandonedCopies \/ \E d \in Dirs : MakePartial(d)
         \/ VacuumInto \/ ReuseCopy \/ WriteManifest \/ SyncCopy \/ SyncPartial
         \/ Rename \/ SyncParent \/ Fails
  PROVE  UpgradeTyped'
<1>1. NoCopy \in Copy /\ db \in Database /\ dirs \in [Dirs -> Copy]
  BY DEF NoCopy, Copy, NoDatabase, Database, Schemas, UpgradeAssumption,
         UpgradeTyped, UpgradeTypeOK
<1>2. dirs' \in [Dirs -> Copy]
  <2>1. CASE RemoveAbandonedCopies
    BY <2>1, <1>1 DEF RemoveAbandonedCopies, Swept
  <2>2. CASE \E d \in Dirs : MakePartial(d)
    BY <2>2, <1>1 DEF MakePartial, Copy, Flushes
  <2>3. CASE dirs' = dirs \/ dirs' = Discarded
    BY <2>3, <1>1 DEF Discarded
  <2>4. CASE VacuumInto \/ WriteManifest \/ Rename
    <3>1. ASSUME NEW c \in Copy
          PROVE  /\ [c EXCEPT !.torn = FALSE] \in Copy
                 /\ [c EXCEPT !.manifest = TRUE] \in Copy
                 /\ [c EXCEPT !.name = "final"] \in Copy
      BY DEF Copy
    <3> QED
      BY <1>1, <2>4, <3>1 DEF VacuumInto, WriteManifest, Rename
  <2>5. CASE SyncCopy \/ SyncPartial
    <3>1. PICK file \in {"copy", "manifest"} :
            dirs' = [dirs EXCEPT ![mine].flushed = @ \union {file}]
      BY <2>5, Zenon DEF SyncCopy, CopyFlushed, SyncPartial
    <3>2. ASSUME NEW c \in Copy
          PROVE  [c EXCEPT !.flushed = @ \union {file}] \in Copy
      BY DEF Copy, Flushes
    <3> QED
      BY <1>1, <3>1, <3>2
  <2>6. CASE SyncParent
    BY <2>6, <1>1 DEF SyncParent, Copy, Flushes
  <2> QED
    BY <2>1, <2>2, <2>3, <2>4, <2>5, <2>6 DEF ReuseCopy, Fails
<1>3. at' \in StartSteps
  BY DEF StartSteps, Go, Ended, RemoveAbandonedCopies, MakePartial, VacuumInto,
         ReuseCopy, WriteManifest, SyncCopy, SyncPartial, Rename, SyncParent,
         Fails
<1>4. mine' \in Dirs \union {None} /\ UNCHANGED <<db, skip, outages, begun, origin>>
  BY Zenon
  DEF UpgradeTyped, UpgradeTypeOK, Ended, RemoveAbandonedCopies, MakePartial,
      VacuumInto, ReuseCopy, WriteManifest, SyncCopy, SyncPartial, Rename,
      SyncParent, Fails
<1>5. pending' \in 0 .. Current
  <2>1. pending' \in {0, pending}
    BY DEF Ended, RemoveAbandonedCopies, MakePartial, VacuumInto, ReuseCopy,
           WriteManifest, SyncCopy, SyncPartial, Rename, SyncParent, Fails
  <2> QED
    BY <2>1 DEF UpgradeTyped, UpgradeTypeOK, UpgradeAssumption
<1>6. loose' \in BOOLEAN
  <2>1. CASE ReuseCopy
    BY <2>1, Zenon DEF ReuseCopy
  <2>2. CASE loose' = loose
    BY <2>2 DEF UpgradeTyped, UpgradeTypeOK
  <2> QED
    BY <2>1, <2>2
    DEF RemoveAbandonedCopies, MakePartial, VacuumInto, WriteManifest, SyncCopy,
        SyncPartial, Rename, SyncParent, Fails
<1> QED
  BY <1>2, <1>3, <1>4, <1>5, <1>6, Zenon DEF UpgradeTyped, UpgradeTypeOK

LEMMA OutageTyped ==
  ASSUME UpgradeAssumption, UpgradeTyped, LosePower
  PROVE  UpgradeTyped'
<1>1. dirs' \in [Dirs -> Copy]
  <2>1. NoCopy \in Copy
    BY DEF NoCopy, Copy, NoDatabase, Database, Schemas, UpgradeAssumption
  <2>2. ASSUME NEW c \in Copy
        PROVE  AfterOutage(c) \subseteq Copy
    <3>1. ASSUME NEW lost \in SUBSET AtRisk(c)
          PROVE  Without(c, lost) \in Copy
      BY DEF Without, Copy, Flushes
    <3> QED
      BY <2>1, <3>1 DEF AfterOutage
  <2>3. \A d \in Dirs : dirs[d] \in Copy
    BY DEF UpgradeTyped
  <2>4. /\ dirs' \in [Dirs -> UNION {AfterOutage(dirs[d]) : d \in Dirs}]
        /\ \A d \in Dirs : dirs'[d] \in AfterOutage(dirs[d])
    BY Zenon DEF LosePower
  <2>5. \A d \in Dirs : dirs'[d] \in Copy
    BY <2>2, <2>3, <2>4
  <2> QED
    BY <2>4, <2>5
<1>2. /\ outages' \in 0 .. MaxOutages /\ at' \in StartSteps
      /\ pending' \in 0 .. Current /\ mine' = None
      /\ UNCHANGED <<db, skip, begun, origin, loose>>
  BY DEF LosePower, Ended, UpgradeTyped, UpgradeTypeOK, UpgradeAssumption,
         StartSteps
<1> QED
  BY <1>1, <1>2 DEF UpgradeTyped, UpgradeTypeOK

\* The variables of an opening of SQLite keep their types.
THEOREM UpgradeNamed == UpgradeAssumption => (UpgradeSpec => []UpgradeTypeOK)
<1> SUFFICES ASSUME UpgradeAssumption PROVE UpgradeSpec => []UpgradeTypeOK
  OBVIOUS
<1>1. UpgradeInit => UpgradeTyped
  BY UpgradeTypedInit
<1>2. UpgradeTyped /\ [UpgradeNext]_upgradeVars => UpgradeTyped'
  <2> SUFFICES ASSUME UpgradeTyped, [UpgradeNext]_upgradeVars
               PROVE  UpgradeTyped'
    OBVIOUS
  <2>1. CASE UNCHANGED upgradeVars
    BY <2>1 DEF upgradeVars, UpgradeTyped, UpgradeTypeOK
  <2>2. CASE UpgradeNext
    BY <2>2, StartTyped, DirsTyped, OutageTyped, Zenon DEF UpgradeNext
  <2> QED
    BY <2>1, <2>2
<1>3. UpgradeTyped => UpgradeTypeOK
  BY DEF UpgradeTyped
<1> QED
  BY <1>1, <1>2, <1>3, PTL DEF UpgradeSpec

----------------------------------------------------------------------------
\* The statement that runs is one of the holder's transaction, or of a left
\* one's; there is a step for it, and there was a start.
LockTyped ==
  /\ holder \in Processes \union {NoOne, Left}
  /\ running \in BOOLEAN /\ unsent \in BOOLEAN /\ starts \in 0 .. MaxStarts
  /\ running => holder # NoOne
  /\ \A p \in Processes :
       /\ proc[p].done \in 0 .. CurrentSchema
       /\ proc[p].pc # "off" => starts > 0
       /\ proc[p].pc = "migrate" /\ running => proc[p].done < CurrentSchema
  /\ \A v \in 1 .. CurrentSchema : applied[v] = 1 => starts > 0

LEMMA LockTypedInit ==
  ASSUME LockAssumption, LockInit
  PROVE  LockTyped
<1>1. /\ CurrentSchema \in Nat /\ MaxStarts \in Nat /\ starts = 0
      /\ \A p \in Processes : proc[p].pc = "off" /\ proc[p].done = 0
      /\ \A v \in 1 .. CurrentSchema : applied[v] = 0
  BY DEF LockAssumption, LockInit, Off
<1>2. holder = NoOne /\ ~running /\ running \in BOOLEAN /\ unsent \in BOOLEAN
  BY Zenon DEF LockInit
<1> QED
  BY <1>1, <1>2 DEF LockTyped

\* A step of p to q that leaves what runs alone.
LEMMA OneMoves ==
  ASSUME LockAssumption, UpgradeInv, LockTyped, NEW p \in Processes,
         NEW q \in Process, proc' = [proc EXCEPT ![p] = q],
         q.done \in 0 .. CurrentSchema,
         starts' \in 0 .. MaxStarts, starts' >= starts,
         q.pc # "off" => starts' > 0,
         q.pc = "migrate" /\ running' => q.done < CurrentSchema,
         holder' \in Processes \union {NoOne, Left},
         running' => running /\ holder' # NoOne,
         running' \in BOOLEAN, unsent' \in BOOLEAN, applied' = applied
  PROVE  LockTyped'
<1>1. proc \in [Processes -> Process] /\ starts \in Nat
  BY DEF UpgradeInv, LockShape, LockTyped, LockAssumption
<1> QED
  BY <1>1 DEF LockTyped, LockAssumption

\* The end of a transaction, whether it commits or not.
LEMMA OneEnds ==
  ASSUME LockAssumption, UpgradeInv, LockTyped, NEW p \in Processes,
         NEW q \in Process, proc' = [proc EXCEPT ![p] = q],
         q.done \in 0 .. CurrentSchema, proc[p].pc # "off",
         NEW version, NEW steps, EndsTransaction(version, steps),
         UNCHANGED <<starts, unsent>>
  PROVE  LockTyped'
<1>1. /\ proc \in [Processes -> Process]
      /\ applied \in [1 .. CurrentSchema -> {0, 1}]
      /\ starts \in Nat /\ starts > 0
  BY DEF UpgradeInv, LockShape, LockTyped, LockAssumption
<1>2. holder' = NoOne /\ running' = FALSE
  BY DEF EndsTransaction
<1> QED
  BY <1>1, <1>2 DEF LockTyped, LockAssumption

LEMMA LockTypedNext ==
  ASSUME LockAssumption, UpgradeInv, LockTyped, [LockNext]_lockVars
  PROVE  LockTyped'
<1>1. /\ proc \in [Processes -> Process] /\ CurrentSchema \in Nat \ {0}
      /\ MaxStarts \in Nat /\ starts \in Nat
  BY DEF UpgradeInv, LockShape, LockTyped, LockAssumption
<1>2. Off \in Process /\ Off.done = 0 /\ Off.pc = "off"
  BY <1>1 DEF Off, Process, Steps
<1>3. ASSUME NEW p \in Processes, NEW pc \in Steps
      PROVE  [proc[p] EXCEPT !.pc = pc] \in Process
             /\ [proc[p] EXCEPT !.pc = pc].done = proc[p].done
             /\ [proc[p] EXCEPT !.pc = pc].pc = pc
  BY <1>1 DEF Process
<1>4. CASE UNCHANGED lockVars
  BY <1>4 DEF lockVars, LockTyped
<1>5. ASSUME NEW p \in Processes,
             StartProcess(p) \/ Lock(p) \/ LockTimeout(p) \/ StartLimit(p)
               \/ BeginUpgrade(p) \/ Interrupted(p) \/ CancelFails(p)
               \/ KillProcess(p)
      PROVE  LockTyped'
  <2>1. CASE StartProcess(p)
    <3> DEFINE q == [proc[p] EXCEPT !.pc = "lock_initialize"]
    <3>1. proc' = [proc EXCEPT ![p] = q]
      BY <1>1, <2>1 DEF StartProcess, Goto
    <3>2. q \in Process /\ q.done \in 0 .. CurrentSchema
          /\ q.pc = "lock_initialize"
      BY <1>3 DEF LockTyped, Steps
    <3>3. starts' \in 0 .. MaxStarts /\ starts' >= starts /\ starts' > 0
      BY <1>1, <2>1 DEF StartProcess
    <3> HIDE DEF q
    <3>4. /\ holder' = holder /\ running' = running
          /\ unsent' = unsent /\ applied' = applied
      BY <2>1 DEF StartProcess
    <3> QED
      BY <3>1, <3>2, <3>3, <3>4, OneMoves DEF LockTyped, HoldingSteps
  <2>2. CASE Lock(p)
    <3>1. PICK pc \in {"look", "look_again"} :
            proc' = [proc EXCEPT ![p] = [proc[p] EXCEPT !.pc = pc]]
      BY <1>1, <2>2 DEF Lock, Goto
    <3>2. ~running /\ starts > 0
      BY <2>2 DEF Lock, AwaitsLock, LockTyped
    <3> DEFINE q == [proc[p] EXCEPT !.pc = pc]
    <3>3. q \in Process /\ q.done \in 0 .. CurrentSchema
      <4>1. pc \in Steps
        BY DEF Steps
      <4>2. q \in Process /\ q.done = proc[p].done
        BY <1>3, <4>1
      <4> QED
        BY <4>2 DEF LockTyped
    <3>4. proc' = [proc EXCEPT ![p] = q]
      BY <3>1
    <3> HIDE DEF q
    <3>5. /\ holder' = p /\ starts' = starts /\ running' = running
          /\ unsent' = unsent /\ applied' = applied
      BY <2>2 DEF Lock
    <3> QED
      BY <1>1, <3>2, <3>3, <3>4, <3>5, OneMoves DEF LockTyped
  <2>3. CASE LockTimeout(p)
    BY <1>1, <1>2, <2>3, OneMoves DEF LockTimeout, Exit, LockTyped, HoldingSteps
  <2>4. CASE BeginUpgrade(p)
    <3>1. schema \in 1 .. CurrentSchema /\ proc[p].pc = "look_again"
      BY <2>4 DEF BeginUpgrade, UpgradeInv, ReadOK
    <3>2. starts > 0
      BY <3>1 DEF LockTyped
    <3> DEFINE q == [pc |-> "migrate", read |-> schema, done |-> schema]
    <3>3. q \in Process /\ q.done \in 0 .. CurrentSchema
      BY <1>1, <3>1 DEF Process, Steps
    <3>4. /\ proc' = [proc EXCEPT ![p] = q] /\ running' = FALSE
          /\ UNCHANGED <<holder, starts, applied, unsent>>
      BY <2>4 DEF BeginUpgrade, VersionUnderLock
    <3> HIDE DEF q
    <3> QED
      BY <1>1, <3>2, <3>3, <3>4, OneMoves DEF LockTyped
  <2>5. CASE Interrupted(p)
    <3>1. proc' = [proc EXCEPT ![p] = [proc[p] EXCEPT !.pc = "cancel"]]
      BY <1>1, <2>5 DEF Interrupted, InterruptedCancels, Goto
    <3>2. starts > 0
      BY <2>5 DEF Interrupted, LockTyped
    <3> QED
      BY <1>1, <1>3, <2>5, <3>1, <3>2, OneMoves
      DEF Interrupted, InterruptedCancels, LockTyped, Steps
  <2>6. CASE StartLimit(p) \/ CancelFails(p) \/ KillProcess(p)
    <3>1. Abandons(p)
      BY <2>6 DEF StartLimit, CancelFails, KillProcess
    <3>2. holder' \in Processes \union {NoOne, Left} /\ (running => holder' # NoOne)
      BY <3>1 DEF Abandons, LockTyped, LockAssumption, NoOne, Left
    <3>3. unsent' \in BOOLEAN
      BY <3>1, Zenon DEF Abandons
    <3> QED
      BY <1>1, <1>2, <3>1, <3>2, <3>3, OneMoves
      DEF Abandons, Exit, LockTyped, HoldingSteps
  <2> QED
    BY <1>5, <2>1, <2>2, <2>3, <2>4, <2>5, <2>6
<1>6. ASSUME NEW p \in Processes,
             CreateTables(p) \/ FindCurrent(p) \/ FindOlder(p) \/ InitializeFails(p)
               \/ AlreadyUpgraded(p) \/ CommitUpgrade(p) \/ MigrationFails(p)
               \/ Canceled(p)
      PROVE  LockTyped'
  <2>1. /\ \E version, steps : EndsTransaction(version, steps)
        /\ proc[p].pc # "off" /\ UNCHANGED <<starts, unsent>>
    BY <1>6, Zenon
    DEF CreateTables, FindCurrent, FindOlder, InitializeFails, Looking,
        AlreadyUpgraded,
        CommitUpgrade, MigrationFails, Canceled, RollsBack, Committed
  <2>2. CASE proc' = [proc EXCEPT ![p] = Off]
    <3>1. Off.done \in 0 .. CurrentSchema
      BY <1>1, <1>2
    <3> QED
      BY <1>2, <2>1, <2>2, <3>1, OneEnds, Zenon
  <2>3. CASE proc' = [proc EXCEPT ![p].pc = "up"]
    <3>1. proc' = [proc EXCEPT ![p] = [proc[p] EXCEPT !.pc = "up"]]
      BY <1>1, <2>3
    <3>2. proc[p].done \in 0 .. CurrentSchema
      BY DEF LockTyped
    <3> QED
      BY <1>1, <1>3, <2>1, <3>1, <3>2, OneEnds DEF Steps
  <2>4. CASE FindOlder(p)
    <3>1. [pc |-> "lock_upgrade", read |-> schema, done |-> schema] \in Process
          /\ schema \in 0 .. CurrentSchema
      BY <1>1, <2>4 DEF FindOlder, Process, Steps
    <3> QED
      BY <2>1, <2>4, <3>1, OneEnds DEF FindOlder
  <2> QED
    BY <1>6, <2>2, <2>3, <2>4
    DEF CreateTables, FindCurrent, InitializeFails, AlreadyUpgraded,
        CommitUpgrade, MigrationFails, Canceled, Goto, Exit
<1>7. ASSUME NEW p \in Processes, RunStatement(p)
      PROVE  LockTyped'
  <2>1. /\ proc[p].pc = "migrate" => proc[p].done < CurrentSchema
        /\ proc[p].pc \in HoldingSteps /\ holder = p
    BY <1>7 DEF RunStatement, Looking, UpgradeInv, HolderOK, HoldingSteps
  <2>2. \A r \in Processes : proc[r].pc = "migrate" => r = p
    BY <2>1 DEF UpgradeInv, HolderOK, HoldingSteps
  <2> QED
    BY <1>7, <2>1, <2>2 DEF RunStatement, LockTyped, LockAssumption, NoOne
<1>8. ASSUME NEW p \in Processes, StatementEnds(p)
      PROVE  LockTyped'
  <2>1. proc[p].pc = "migrate" /\ running /\ proc[p].done < CurrentSchema
        /\ proc[p].done \in 0 .. CurrentSchema
    BY <1>8 DEF StatementEnds, LockTyped, HoldingSteps
  <2>2. /\ proc' = [proc EXCEPT ![p].done = @ + 1] /\ running' = FALSE
        /\ UNCHANGED <<holder, starts, applied, unsent>>
    BY <1>8 DEF StatementEnds
  <2>3. \A r \in Processes :
          /\ proc'[r].pc = proc[r].pc /\ proc'[r].done \in 0 .. CurrentSchema
    BY <1>1, <2>1, <2>2 DEF LockTyped, Process
  <2> QED
    BY <2>2, <2>3 DEF LockTyped
<1>9. CASE LeftSessionEnds
  BY <1>9 DEF LeftSessionEnds, LockTyped
<1> QED
  BY <1>4, <1>5, <1>6, <1>7, <1>8, <1>9, Zenon DEF LockNext

\* The variables of an opening of PostgreSQL keep their types: the schema, who
\* holds its lock, and what every process and the server are at.
THEOREM LockNamed == LockAssumption => (LockSpec => []LockTypeOK)
<1> SUFFICES ASSUME LockAssumption PROVE LockSpec => []LockTypeOK
  OBVIOUS
<1>1. LockInit => UpgradeInv /\ LockTyped
  BY InitUpgradeInv, LockTypedInit
<1>2. UpgradeInv /\ LockTyped /\ [LockNext]_lockVars => UpgradeInv' /\ LockTyped'
  BY NextUpgradeInv, LockTypedNext
<1>3. UpgradeInv /\ LockTyped => LockTypeOK
  <2> SUFFICES ASSUME UpgradeInv, LockTyped PROVE LockTypeOK
    OBVIOUS
  <2>1. /\ CurrentSchema \in Nat \ {0} /\ MaxStarts \in Nat
        /\ proc \in [Processes -> Process] /\ schema \in 0 .. CurrentSchema + 1
        /\ applied \in [1 .. CurrentSchema -> {0, 1}]
    BY DEF LockAssumption, UpgradeInv, LockShape
  <2>2. proc \in [Processes -> [pc : Steps, read : 0 .. CurrentSchema,
                                done : 0 .. CurrentSchema]]
    BY <2>1 DEF LockTyped, Process
  <2>3. applied \in [1 .. CurrentSchema -> 0 .. MaxStarts]
    BY <2>1 DEF LockTyped
  <2> QED
    BY <2>1, <2>2, <2>3 DEF LockTyped, LockTypeOK
<1> QED
  BY <1>1, <1>2, <1>3, PTL DEF LockSpec

----------------------------------------------------------------------------
(* Row locks. *)

Holds(t, row, mode) == [row |-> row, mode |-> mode] \in tx[t].held

TxFields == {"op", "row", "pc", "want", "keep", "todo", "read", "held"}

TxShape ==
  DOMAIN tx = Transactions /\ \A t \in Transactions : DOMAIN tx[t] = TxFields

\* An exclusive lock is the only one on its row.
LocksOK ==
  \A t, u \in Transactions : \A row \in Feeds \union Filters :
    t # u /\ Holds(t, row, Exclusive) =>
      ~Holds(u, row, Exclusive) /\ ~Holds(u, row, Shared)

\* What was committed.
CommittedOK ==
  /\ rules \in [Filters -> 0 .. Gone] /\ links \in [Feeds -> SUBSET Filters]
  /\ checked = [f \in Feeds |-> Combined(links[f], rules)]
  /\ \A f \in Feeds : \A x \in links[f] : rules[x] # Gone

\* A save holds the filters it has read, and their rules are still those.
SaveOK(t) ==
  tx[t].op = "save" =>
    /\ tx[t].row \in Feeds /\ tx[t].pc \in {"filters", "locked"}
    /\ tx[t].want \subseteq Filters /\ tx[t].todo \subseteq tx[t].want
    /\ tx[t].read = Combined(tx[t].want \ tx[t].todo, rules)
    /\ \A x \in tx[t].want \ tx[t].todo : Holds(t, x, Shared) /\ rules[x] # Gone
    /\ tx[t].pc = "locked" => tx[t].todo = {} /\ Holds(t, tx[t].row, Exclusive)

\* The feeds of an edit's filter are before it, or validated and held.
ListOK(t) ==
  /\ tx[t].todo \subseteq Feeds
  /\ \A f \in Feeds : tx[t].row \in links[f] =>
       f \in tx[t].todo \/ f \in DOMAIN tx[t].read
  /\ \A f \in DOMAIN tx[t].read :
       /\ f \in Feeds /\ tx[t].row \in links[f] /\ Holds(t, f, Exclusive)
       /\ tx[t].read[f] = Edited(t, f)

EditOK(t) ==
  tx[t].op = "edit" =>
    /\ tx[t].row \in Filters
    /\ tx[t].pc \in {"filter", "list", "feeds", "validate"}
    /\ tx[t].pc \in {"filter", "list"} => tx[t].read = NoReads
    /\ tx[t].pc # "filter" =>
         Holds(t, tx[t].row, Exclusive) /\ rules[tx[t].row] < MaxEdits
    /\ tx[t].pc \in {"feeds", "validate"} => ListOK(t)
    /\ tx[t].pc = "validate" =>
         \A f \in tx[t].todo : NextFeed(f, t) => Holds(t, f, Exclusive)

DeleteOK(t) ==
  tx[t].op = "delete" =>
    /\ tx[t].row \in Filters /\ tx[t].pc \in {"filter", "check", "unused"}
    /\ tx[t].pc # "filter" =>
         Holds(t, tx[t].row, Exclusive) /\ rules[tx[t].row] # Gone
    /\ tx[t].pc = "unused" => \A f \in Feeds : tx[t].row \notin links[f]

TxOK(t) == SaveOK(t) /\ EditOK(t) /\ DeleteOK(t)

LockInv == TxShape /\ LocksOK /\ CommittedOK /\ \A t \in Transactions : TxOK(t)

----------------------------------------------------------------------------
LEMMA InitLockInv == LockingAssumption /\ LockingInit => LockInv
<1> SUFFICES ASSUME LockingAssumption, LockingInit PROVE LockInv
  OBVIOUS
<1> USE DEF LockingInit
<1>1. TxShape
  BY DEF TxShape, TxFields, Idle
<1>2. \A t \in Transactions : tx[t] = Idle
  OBVIOUS
<1>3. LocksOK
  BY <1>2 DEF LocksOK, Holds, Idle
<1>4. CommittedOK
  BY DEF CommittedOK, LockingAssumption, Gone
<1>5. \A t \in Transactions : TxOK(t)
  BY <1>2 DEF TxOK, SaveOK, EditOK, DeleteOK, Idle
<1> QED
  BY <1>1, <1>3, <1>4, <1>5 DEF LockInv

\* What a step of t that commits nothing leaves to the others.
LEMMA OthersKept ==
  ASSUME LockInv, NEW t \in Transactions, NEW next,
         DOMAIN next = TxFields, tx' = [tx EXCEPT ![t] = next],
         UNCHANGED <<rules, links, checked>>
  PROVE  /\ TxShape' /\ CommittedOK'
         /\ tx'[t] = next
         /\ \A u \in Transactions \ {t} : tx'[u] = tx[u] /\ TxOK(u)'
<1>1. TxShape' /\ tx'[t] = next /\ \A u \in Transactions \ {t} : tx'[u] = tx[u]
  BY DEF LockInv, TxShape
<1>2. CommittedOK'
  BY DEF LockInv, CommittedOK
<1>3. ASSUME NEW u \in Transactions \ {t} PROVE TxOK(u)'
  <2>1. tx'[u] = tx[u] /\ TxOK(u)
    BY <1>1 DEF LockInv
  <2>2. SaveOK(u)'
    BY <2>1 DEF TxOK, SaveOK, Holds
  <2>3. EditOK(u)'
    BY <2>1 DEF TxOK, EditOK, ListOK, Holds, Edited, NextFeed
  <2>4. DeleteOK(u)'
    BY <2>1 DEF TxOK, DeleteOK, Holds
  <2> QED
    BY <2>2, <2>3, <2>4 DEF TxOK
<1> QED
  BY <1>1, <1>2, <1>3

\* A step that takes no lock, or gives t's back, keeps the locks apart.
LEMMA FewerLocks ==
  ASSUME LocksOK, NEW t \in Transactions, tx'[t].held \subseteq tx[t].held,
         \A u \in Transactions \ {t} : tx'[u] = tx[u]
  PROVE  LocksOK'
BY DEF LocksOK, Holds
\* A step that takes a lock nobody else is in the way of.
LEMMA OneMoreLock ==
  ASSUME LockInv, NEW t \in Transactions, NEW row \in Feeds \union Filters,
         NEW mode \in {Shared, Exclusive}, NEW next, DOMAIN next = TxFields,
         next.held = tx[t].held, Locks(t, row, mode, next)
  PROVE  /\ LocksOK'
         /\ tx'[t] = [next EXCEPT !.held =
                        @ \union {[row |-> row, mode |-> mode]}]
         /\ Holds(t, row, mode)'
         /\ \A r, m : Holds(t, r, m) => Holds(t, r, m)'
<1> DEFINE new == [row |-> row, mode |-> mode]
           after == [next EXCEPT !.held = @ \union {new}]
<1>1. tx' = [tx EXCEPT ![t] = after] /\ Blockers(t, row, mode) = {}
  BY DEF Locks
<1>2. tx'[t] = after /\ \A u \in Transactions \ {t} : tx'[u] = tx[u]
  BY <1>1 DEF LockInv, TxShape
<1>3. tx'[t].held = tx[t].held \union {new}
  BY <1>2 DEF TxFields
<1>4. \A u \in Transactions \ {t} :
        /\ ~Holds(u, row, Exclusive)
        /\ mode = Exclusive => ~Holds(u, row, Shared)
  BY <1>1 DEF Blockers, Conflict, Holds
<1>5. LocksOK'
  <2> SUFFICES ASSUME NEW u \in Transactions, NEW v \in Transactions, u # v,
                      NEW r \in Feeds \union Filters, Holds(u, r, Exclusive)'
               PROVE  ~Holds(v, r, Exclusive)' /\ ~Holds(v, r, Shared)'
    BY DEF LocksOK
  <2>1. CASE u = t
    <3>1. tx'[v] = tx[v]
      BY <2>1, <1>2
    <3>2. Holds(t, r, Exclusive) \/ (r = row /\ mode = Exclusive)
      BY <2>1, <1>3 DEF Holds
    <3> QED
      BY <3>1, <3>2, <2>1, <1>4 DEF LockInv, LocksOK, Holds
  <2>2. CASE v = t
    <3>1. Holds(u, r, Exclusive)
      BY <2>2, <1>2 DEF Holds
    <3>2. r # row
      BY <3>1, <2>2, <1>4
    <3> QED
      BY <3>1, <3>2, <2>2, <1>3 DEF LockInv, LocksOK, Holds
  <2>3. CASE u # t /\ v # t
    BY <2>3, <1>2 DEF LockInv, LocksOK, Holds
  <2> QED
    BY <2>1, <2>2, <2>3
<1> QED
  BY <1>2, <1>3, <1>5 DEF Holds

----------------------------------------------------------------------------
(* Steps that start or abandon a transaction. *)

LEMMA BeginRollbackInv ==
  ASSUME LockInv, NEW t \in Transactions,
         \/ Rollback(t)
         \/ \E f \in Feeds, want \in SUBSET Filters, keep \in BOOLEAN :
              BeginSave(t, f, want, keep)
         \/ \E x \in Filters : BeginEdit(t, x) \/ BeginDelete(t, x)
  PROVE  LockInv'
<1>1. CASE Rollback(t)
  <2>1. DOMAIN Idle = TxFields /\ Idle.held = {} /\ Idle.op = "none"
    BY DEF Idle, TxFields
  <2>2. /\ TxShape' /\ CommittedOK' /\ tx'[t] = Idle
        /\ \A u \in Transactions \ {t} : tx'[u] = tx[u] /\ TxOK(u)'
    BY <1>1, <2>1, OthersKept DEF Rollback, Goes
  <2>3. LocksOK'
    BY <2>1, <2>2, FewerLocks DEF LockInv
  <2>4. TxOK(t)'
    BY <2>1, <2>2 DEF TxOK, SaveOK, EditOK, DeleteOK
  <2> QED
    BY <2>2, <2>3, <2>4 DEF LockInv
<1>2. ASSUME NEW f \in Feeds, NEW want \in SUBSET Filters, NEW keep \in BOOLEAN,
             BeginSave(t, f, want, keep)
      PROVE  LockInv'
  <2> DEFINE next == [Idle EXCEPT !.op = "save", !.row = f, !.pc = "filters",
                                  !.want = want, !.keep = keep, !.todo = want]
  <2>1. /\ DOMAIN next = TxFields /\ next.held = {} /\ next.op = "save"
        /\ next.row = f /\ next.pc = "filters" /\ next.want = want
        /\ next.todo = want /\ next.read = NoReads
    BY DEF Idle, TxFields
  <2>2. tx' = [tx EXCEPT ![t] = next] /\ UNCHANGED <<rules, links, checked>>
    BY <1>2 DEF BeginSave, Goes
  <2> HIDE DEF next
  <2>3. /\ TxShape' /\ CommittedOK' /\ tx'[t] = next
        /\ \A u \in Transactions \ {t} : tx'[u] = tx[u] /\ TxOK(u)'
    BY <2>1, <2>2, OthersKept
  <2>4. LocksOK'
    BY <2>1, <2>3, FewerLocks DEF LockInv
  <2>5. SaveOK(t)'
    BY <2>1, <2>3 DEF SaveOK, NoReads, Combined
  <2>6. TxOK(t)'
    BY <2>1, <2>3, <2>5 DEF TxOK, EditOK, DeleteOK
  <2> QED
    BY <2>3, <2>4, <2>6 DEF LockInv
<1>3. ASSUME NEW x \in Filters, NEW op \in {"edit", "delete"},
             Goes(t, [Idle EXCEPT !.op = op, !.row = x, !.pc = "filter"]),
             UNCHANGED <<rules, links, checked>>
      PROVE  LockInv'
  <2> DEFINE next == [Idle EXCEPT !.op = op, !.row = x, !.pc = "filter"]
  <2>1. /\ DOMAIN next = TxFields /\ next.held = {} /\ next.op = op
        /\ next.row = x /\ next.pc = "filter" /\ next.read = NoReads
    BY DEF Idle, TxFields
  <2>2. tx' = [tx EXCEPT ![t] = next]
    BY <1>3 DEF Goes
  <2> HIDE DEF next
  <2>3. /\ TxShape' /\ CommittedOK' /\ tx'[t] = next
        /\ \A u \in Transactions \ {t} : tx'[u] = tx[u] /\ TxOK(u)'
    BY <1>3, <2>1, <2>2, OthersKept
  <2>4. LocksOK'
    BY <2>1, <2>3, FewerLocks DEF LockInv
  <2>5. TxOK(t)'
    BY <2>1, <2>3 DEF TxOK, SaveOK, EditOK, DeleteOK
  <2> QED
    BY <2>3, <2>4, <2>5 DEF LockInv
<1> QED
  BY <1>1, <1>2, <1>3 DEF BeginEdit, BeginDelete
----------------------------------------------------------------------------
(* SaveWithOptions. *)

LEMMA SaveReadsInv ==
  ASSUME LockingAssumption, LockInv, NEW t \in Transactions, SaveReadsFilter(t)
  PROVE  LockInv'
<1>1. PICK x \in tx[t].todo :
        /\ rules[x] # Gone
        /\ ReadsRules(t, x, [tx[t] EXCEPT
             !.todo = @ \ {x},
             !.read = [y \in DOMAIN @ \union {x} |->
                         IF y = x THEN rules[x] ELSE @[y]]])
  BY DEF SaveReadsFilter
<1> DEFINE next == [tx[t] EXCEPT
             !.todo = @ \ {x},
             !.read = [y \in DOMAIN @ \union {x} |->
                         IF y = x THEN rules[x] ELSE @[y]]]
           after == [next EXCEPT !.held =
                       @ \union {[row |-> x, mode |-> Shared]}]
<1>2. /\ tx[t].op = "save" /\ tx[t].pc = "filters"
      /\ UNCHANGED <<rules, links, checked>>
  BY DEF SaveReadsFilter
<1>3. /\ x \in tx[t].want /\ x \in Filters /\ SaveOK(t)
  BY <1>2 DEF LockInv, TxOK, SaveOK
<1>4. DOMAIN tx[t] = TxFields
  BY DEF LockInv, TxShape
<1>5. /\ DOMAIN next = TxFields /\ next.held = tx[t].held
      /\ next.op = "save" /\ next.pc = "filters" /\ next.row = tx[t].row
      /\ next.want = tx[t].want /\ next.todo = tx[t].todo \ {x}
      /\ next.read = [y \in DOMAIN tx[t].read \union {x} |->
                        IF y = x THEN rules[x] ELSE tx[t].read[y]]
  BY <1>2, <1>4 DEF TxFields
<1>6. Locks(t, x, Shared, next)
  BY <1>1 DEF ReadsRules
<1> HIDE DEF next
<1>7. /\ LocksOK' /\ tx'[t] = after /\ Holds(t, x, Shared)'
      /\ \A r, m : Holds(t, r, m) => Holds(t, r, m)'
  BY <1>3, <1>5, <1>6, OneMoreLock
<1>8. tx' = [tx EXCEPT ![t] = after] /\ DOMAIN after = TxFields
  BY <1>5, <1>6 DEF Locks
<1>9. /\ after.op = "save" /\ after.pc = "filters" /\ after.row = tx[t].row
      /\ after.want = tx[t].want /\ after.todo = tx[t].todo \ {x}
      /\ after.read = next.read
  BY <1>5 DEF TxFields
<1> HIDE DEF after
<1>10. /\ TxShape' /\ CommittedOK'
       /\ \A u \in Transactions \ {t} : tx'[u] = tx[u] /\ TxOK(u)'
  BY <1>2, <1>8, OthersKept
<1>11. next.read = Combined(tx[t].want \ (tx[t].todo \ {x}), rules)
  BY <1>2, <1>3, <1>5 DEF SaveOK, Combined
<1>12. SaveOK(t)'
  <2>1. \A y \in tx[t].want \ (tx[t].todo \ {x}) :
          Holds(t, y, Shared)' /\ rules[y] # Gone
    BY <1>1, <1>2, <1>3, <1>7 DEF SaveOK
  <2> QED
    BY <1>2, <1>3, <1>7, <1>9, <1>11, <2>1 DEF SaveOK
<1>13. TxOK(t)'
  BY <1>7, <1>9, <1>12 DEF TxOK, EditOK, DeleteOK
<1> QED
  BY <1>7, <1>10, <1>13 DEF LockInv

LEMMA SaveLocksInv ==
  ASSUME LockInv, NEW t \in Transactions, SaveLocksFeed(t)
  PROVE  LockInv'
<1> DEFINE next == [tx[t] EXCEPT !.pc = "locked"]
           after == [next EXCEPT !.held =
                       @ \union {[row |-> tx[t].row, mode |-> Exclusive]}]
<1>1. /\ tx[t].op = "save" /\ tx[t].pc = "filters" /\ tx[t].todo = {}
      /\ Locks(t, tx[t].row, Exclusive, next)
      /\ UNCHANGED <<rules, links, checked>>
  BY DEF SaveLocksFeed
<1>2. SaveOK(t) /\ DOMAIN tx[t] = TxFields
  BY DEF LockInv, TxShape, TxOK
<1>3. /\ DOMAIN next = TxFields /\ next.held = tx[t].held
      /\ next.op = "save" /\ next.pc = "locked" /\ next.row = tx[t].row
      /\ next.want = tx[t].want /\ next.todo = {} /\ next.read = tx[t].read
  BY <1>1, <1>2 DEF TxFields
<1> HIDE DEF next
<1>4. /\ LocksOK' /\ tx'[t] = after
      /\ [row |-> tx[t].row, mode |-> Exclusive] \in tx'[t].held
      /\ \A r, m : Holds(t, r, m) => Holds(t, r, m)'
  <2>1. tx[t].row \in Feeds \union Filters
    BY <1>1, <1>2 DEF SaveOK
  <2>2. /\ LocksOK' /\ tx'[t] = after
        /\ \A r, m : Holds(t, r, m) => Holds(t, r, m)'
    BY <1>1, <1>3, <2>1, OneMoreLock
  <2>3. [row |-> tx[t].row, mode |-> Exclusive] \in tx'[t].held
    BY <1>3, <2>2 DEF TxFields
  <2> QED
    BY <2>2, <2>3
<1>5. tx' = [tx EXCEPT ![t] = after] /\ DOMAIN after = TxFields
  BY <1>1, <1>3 DEF Locks
<1>6. /\ after.op = "save" /\ after.pc = "locked" /\ after.row = tx[t].row
      /\ after.want = tx[t].want /\ after.todo = {} /\ after.read = tx[t].read
  BY <1>3 DEF TxFields
<1> HIDE DEF after
<1>7. /\ TxShape' /\ CommittedOK'
      /\ \A u \in Transactions \ {t} : tx'[u] = tx[u] /\ TxOK(u)'
  BY <1>1, <1>5, OthersKept
<1>8. SaveOK(t)'
  BY <1>1, <1>2, <1>4, <1>6 DEF SaveOK, Holds
<1>9. TxOK(t)'
  BY <1>4, <1>6, <1>8 DEF TxOK, EditOK, DeleteOK
<1> QED
  BY <1>4, <1>7, <1>9 DEF LockInv

\* The feed is held, so no edit has validated it, and the filters it will use
\* are held, so no edit or deletion of one is under way.
LEMMA CommitSaveInv ==
  ASSUME LockInv, NEW t \in Transactions, CommitSave(t)
  PROVE  LockInv'
<1> DEFINE f == tx[t].row
           want == tx[t].want
<1>1. /\ tx[t].op = "save" /\ tx[t].pc = "locked" /\ KeptLinks(t)
      /\ links' = IF tx[t].keep THEN links ELSE [links EXCEPT ![f] = want]
      /\ checked' = [checked EXCEPT ![f] = tx[t].read]
      /\ tx' = [tx EXCEPT ![t] = Idle] /\ rules' = rules
  BY DEF CommitSave, Goes
<1>2. /\ f \in Feeds /\ want \subseteq Filters /\ Holds(t, f, Exclusive)
      /\ tx[t].read = Combined(want, rules)
      /\ \A x \in want : Holds(t, x, Shared) /\ rules[x] # Gone
  <2>1. SaveOK(t) /\ tx[t].todo = {}
    BY <1>1 DEF LockInv, TxOK, SaveOK
  <2>2. want \ tx[t].todo = want
    BY <2>1
  <2> QED
    BY <1>1, <2>1, <2>2 DEF SaveOK
<1>3. links' = [links EXCEPT ![f] = want]
  BY <1>1 DEF KeptLinks, LockInv, CommittedOK
<1>4. /\ links' \in [Feeds -> SUBSET Filters] /\ links'[f] = want
      /\ \A g \in Feeds \ {f} : links'[g] = links[g]
  BY <1>2, <1>3 DEF LockInv, CommittedOK
<1>5. CommittedOK'
  <2>1. checked' = [g \in Feeds |-> Combined(links'[g], rules)]
    BY <1>1, <1>2, <1>4 DEF LockInv, CommittedOK
  <2> QED
    BY <1>1, <1>2, <1>4, <2>1 DEF LockInv, CommittedOK
<1>6. /\ TxShape' /\ tx'[t] = Idle
      /\ \A u \in Transactions \ {t} : tx'[u] = tx[u]
  BY <1>1 DEF LockInv, TxShape, Idle, TxFields
<1>7. LocksOK'
  <2>1. Idle.held \subseteq tx[t].held
    BY DEF Idle
  <2> QED
    BY <1>6, <2>1, FewerLocks DEF LockInv
<1>8. TxOK(t)'
  BY <1>6 DEF TxOK, SaveOK, EditOK, DeleteOK, Idle
<1>9. ASSUME NEW u \in Transactions \ {t} PROVE TxOK(u)'
  <2>1. tx'[u] = tx[u] /\ SaveOK(u) /\ EditOK(u) /\ DeleteOK(u)
    BY <1>6 DEF LockInv, TxOK
  <2>2. SaveOK(u)'
    BY <1>1, <2>1 DEF SaveOK, Holds
  <2>3. ~Holds(u, f, Exclusive)
    BY <1>2 DEF LockInv, LocksOK
  <2>4. \A x \in Filters : Holds(u, x, Exclusive) => x \notin want
    BY <1>2 DEF LockInv, LocksOK
  <2>5. EditOK(u)'
    <3>1. CASE tx[u].op = "edit" /\ tx[u].pc \in {"feeds", "validate"}
      <4>1. Holds(u, tx[u].row, Exclusive) /\ tx[u].row \in Filters /\ ListOK(u)
        BY <2>1, <3>1 DEF EditOK
      <4>2. tx[u].row \notin want /\ f \notin DOMAIN tx[u].read
        BY <2>3, <2>4, <4>1 DEF ListOK
      <4>3. \A g \in Feeds : g # f => Edited(u, g)' = Edited(u, g)
        BY <1>1, <1>4, <2>1 DEF Edited
      <4>4. ListOK(u)'
        BY <1>4, <2>1, <4>1, <4>2, <4>3 DEF ListOK, Holds
      <4> QED
        BY <1>1, <2>1, <4>4 DEF EditOK, Holds, NextFeed
    <3> QED
      BY <1>1, <2>1, <3>1 DEF EditOK, Holds
  <2>6. DeleteOK(u)'
    BY <1>1, <1>4, <2>1, <2>4 DEF DeleteOK, Holds
  <2> QED
    BY <2>2, <2>5, <2>6 DEF TxOK
<1> QED
  BY <1>5, <1>6, <1>7, <1>8, <1>9 DEF LockInv
----------------------------------------------------------------------------
(* SaveFilter and DeleteFilter, up to their commits. *)

\* A step of t that leaves it an edit or a deletion, and takes a lock or none.
LEMMA EditStepInv ==
  ASSUME LockInv, NEW t \in Transactions, NEW next, DOMAIN next = TxFields,
         next.op \in {"edit", "delete"}, tx' = [tx EXCEPT ![t] = next],
         UNCHANGED <<rules, links, checked>>,
         LocksOK', EditOK(t)', DeleteOK(t)'
  PROVE  LockInv'
<1>1. /\ TxShape' /\ CommittedOK' /\ tx'[t] = next
      /\ \A u \in Transactions \ {t} : tx'[u] = tx[u] /\ TxOK(u)'
  BY OthersKept
<1>2. TxOK(t)'
  BY <1>1 DEF TxOK, SaveOK
<1> QED
  BY <1>1, <1>2 DEF LockInv

\* The lock on the filter itself, which both begin with.
LEMMA FilterLockedInv ==
  ASSUME LockInv, NEW t \in Transactions,
         EditLocksFilter(t) \/ DeleteLocksFilter(t)
  PROVE  LockInv'
<1> DEFINE pc == IF tx[t].op = "edit" THEN "list" ELSE "check"
           next == [tx[t] EXCEPT !.pc = pc]
           after == [next EXCEPT !.held =
                       @ \union {[row |-> tx[t].row, mode |-> Exclusive]}]
<1>1. /\ tx[t].op \in {"edit", "delete"} /\ tx[t].pc = "filter"
      /\ Locks(t, tx[t].row, Exclusive, next)
      /\ UNCHANGED <<rules, links, checked>>
      /\ tx[t].op = "edit" => rules[tx[t].row] < MaxEdits
      /\ tx[t].op = "delete" => rules[tx[t].row] # Gone
  BY DEF EditLocksFilter, DeleteLocksFilter
<1>2. EditOK(t) /\ DeleteOK(t) /\ DOMAIN tx[t] = TxFields
  BY DEF LockInv, TxShape, TxOK
<1>3. tx[t].row \in Filters /\ (tx[t].op = "edit" => tx[t].read = NoReads)
  BY <1>1, <1>2 DEF EditOK, DeleteOK
<1>4. /\ DOMAIN next = TxFields /\ next.held = tx[t].held
      /\ next.op = tx[t].op /\ next.pc = pc /\ next.row = tx[t].row
      /\ next.read = tx[t].read
  BY <1>2 DEF TxFields
<1> HIDE DEF next
<1>5. /\ LocksOK' /\ tx'[t] = after
      /\ [row |-> tx[t].row, mode |-> Exclusive] \in tx'[t].held
  BY <1>1, <1>3, <1>4, OneMoreLock DEF Holds
<1>6. tx' = [tx EXCEPT ![t] = after] /\ DOMAIN after = TxFields
  BY <1>1, <1>4 DEF Locks
<1>7. /\ after.op = tx[t].op /\ after.pc = pc /\ after.row = tx[t].row
      /\ after.read = tx[t].read
  BY <1>4 DEF TxFields
<1> HIDE DEF after
<1>8. EditOK(t)'
  BY <1>1, <1>3, <1>5, <1>7 DEF EditOK, Holds
<1>9. DeleteOK(t)'
  BY <1>1, <1>3, <1>5, <1>7 DEF DeleteOK, Holds
<1> QED
  BY <1>1, <1>5, <1>6, <1>7, <1>8, <1>9, EditStepInv

LEMMA EditListsInv ==
  ASSUME LockInv, NEW t \in Transactions, EditListsFeeds(t)
  PROVE  LockInv'
<1> DEFINE users == {f \in Feeds : tx[t].row \in links[f]}
           next == [tx[t] EXCEPT !.pc = "feeds", !.todo = users]
<1>1. /\ tx[t].op = "edit" /\ tx[t].pc = "list"
      /\ tx' = [tx EXCEPT ![t] = next] /\ UNCHANGED <<rules, links, checked>>
  BY DEF EditListsFeeds, Goes
<1>2. EditOK(t) /\ DOMAIN tx[t] = TxFields
  BY DEF LockInv, TxShape, TxOK
<1>3. /\ DOMAIN next = TxFields /\ next.held = tx[t].held /\ next.op = "edit"
      /\ next.pc = "feeds" /\ next.row = tx[t].row /\ next.todo = users
      /\ next.read = tx[t].read
  BY <1>1, <1>2 DEF TxFields
<1> HIDE DEF next
<1>4. tx'[t] = next /\ \A u \in Transactions \ {t} : tx'[u] = tx[u]
  BY <1>1 DEF LockInv, TxShape
<1>5. LocksOK'
  BY <1>3, <1>4, FewerLocks DEF LockInv
<1>6. ListOK(t)'
  BY <1>1, <1>2, <1>3, <1>4 DEF EditOK, ListOK, NoReads
<1>7. EditOK(t)' /\ DeleteOK(t)'
  BY <1>1, <1>2, <1>3, <1>4, <1>6 DEF EditOK, DeleteOK, Holds
<1> QED
  BY <1>1, <1>3, <1>5, <1>7, EditStepInv

LEMMA EditLocksInv ==
  ASSUME LockingAssumption, LockInv, NEW t \in Transactions, EditLocksFeed(t)
  PROVE  LockInv'
<1>1. PICK f \in tx[t].todo :
        NextFeed(f, t) /\ Locks(t, f, Exclusive, [tx[t] EXCEPT !.pc = "validate"])
  BY DEF EditLocksFeed
<1> DEFINE next == [tx[t] EXCEPT !.pc = "validate"]
           after == [next EXCEPT !.held =
                       @ \union {[row |-> f, mode |-> Exclusive]}]
<1>2. /\ tx[t].op = "edit" /\ tx[t].pc = "feeds"
      /\ UNCHANGED <<rules, links, checked>>
  BY DEF EditLocksFeed
<1>3. /\ EditOK(t) /\ ListOK(t) /\ DOMAIN tx[t] = TxFields
  BY <1>2 DEF LockInv, TxShape, TxOK, EditOK
<1>4. f \in Feeds /\ Locks(t, f, Exclusive, next)
  BY <1>1, <1>3 DEF ListOK
<1>5. /\ DOMAIN next = TxFields /\ next.held = tx[t].held /\ next.op = "edit"
      /\ next.pc = "validate" /\ next.row = tx[t].row
      /\ next.todo = tx[t].todo /\ next.read = tx[t].read
  BY <1>2, <1>3 DEF TxFields
<1> HIDE DEF next
<1>6. /\ LocksOK' /\ tx'[t] = after /\ Holds(t, f, Exclusive)'
      /\ \A r, m : Holds(t, r, m) => Holds(t, r, m)'
  BY <1>4, <1>5, OneMoreLock
<1>7. tx' = [tx EXCEPT ![t] = after] /\ DOMAIN after = TxFields
  BY <1>4, <1>5 DEF Locks
<1>8. /\ after.op = "edit" /\ after.pc = "validate" /\ after.row = tx[t].row
      /\ after.todo = tx[t].todo /\ after.read = tx[t].read
  BY <1>5 DEF TxFields
<1> HIDE DEF after
<1>9. \A g \in tx[t].todo : NextFeed(g, t)' => g = f
  BY <1>1, <1>3, <1>6, <1>8 DEF NextFeed, IsFirst, ListOK, LockingAssumption
<1>10. ListOK(t)'
  <2>1. \A g : Edited(t, g)' = Edited(t, g)
    BY <1>2, <1>6, <1>8 DEF Edited
  <2> QED
    BY <1>2, <1>3, <1>6, <1>8, <2>1 DEF ListOK
<1>11. EditOK(t)' /\ DeleteOK(t)'
  BY <1>2, <1>3, <1>6, <1>8, <1>9, <1>10 DEF EditOK, DeleteOK
<1> QED
  BY <1>2, <1>6, <1>7, <1>8, <1>11, EditStepInv

LEMMA EditValidatesInv ==
  ASSUME LockInv, NEW t \in Transactions, EditValidates(t)
  PROVE  LockInv'
<1> DEFINE Read(f) == IF tx[t].row \notin links[f] THEN tx[t].read
                      ELSE [g \in DOMAIN tx[t].read \union {f} |->
                              IF g = f THEN Edited(t, f) ELSE tx[t].read[g]]
           Next(f) == [tx[t] EXCEPT !.pc = "feeds", !.todo = @ \ {f},
                                    !.read = Read(f)]
<1>1. DOMAIN tx[t] = TxFields
  BY DEF LockInv, TxShape
<1>2. PICK f \in tx[t].todo :
        NextFeed(f, t) /\ tx' = [tx EXCEPT ![t] = Next(f)]
  BY <1>1 DEF EditValidates, Goes, TxFields
<1> DEFINE next == Next(f)
<1>3. /\ tx[t].op = "edit" /\ tx[t].pc = "validate"
      /\ UNCHANGED <<rules, links, checked>>
  BY DEF EditValidates
<1>4. /\ EditOK(t) /\ ListOK(t) /\ f \in Feeds /\ Holds(t, f, Exclusive)
  BY <1>2, <1>3 DEF LockInv, TxOK, EditOK, ListOK
<1>5. /\ DOMAIN next = TxFields /\ next.held = tx[t].held /\ next.op = "edit"
      /\ next.pc = "feeds" /\ next.row = tx[t].row
      /\ next.todo = tx[t].todo \ {f} /\ next.read = Read(f)
  BY <1>1, <1>3 DEF TxFields
<1>6. tx' = [tx EXCEPT ![t] = next]
  BY <1>2
<1> HIDE DEF next, Next
<1>7. tx'[t] = next /\ \A u \in Transactions \ {t} : tx'[u] = tx[u]
  BY <1>6 DEF LockInv, TxShape
<1>8. LocksOK'
  BY <1>5, <1>7, FewerLocks DEF LockInv
<1>9. ListOK(t)'
  <2>1. \A g : Edited(t, g)' = Edited(t, g)
    BY <1>3, <1>5, <1>7 DEF Edited
  <2>2. \A r, m : Holds(t, r, m) => Holds(t, r, m)'
    BY <1>5, <1>7 DEF Holds
  <2>3. CASE tx[t].row \notin links[f]
    BY <1>3, <1>4, <1>5, <1>7, <2>1, <2>2, <2>3 DEF ListOK
  <2>4. CASE tx[t].row \in links[f]
    <3>1. /\ DOMAIN Read(f) = DOMAIN tx[t].read \union {f}
          /\ Read(f)[f] = Edited(t, f)
          /\ \A g \in DOMAIN tx[t].read : g # f => Read(f)[g] = tx[t].read[g]
      BY <2>4
    <3> HIDE DEF Read
    <3> QED
      BY <1>3, <1>4, <1>5, <1>7, <2>1, <2>2, <2>4, <3>1 DEF ListOK
  <2> QED
    BY <2>3, <2>4
<1>10. EditOK(t)' /\ DeleteOK(t)'
  BY <1>3, <1>4, <1>5, <1>7, <1>9 DEF EditOK, DeleteOK, Holds
<1> QED
  BY <1>3, <1>5, <1>6, <1>8, <1>10, EditStepInv

LEMMA DeleteChecksInv ==
  ASSUME LockInv, NEW t \in Transactions, DeleteChecksUse(t)
  PROVE  LockInv'
<1> DEFINE next == [tx[t] EXCEPT !.pc = "unused"]
<1>1. /\ tx[t].op = "delete" /\ tx[t].pc = "check"
      /\ \A f \in Feeds : tx[t].row \notin links[f]
      /\ tx' = [tx EXCEPT ![t] = next] /\ UNCHANGED <<rules, links, checked>>
  BY DEF DeleteChecksUse, Goes
<1>2. DeleteOK(t) /\ DOMAIN tx[t] = TxFields
  BY DEF LockInv, TxShape, TxOK
<1>3. /\ DOMAIN next = TxFields /\ next.held = tx[t].held /\ next.op = "delete"
      /\ next.pc = "unused" /\ next.row = tx[t].row
  BY <1>1, <1>2 DEF TxFields
<1> HIDE DEF next
<1>4. tx'[t] = next /\ \A u \in Transactions \ {t} : tx'[u] = tx[u]
  BY <1>1 DEF LockInv, TxShape
<1>5. LocksOK'
  BY <1>3, <1>4, FewerLocks DEF LockInv
<1>6. EditOK(t)' /\ DeleteOK(t)'
  BY <1>1, <1>2, <1>3, <1>4 DEF EditOK, DeleteOK, Holds
<1> QED
  BY <1>1, <1>3, <1>5, <1>6, EditStepInv
----------------------------------------------------------------------------
(* The commits of SaveFilter and DeleteFilter. *)

\* Every feed that uses the filter is validated and held, so no other edit has
\* validated it, and no save holds the filter.
LEMMA CommitEditInv ==
  ASSUME LockingAssumption, LockInv, NEW t \in Transactions, CommitEdit(t)
  PROVE  LockInv'
<1> DEFINE x == tx[t].row
           read == tx[t].read
<1>1. /\ tx[t].op = "edit" /\ tx[t].pc = "feeds" /\ tx[t].todo = {}
      /\ rules' = [rules EXCEPT ![x] = @ + 1]
      /\ checked' = [f \in Feeds |-> IF f \in DOMAIN read THEN read[f]
                                     ELSE checked[f]]
      /\ tx' = [tx EXCEPT ![t] = Idle] /\ links' = links
  BY DEF CommitEdit, Goes
<1>2. /\ x \in Filters /\ Holds(t, x, Exclusive) /\ rules[x] < MaxEdits
      /\ ListOK(t)
  BY <1>1 DEF LockInv, TxOK, EditOK
<1>3. /\ \A f \in Feeds : f \in DOMAIN read <=> x \in links[f]
      /\ \A f \in DOMAIN read :
           /\ f \in Feeds /\ Holds(t, f, Exclusive)
           /\ read[f] = Combined(links[f], rules')
  BY <1>1, <1>2 DEF ListOK, Edited
<1>4. /\ rules' \in [Filters -> 0 .. Gone] /\ rules'[x] < Gone
      /\ \A y \in Filters \ {x} : rules'[y] = rules[y]
  BY <1>1, <1>2 DEF LockInv, CommittedOK, Gone, LockingAssumption
<1>5. CommittedOK'
  <2>1. ASSUME NEW f \in Feeds, f \notin DOMAIN read
        PROVE  checked[f] = Combined(links[f], rules')
    <3>1. \A y \in links[f] : rules'[y] = rules[y]
      BY <1>3, <1>4, <2>1 DEF LockInv, CommittedOK
    <3> QED
      BY <2>1, <3>1 DEF LockInv, CommittedOK, Combined
  <2>2. checked' = [f \in Feeds |-> Combined(links[f], rules')]
    BY <1>1, <1>3, <2>1
  <2>3. \A f \in Feeds : \A y \in links[f] : rules'[y] # Gone
    <3>1. rules'[x] # Gone
      BY <1>4 DEF Gone, LockingAssumption
    <3> QED
      BY <1>4, <3>1 DEF LockInv, CommittedOK
  <2> QED
    BY <1>1, <1>4, <2>2, <2>3 DEF LockInv, CommittedOK
<1>6. /\ TxShape' /\ tx'[t] = Idle
      /\ \A u \in Transactions \ {t} : tx'[u] = tx[u]
  BY <1>1 DEF LockInv, TxShape, Idle, TxFields
<1>7. LocksOK'
  <2>1. Idle.held \subseteq tx[t].held
    BY DEF Idle
  <2> QED
    BY <1>6, <2>1, FewerLocks DEF LockInv
<1>8. TxOK(t)'
  BY <1>6 DEF TxOK, SaveOK, EditOK, DeleteOK, Idle
<1>9. ASSUME NEW u \in Transactions \ {t} PROVE TxOK(u)'
  <2>1. tx'[u] = tx[u] /\ SaveOK(u) /\ EditOK(u) /\ DeleteOK(u)
    BY <1>6 DEF LockInv, TxOK
  <2>2. ~Holds(u, x, Exclusive) /\ ~Holds(u, x, Shared)
    BY <1>2 DEF LockInv, LocksOK
  <2>3. \A f \in DOMAIN read : ~Holds(u, f, Exclusive)
    BY <1>3 DEF LockInv, LocksOK
  <2>4. SaveOK(u)'
    <3>1. CASE tx[u].op = "save"
      <4>1. \A y \in tx[u].want \ tx[u].todo : y # x /\ rules'[y] = rules[y]
        BY <1>4, <2>1, <2>2, <3>1 DEF SaveOK
      <4>2. Combined(tx[u].want \ tx[u].todo, rules')
              = Combined(tx[u].want \ tx[u].todo, rules)
        BY <4>1 DEF Combined
      <4> QED
        BY <2>1, <3>1, <4>1, <4>2 DEF SaveOK, Holds
    <3> QED
      BY <2>1, <3>1 DEF SaveOK
  <2>5. EditOK(u)'
    <3>1. CASE tx[u].op = "edit" /\ tx[u].pc \in {"feeds", "validate"}
      <4>1. /\ Holds(u, tx[u].row, Exclusive) /\ tx[u].row \in Filters
            /\ ListOK(u) /\ tx[u].row # x
        BY <2>1, <2>2, <3>1 DEF EditOK
      <4>2. ASSUME NEW f \in DOMAIN tx[u].read
            PROVE  Edited(u, f)' = Edited(u, f)
        <5>1. f \in Feeds /\ x \notin links[f]
          BY <1>3, <2>3, <4>1, <4>2 DEF ListOK
        <5>2. \A y \in links[f] :
                [rules' EXCEPT ![tx[u].row] = @ + 1][y]
                  = [rules EXCEPT ![tx[u].row] = @ + 1][y]
          BY <1>4, <4>1, <5>1 DEF LockInv, CommittedOK
        <5> QED
          BY <1>1, <2>1, <5>2 DEF Edited, Combined
      <4>3. ListOK(u)'
        BY <1>1, <2>1, <4>1, <4>2 DEF ListOK, Holds
      <4> QED
        BY <1>4, <2>1, <3>1, <4>1, <4>3 DEF EditOK, Holds, NextFeed
    <3>2. CASE tx[u].op = "edit" /\ tx[u].pc = "list"
      <4>1. tx[u].row \in Filters /\ tx[u].row # x
        BY <2>1, <2>2, <3>2 DEF EditOK
      <4> QED
        BY <1>4, <2>1, <3>2, <4>1 DEF EditOK, Holds
    <3> QED
      BY <2>1, <3>1, <3>2 DEF EditOK
  <2>6. DeleteOK(u)'
    <3>1. tx[u].op = "delete" /\ tx[u].pc # "filter" => tx[u].row # x
      BY <2>1, <2>2 DEF DeleteOK
    <3> QED
      BY <1>1, <1>4, <2>1, <3>1 DEF DeleteOK, Holds
  <2> QED
    BY <2>4, <2>5, <2>6 DEF TxOK
<1> QED
  BY <1>5, <1>6, <1>7, <1>8, <1>9 DEF LockInv

\* Nobody uses the filter, and nobody else holds it.
LEMMA CommitDeleteInv ==
  ASSUME LockingAssumption, LockInv, NEW t \in Transactions, CommitDelete(t)
  PROVE  LockInv'
<1> DEFINE x == tx[t].row
<1>1. /\ tx[t].op = "delete" /\ tx[t].pc = "unused"
      /\ rules' = [rules EXCEPT ![x] = Gone]
      /\ tx' = [tx EXCEPT ![t] = Idle] /\ links' = links
      /\ checked' = checked
  BY DEF CommitDelete, Goes
<1>2. /\ x \in Filters /\ Holds(t, x, Exclusive)
      /\ \A f \in Feeds : x \notin links[f]
  BY <1>1 DEF LockInv, TxOK, DeleteOK
<1>3. /\ rules' \in [Filters -> 0 .. Gone]
      /\ \A y \in Filters \ {x} : rules'[y] = rules[y]
  BY <1>1, <1>2 DEF LockInv, CommittedOK, Gone, LockingAssumption
<1>4. CommittedOK'
  <2>1. \A f \in Feeds : \A y \in links[f] : rules'[y] = rules[y]
    BY <1>2, <1>3 DEF LockInv, CommittedOK
  <2>2. \A f \in Feeds : Combined(links[f], rules') = Combined(links[f], rules)
    BY <2>1 DEF Combined
  <2> QED
    BY <1>1, <1>3, <2>1, <2>2 DEF LockInv, CommittedOK
<1>5. /\ TxShape' /\ tx'[t] = Idle
      /\ \A u \in Transactions \ {t} : tx'[u] = tx[u]
  BY <1>1 DEF LockInv, TxShape, Idle, TxFields
<1>6. LocksOK'
  <2>1. Idle.held \subseteq tx[t].held
    BY DEF Idle
  <2> QED
    BY <1>5, <2>1, FewerLocks DEF LockInv
<1>7. TxOK(t)'
  BY <1>5 DEF TxOK, SaveOK, EditOK, DeleteOK, Idle
<1>8. ASSUME NEW u \in Transactions \ {t} PROVE TxOK(u)'
  <2>1. tx'[u] = tx[u] /\ SaveOK(u) /\ EditOK(u) /\ DeleteOK(u)
    BY <1>5 DEF LockInv, TxOK
  <2>2. ~Holds(u, x, Exclusive) /\ ~Holds(u, x, Shared)
    BY <1>2 DEF LockInv, LocksOK
  <2>3. SaveOK(u)'
    <3>1. CASE tx[u].op = "save"
      <4>1. \A y \in tx[u].want \ tx[u].todo : y # x /\ rules'[y] = rules[y]
        BY <1>3, <2>1, <2>2, <3>1 DEF SaveOK
      <4>2. Combined(tx[u].want \ tx[u].todo, rules')
              = Combined(tx[u].want \ tx[u].todo, rules)
        BY <4>1 DEF Combined
      <4> QED
        BY <2>1, <3>1, <4>1, <4>2 DEF SaveOK, Holds
    <3> QED
      BY <2>1, <3>1 DEF SaveOK
  <2>4. EditOK(u)'
    <3>1. CASE tx[u].op = "edit" /\ tx[u].pc # "filter"
      <4>1. tx[u].row \in Filters /\ tx[u].row # x
        BY <2>1, <2>2, <3>1 DEF EditOK
      <4>2. \A f \in Feeds : Edited(u, f)' = Edited(u, f)
        <5>1. \A f \in Feeds : \A y \in links[f] :
                [rules' EXCEPT ![tx[u].row] = @ + 1][y]
                  = [rules EXCEPT ![tx[u].row] = @ + 1][y]
          BY <1>2, <1>3, <4>1 DEF LockInv, CommittedOK
        <5> QED
          BY <1>1, <2>1, <5>1 DEF Edited, Combined
      <4>3. ListOK(u) => ListOK(u)'
        BY <1>1, <2>1, <4>2 DEF ListOK, Holds
      <4> QED
        BY <1>3, <2>1, <3>1, <4>1, <4>3 DEF EditOK, Holds, NextFeed
    <3> QED
      BY <2>1, <3>1 DEF EditOK
  <2>5. DeleteOK(u)'
    <3>1. tx[u].op = "delete" /\ tx[u].pc # "filter" => tx[u].row # x
      BY <2>1, <2>2 DEF DeleteOK
    <3> QED
      BY <1>1, <1>3, <2>1, <3>1 DEF DeleteOK, Holds
  <2> QED
    BY <2>3, <2>4, <2>5 DEF TxOK
<1> QED
  BY <1>4, <1>5, <1>6, <1>7, <1>8 DEF LockInv

----------------------------------------------------------------------------
LEMMA NextLockInv ==
  LockingAssumption /\ LockInv /\ [LockingNext]_lockingVars => LockInv'
<1> SUFFICES ASSUME LockingAssumption, LockInv, [LockingNext]_lockingVars
             PROVE  LockInv'
  OBVIOUS
<1>1. CASE UNCHANGED lockingVars
  <2>1. TxShape' /\ LocksOK' /\ CommittedOK'
    BY <1>1 DEF lockingVars, LockInv, TxShape, LocksOK, CommittedOK, Holds
  <2>2. \A t \in Transactions : TxOK(t)'
    BY <1>1 DEF lockingVars, LockInv, TxOK, SaveOK, EditOK, ListOK, DeleteOK,
                Holds, Edited, NextFeed
  <2> QED
    BY <2>1, <2>2 DEF LockInv
<1>2. ASSUME NEW t \in Transactions,
             \/ \E f \in Feeds, want \in SUBSET Filters, keep \in BOOLEAN :
                  BeginSave(t, f, want, keep)
             \/ SaveReadsFilter(t) \/ SaveLocksFeed(t) \/ CommitSave(t)
             \/ \E x \in Filters : BeginEdit(t, x) \/ BeginDelete(t, x)
             \/ EditLocksFilter(t) \/ EditListsFeeds(t) \/ EditLocksFeed(t)
             \/ EditValidates(t) \/ CommitEdit(t)
             \/ DeleteLocksFilter(t) \/ DeleteChecksUse(t) \/ CommitDelete(t)
             \/ Rollback(t)
      PROVE  LockInv'
  BY <1>2, BeginRollbackInv, SaveReadsInv, SaveLocksInv, CommitSaveInv,
     FilterLockedInv, EditListsInv, EditLocksInv, EditValidatesInv,
     CommitEditInv, DeleteChecksInv, CommitDeleteInv
<1> QED
  BY <1>1, <1>2 DEF LockingNext

\* Whatever saves, edits and deletions of filters overlap, and however they
\* end, every feed is left with filters that exist and with rules that the
\* save or edit that last touched them validated for it (SaveWithOptions,
\* SaveFilter, DeleteFilter).
THEOREM Validated == LockingAssumption => (LockingSpec => []RulesValidated)
<1> SUFFICES ASSUME LockingAssumption PROVE LockingSpec => []RulesValidated
  OBVIOUS
<1>1. LockingInit => LockInv
  BY InitLockInv
<1>2. LockInv /\ [LockingNext]_lockingVars => LockInv'
  BY NextLockInv
<1>3. LockInv => RulesValidated
  BY DEF LockInv, CommittedOK, RulesValidated
<1> QED
  BY <1>1, <1>2, <1>3, PTL DEF LockingSpec

----------------------------------------------------------------------------
(* Why there is no deadlock: every transaction takes its locks in one order, *)
(* the filters before the feeds and each of them by id.                      *)

LockRows == Feeds \union Filters

\* A transaction may ask for row a while it holds row b.
After(a, b) ==
  \/ a \in Feeds /\ b \in Filters
  \/ {a, b} \subseteq Feeds /\ a > b
  \/ {a, b} \subseteq Filters /\ a > b

\* The transactions there are, and the rows they name.
RowsOK(r) ==
  /\ r.op \in {"none", "save", "edit", "delete"} /\ r.want \subseteq Filters
  /\ r.todo \subseteq LockRows /\ \A h \in r.held : h.row \in LockRows

\* What a transaction holds comes before what it has still to lock; an edit
\* holds the feed it validates.
Ordered(r) ==
  /\ RowsOK(r)
  /\ r.op \in {"edit", "delete"} /\ r.pc = "filter" => r.held = {}
  /\ r.op = "save" /\ r.pc = "filters" =>
       \A h \in r.held : h.row \in Filters /\ \A x \in r.todo : x > h.row
  /\ r.op = "edit" /\ r.pc = "list" => \A h \in r.held : h.row \in Filters
  /\ r.op = "edit" /\ r.pc = "feeds" =>
       \A h \in r.held, f \in r.todo : h.row \in Filters \/ f > h.row
  /\ r.op = "edit" /\ r.pc = "validate" =>
       \A h \in r.held, f \in r.todo :
         h.row \in Filters \/ f > h.row \/ f = h.row

OrderInv == \A t \in Transactions : Ordered(tx[t])

\* A step is one of a single transaction.
LEMMA OrderStep ==
  ASSUME LockInv, OrderInv, NEW t \in Transactions, NEW next, Ordered(next),
         tx' = [tx EXCEPT ![t] = next]
  PROVE  OrderInv'
BY DEF OrderInv, LockInv, TxShape

\* The same of one that takes a lock.
LEMMA OrderLock ==
  ASSUME LockInv, OrderInv, NEW t \in Transactions, NEW row, NEW mode, NEW next,
         DOMAIN next = TxFields, Locks(t, row, mode, next),
         \A after : /\ DOMAIN after = TxFields
                    /\ after.op = next.op /\ after.pc = next.pc
                    /\ after.todo = next.todo /\ after.want = next.want
                    /\ after.held = next.held
                         \union {[row |-> row, mode |-> mode]}
                    => Ordered(after)
  PROVE  OrderInv'
<1> DEFINE after == [next EXCEPT !.held =
                       @ \union {[row |-> row, mode |-> mode]}]
<1>1. tx' = [tx EXCEPT ![t] = after]
  BY DEF Locks
<1>2. /\ DOMAIN after = TxFields /\ after.op = next.op /\ after.pc = next.pc
      /\ after.todo = next.todo /\ after.want = next.want
      /\ after.held = next.held \union {[row |-> row, mode |-> mode]}
  BY DEF TxFields
<1> HIDE DEF after
<1>3. Ordered(after)
  BY <1>2
<1> QED
  BY <1>1, <1>3, OrderStep

\* A save locks its filters in the order of their ids, then its feed.
LEMMA SaveOrder ==
  ASSUME LockingAssumption, LockInv, OrderInv, NEW t \in Transactions,
         SaveReadsFilter(t) \/ SaveLocksFeed(t)
  PROVE  OrderInv'
<1>1. /\ tx[t].op = "save" /\ tx[t].pc = "filters" /\ DOMAIN tx[t] = TxFields
      /\ SaveOK(t) /\ Ordered(tx[t])
  BY DEF SaveReadsFilter, SaveLocksFeed, LockInv, TxShape, TxOK, OrderInv
<1>2. CASE SaveReadsFilter(t)
  <2>1. PICK x \in tx[t].todo :
          /\ IsFirst(x, tx[t].todo)
          /\ ReadsRules(t, x, [tx[t] EXCEPT
               !.todo = @ \ {x},
               !.read = [y \in DOMAIN @ \union {x} |->
                           IF y = x THEN rules[x] ELSE @[y]]])
    BY <1>2 DEF SaveReadsFilter
  <2> DEFINE next == [tx[t] EXCEPT
               !.todo = @ \ {x},
               !.read = [y \in DOMAIN @ \union {x} |->
                           IF y = x THEN rules[x] ELSE @[y]]]
  <2>2. /\ DOMAIN next = TxFields /\ next.held = tx[t].held /\ next.want = tx[t].want
        /\ next.op = "save" /\ next.pc = "filters"
        /\ next.todo = tx[t].todo \ {x}
    BY <1>1 DEF TxFields
  <2>3. Locks(t, x, Shared, next)
    BY <2>1 DEF ReadsRules
  <2> HIDE DEF next
  <2>4. tx[t].todo \subseteq Filters /\ Filters \subseteq Nat
    BY <1>1 DEF SaveOK, LockingAssumption
  <2>5. \A y \in tx[t].todo \ {x} : y > x
    BY <2>1, <2>4 DEF IsFirst
  <2>6. ASSUME NEW after, DOMAIN after = TxFields, after.op = next.op,
               after.pc = next.pc, after.todo = next.todo,
               after.want = next.want,
               after.held = next.held \union {[row |-> x, mode |-> Shared]}
        PROVE  Ordered(after)
    BY <1>1, <2>1, <2>2, <2>4, <2>5, <2>6 DEF Ordered, RowsOK, LockRows
  <2> QED
    BY <2>2, <2>3, <2>6, OrderLock
<1>3. CASE SaveLocksFeed(t)
  <2> DEFINE next == [tx[t] EXCEPT !.pc = "locked"]
  <2>1. /\ DOMAIN next = TxFields /\ next.held = tx[t].held /\ next.want = tx[t].want
        /\ next.op = "save" /\ next.pc = "locked" /\ next.todo = tx[t].todo
    BY <1>1 DEF TxFields
  <2>2. Locks(t, tx[t].row, Exclusive, next) /\ tx[t].row \in Feeds
    BY <1>1, <1>3 DEF SaveLocksFeed, SaveOK
  <2> HIDE DEF next
  <2>3. ASSUME NEW after, DOMAIN after = TxFields, after.op = next.op,
               after.pc = next.pc, after.todo = next.todo,
               after.want = next.want,
               after.held = next.held
                 \union {[row |-> tx[t].row, mode |-> Exclusive]}
        PROVE  Ordered(after)
    BY <1>1, <2>1, <2>2, <2>3 DEF Ordered, RowsOK, LockRows
  <2> QED
    BY <2>1, <2>2, <2>3, OrderLock
<1> QED
  BY <1>2, <1>3

\* An edit or a deletion begins with its filter.
LEMMA FilterOrder ==
  ASSUME LockingAssumption, LockInv, OrderInv, NEW t \in Transactions,
         EditLocksFilter(t) \/ DeleteLocksFilter(t)
  PROVE  OrderInv'
<1> DEFINE pc == IF tx[t].op = "edit" THEN "list" ELSE "check"
           next == [tx[t] EXCEPT !.pc = pc]
<1>1. /\ tx[t].op \in {"edit", "delete"} /\ tx[t].pc = "filter"
      /\ Locks(t, tx[t].row, Exclusive, next)
  BY DEF EditLocksFilter, DeleteLocksFilter
<1>2. /\ DOMAIN tx[t] = TxFields /\ tx[t].row \in Filters
      /\ Ordered(tx[t]) /\ tx[t].held = {}
  BY <1>1 DEF LockInv, TxShape, TxOK, EditOK, DeleteOK, OrderInv, Ordered, RowsOK
<1>3. /\ DOMAIN next = TxFields /\ next.held = {} /\ next.op = tx[t].op
      /\ next.want = tx[t].want
      /\ next.pc = pc /\ next.todo = tx[t].todo
  BY <1>2 DEF TxFields
<1> HIDE DEF next
<1>4. ASSUME NEW after, DOMAIN after = TxFields, after.op = next.op,
             after.pc = next.pc, after.todo = next.todo,
             after.want = next.want,
             after.held = next.held
               \union {[row |-> tx[t].row, mode |-> Exclusive]}
      PROVE  Ordered(after)
  BY <1>1, <1>2, <1>3, <1>4 DEF Ordered, RowsOK, LockRows
<1> QED
  BY <1>1, <1>3, <1>4, OrderLock

\* It goes on with the feeds of its filter, in the order of their ids.
LEMMA EditOrder ==
  ASSUME LockingAssumption, LockInv, OrderInv, NEW t \in Transactions,
         EditListsFeeds(t) \/ EditLocksFeed(t) \/ EditValidates(t)
  PROVE  OrderInv'
<1>1. /\ tx[t].op = "edit" /\ tx[t].pc \in {"list", "feeds", "validate"}
      /\ DOMAIN tx[t] = TxFields /\ Ordered(tx[t]) /\ EditOK(t)
      /\ Feeds \subseteq Nat
  BY DEF EditListsFeeds, EditLocksFeed, EditValidates, LockInv, TxShape, TxOK,
       OrderInv, LockingAssumption
<1>2. CASE EditListsFeeds(t)
  <2> DEFINE users == {f \in Feeds : tx[t].row \in links[f]}
             next == [tx[t] EXCEPT !.pc = "feeds", !.todo = users]
  <2>1. tx[t].pc = "list" /\ tx' = [tx EXCEPT ![t] = next]
    BY <1>2 DEF EditListsFeeds, Goes
  <2>2. /\ next.held = tx[t].held /\ next.want = tx[t].want /\ next.op = "edit"
        /\ next.pc = "feeds" /\ next.todo = users
    BY <1>1 DEF TxFields
  <2> HIDE DEF next
  <2>3. Ordered(next)
    BY <1>1, <2>1, <2>2 DEF Ordered, RowsOK, LockRows
  <2> QED
    BY <2>1, <2>3, OrderStep
<1>3. CASE EditLocksFeed(t)
  <2> DEFINE next == [tx[t] EXCEPT !.pc = "validate"]
  <2>1. PICK f \in tx[t].todo : NextFeed(f, t) /\ Locks(t, f, Exclusive, next)
    BY <1>3 DEF EditLocksFeed
  <2>2. tx[t].pc = "feeds" /\ tx[t].todo \subseteq Feeds
    BY <1>1, <1>3 DEF EditLocksFeed, EditOK, ListOK
  <2>3. /\ DOMAIN next = TxFields /\ next.held = tx[t].held /\ next.want = tx[t].want /\ next.op = "edit"
        /\ next.pc = "validate" /\ next.todo = tx[t].todo
    BY <1>1 DEF TxFields
  <2> HIDE DEF next
  <2>4. \A g \in tx[t].todo : g > f \/ g = f
    <3>1. f \in Nat /\ \A g \in tx[t].todo : g \in Nat
      BY <1>1, <2>2
    <3>2. \A g \in tx[t].todo : f <= g
      BY <2>1 DEF NextFeed, IsFirst
    <3> QED
      BY <3>1, <3>2
  <2>5. ASSUME NEW after, DOMAIN after = TxFields, after.op = next.op,
               after.pc = next.pc, after.todo = next.todo,
               after.want = next.want,
               after.held = next.held \union {[row |-> f, mode |-> Exclusive]}
        PROVE  Ordered(after)
    BY <1>1, <2>1, <2>2, <2>3, <2>4, <2>5 DEF Ordered, RowsOK, LockRows
  <2> QED
    BY <2>1, <2>3, <2>5, OrderLock
<1>4. CASE EditValidates(t)
  <2> DEFINE Read(f) == IF tx[t].row \notin links[f] THEN tx[t].read
                        ELSE [g \in DOMAIN tx[t].read \union {f} |->
                                IF g = f THEN Edited(t, f) ELSE tx[t].read[g]]
             Next(f) == [tx[t] EXCEPT !.pc = "feeds", !.todo = @ \ {f},
                                      !.read = Read(f)]
  <2>1. PICK f \in tx[t].todo :
          NextFeed(f, t) /\ tx' = [tx EXCEPT ![t] = Next(f)]
    BY <1>1, <1>4 DEF EditValidates, Goes, TxFields
  <2>2. tx[t].pc = "validate" /\ tx[t].todo \subseteq Feeds
    BY <1>1, <1>4 DEF EditValidates, EditOK, ListOK
  <2>3. /\ Next(f).held = tx[t].held /\ Next(f).want = tx[t].want /\ Next(f).op = "edit"
        /\ Next(f).pc = "feeds" /\ Next(f).todo = tx[t].todo \ {f}
    BY <1>1 DEF TxFields
  <2> HIDE DEF Next
  <2>4. \A g \in tx[t].todo \ {f} : g > f
    <3>1. f \in Nat /\ \A g \in tx[t].todo : g \in Nat
      BY <1>1, <2>2
    <3>2. \A g \in tx[t].todo : f <= g
      BY <2>1 DEF NextFeed, IsFirst
    <3> QED
      BY <3>1, <3>2
  <2>5. \A h \in tx[t].held, g \in tx[t].todo \ {f} :
          h.row \in Filters \/ g > h.row
    <3> SUFFICES ASSUME NEW h \in tx[t].held, NEW g \in tx[t].todo \ {f},
                        h.row \notin Filters
                 PROVE  g > h.row
      OBVIOUS
    <3>1. h.row \in Nat /\ g \in Nat /\ f \in Nat
      BY <1>1, <2>2 DEF Ordered, RowsOK, LockRows
    <3>2. f > h.row \/ f = h.row
      BY <1>1, <2>1, <2>2 DEF Ordered, RowsOK
    <3> QED
      BY <2>4, <3>1, <3>2
  <2>6. Ordered(Next(f))
    BY <1>1, <2>3, <2>5 DEF Ordered, RowsOK
  <2> QED
    BY <2>1, <2>6, OrderStep
<1> QED
  BY <1>2, <1>3, <1>4

\* Every step keeps the order.
LEMMA NextOrder ==
  ASSUME LockingAssumption, LockInv, OrderInv, [LockingNext]_lockingVars
  PROVE  OrderInv'
<1>1. CASE UNCHANGED lockingVars
  BY <1>1 DEF lockingVars, OrderInv
<1>2. ASSUME NEW t \in Transactions,
             CommitSave(t) \/ CommitEdit(t) \/ CommitDelete(t) \/ Rollback(t)
      PROVE  OrderInv'
  <2>1. tx' = [tx EXCEPT ![t] = Idle]
    BY <1>2 DEF CommitSave, CommitEdit, CommitDelete, Rollback, Goes
  <2>2. Ordered(Idle)
    BY DEF Ordered, RowsOK, Idle
  <2> QED
    BY <2>1, <2>2, OrderStep
<1>3. ASSUME NEW t \in Transactions, NEW f \in Feeds,
             NEW want \in SUBSET Filters, NEW keep \in BOOLEAN,
             BeginSave(t, f, want, keep)
      PROVE  OrderInv'
  <2> DEFINE next == [Idle EXCEPT !.op = "save", !.row = f, !.pc = "filters",
                                  !.want = want, !.keep = keep, !.todo = want]
  <2>1. tx' = [tx EXCEPT ![t] = next]
    BY <1>3 DEF BeginSave, Goes
  <2>2. Ordered(next)
    BY DEF Ordered, RowsOK, LockRows, Idle
  <2> QED
    BY <2>1, <2>2, OrderStep
<1>4. ASSUME NEW t \in Transactions, NEW x \in Filters,
             BeginEdit(t, x) \/ BeginDelete(t, x)
      PROVE  OrderInv'
  <2>1. PICK op \in {"edit", "delete"} :
          tx' = [tx EXCEPT ![t] =
                   [Idle EXCEPT !.op = op, !.row = x, !.pc = "filter"]]
    BY <1>4 DEF BeginEdit, BeginDelete, Goes
  <2>2. Ordered([Idle EXCEPT !.op = op, !.row = x, !.pc = "filter"])
    BY DEF Ordered, RowsOK, Idle
  <2> QED
    BY <2>1, <2>2, OrderStep
<1>5. ASSUME NEW t \in Transactions, DeleteChecksUse(t)
      PROVE  OrderInv'
  <2> DEFINE next == [tx[t] EXCEPT !.pc = "unused"]
  <2>1. tx' = [tx EXCEPT ![t] = next] /\ tx[t].op = "delete"
    BY <1>5 DEF DeleteChecksUse, Goes
  <2>2. DOMAIN tx[t] = TxFields /\ Ordered(tx[t])
    BY DEF LockInv, TxShape, OrderInv
  <2>3. /\ next.held = tx[t].held /\ next.want = tx[t].want /\ next.op = "delete"
        /\ next.pc = "unused" /\ next.todo = tx[t].todo
    BY <2>1, <2>2 DEF TxFields
  <2> HIDE DEF next
  <2>4. Ordered(next)
    BY <2>2, <2>3 DEF Ordered, RowsOK
  <2> QED
    BY <2>1, <2>4, OrderStep
<1> QED
  BY <1>1, <1>2, <1>3, <1>4, <1>5, SaveOrder, FilterOrder, EditOrder
     DEF LockingNext


\* The row that t's next statement locks.
Asked(t) == CHOOSE row \in LockRows : \E h \in Asks(t) : h.row = row

\* A transaction that waits for a lock waits for one row, which comes after
\* all it holds.
LEMMA AsksAfter ==
  ASSUME LockingAssumption, LockInv, OrderInv, NEW t \in Transactions,
         Asks(t) # {}
  PROVE  /\ Asked(t) \in LockRows /\ \A h \in Asks(t) : h.row = Asked(t)
         /\ \A h \in tx[t].held : After(Asked(t), h.row)
<1>1. /\ SaveOK(t) /\ EditOK(t) /\ DeleteOK(t) /\ Ordered(tx[t])
      /\ Feeds \subseteq Nat /\ Filters \subseteq Nat
  BY DEF LockInv, TxOK, OrderInv, LockingAssumption
<1>2. ASSUME NEW row \in LockRows, Asks(t) # {},
             \A h \in Asks(t) : h.row = row,
             \A h \in tx[t].held : After(row, h.row)
      PROVE  /\ Asked(t) \in LockRows /\ \A h \in Asks(t) : h.row = Asked(t)
             /\ \A h \in tx[t].held : After(Asked(t), h.row)
  <2>1. Asked(t) = row
    BY <1>2 DEF Asked
  <2> QED
    BY <1>2, <2>1
<1>3. CASE tx[t].op = "save" /\ tx[t].pc = "filters" /\ tx[t].todo # {}
  <2> DEFINE first == {y \in tx[t].todo : IsFirst(y, tx[t].todo)}
  <2>1. Asks(t) = {[row |-> x, mode |-> Shared] : x \in first}
    BY <1>3 DEF Asks
  <2>2. PICK x \in first : TRUE
    BY <2>1
  <2>3. tx[t].todo \subseteq Filters
    BY <1>1, <1>3 DEF SaveOK
  <2>4. first = {x}
    <3>1. \A y \in first : y <= x /\ x <= y /\ y \in Nat /\ x \in Nat
      BY <1>1, <2>3 DEF IsFirst
    <3>2. \A y \in first : y = x
      BY <3>1
    <3> QED
      BY <3>2
  <2>5. \A h \in Asks(t) : h.row = x
    BY <2>1, <2>4
  <2>6. \A h \in tx[t].held : After(x, h.row)
    BY <1>1, <1>3, <2>3 DEF Ordered, RowsOK, After
  <2> QED
    BY <1>2, <2>3, <2>5, <2>6 DEF LockRows
<1>4. CASE tx[t].op = "edit" /\ tx[t].pc = "feeds"
  <2> DEFINE first == {y \in tx[t].todo : NextFeed(y, t)}
  <2>1. Asks(t) = {[row |-> x, mode |-> Exclusive] : x \in first}
    BY <1>4 DEF Asks
  <2>2. PICK x \in first : TRUE
    BY <2>1
  <2>3. tx[t].todo \subseteq Feeds
    BY <1>1, <1>4 DEF EditOK, ListOK
  <2>4. first = {x}
    <3>1. \A y \in first : y <= x /\ x <= y /\ y \in Nat /\ x \in Nat
      BY <1>1, <2>3 DEF NextFeed, IsFirst
    <3>2. \A y \in first : y = x
      BY <3>1
    <3> QED
      BY <3>2
  <2>5. \A h \in Asks(t) : h.row = x
    BY <2>1, <2>4
  <2>6. \A h \in tx[t].held : After(x, h.row)
    BY <1>1, <1>4, <2>3 DEF Ordered, RowsOK, After, LockRows
  <2> QED
    BY <1>2, <2>3, <2>5, <2>6 DEF LockRows
<1>5. CASE \/ tx[t].op = "save" /\ tx[t].pc = "filters" /\ tx[t].todo = {}
           \/ tx[t].op # "none" /\ tx[t].pc = "filter"
  <2>1. Asks(t) = {[row |-> tx[t].row, mode |-> Exclusive]}
    BY <1>5 DEF Asks
  <2>2. \A h \in Asks(t) : h.row = tx[t].row
    BY <2>1
  <2>3. CASE tx[t].op = "save"
    <3>1. tx[t].row \in Feeds /\ tx[t].pc = "filters"
      BY <1>1, <1>5, <2>3 DEF SaveOK
    <3>2. \A h \in tx[t].held : After(tx[t].row, h.row)
      BY <1>1, <2>3, <3>1 DEF Ordered, RowsOK, After
    <3> QED
      BY <1>2, <2>2, <3>1, <3>2 DEF LockRows
  <2>4. CASE tx[t].op \in {"edit", "delete"}
    <3>1. tx[t].row \in Filters /\ tx[t].held = {}
      BY <1>1, <1>5, <2>4 DEF EditOK, DeleteOK, Ordered, RowsOK
    <3> QED
      BY <1>2, <2>2, <3>1 DEF LockRows
  <2> QED
    BY <1>1, <1>5, <2>3, <2>4 DEF Ordered, RowsOK
<1> QED
  BY <1>3, <1>4, <1>5 DEF Asks


\* Among transactions that wait for one another, the one whose row is last in
\* the order waits for none of them.
LEMMA OrderedWaits ==
  ASSUME LockingAssumption, LockInv, OrderInv PROVE NoLockCycle
<1> SUFFICES ASSUME NEW circle \in SUBSET Transactions, circle # {},
                    \A t \in circle : WaitsFor(t) \intersect circle # {}
             PROVE  FALSE
  BY DEF NoLockCycle
<1> DEFINE Beyond(row) == {r \in LockRows : After(r, row)}
           beyonds == {Beyond(Asked(t)) : t \in circle}
<1>1. IsFiniteSet(LockRows)
  BY FS_Union DEF LockingAssumption, LockRows
<1>2. IsWellFoundedOn(StrictSubsetOrdering(LockRows), SUBSET LockRows)
  BY <1>1, FS_StrictSubsetOrderingWellFounded, FS_FiniteSubsetsOfFinite
<1>3. beyonds \subseteq SUBSET LockRows /\ beyonds # {}
  OBVIOUS
<1> HIDE DEF beyonds
<1>4. PICK least \in beyonds :
        \A other \in beyonds :
          ~ <<other, least>> \in StrictSubsetOrdering(LockRows)
  BY <1>2, <1>3, WFMin
<1>5. PICK t \in circle : least = Beyond(Asked(t))
  BY DEF beyonds
<1>6. PICK h \in Asks(t), u \in circle : u \in Blockers(t, h.row, h.mode)
  BY DEF WaitsFor
<1>7. Asks(u) # {}
  BY DEF WaitsFor
<1>8. After(Asked(u), Asked(t)) /\ Asked(u) \in LockRows /\ Asked(t) \in LockRows
  <2>1. PICK held \in tx[u].held : held.row = h.row
    BY <1>6 DEF Blockers
  <2>2. h.row = Asked(t) /\ Asked(t) \in LockRows
    BY <1>6, AsksAfter
  <2>3. After(Asked(u), held.row) /\ Asked(u) \in LockRows
    BY <1>7, AsksAfter
  <2> QED
    BY <2>1, <2>2, <2>3
<1>9. \A a, b, c \in LockRows : ~After(a, a) /\ (After(a, b) /\ After(b, c) => After(a, c))
  BY DEF LockRows, After, LockingAssumption
<1>10. Beyond(Asked(u)) \subseteq Beyond(Asked(t))
  BY <1>8, <1>9
<1>11. Asked(u) \in Beyond(Asked(t)) /\ Asked(u) \notin Beyond(Asked(u))
  BY <1>8, <1>9
<1>12. /\ Beyond(Asked(u)) \in SUBSET LockRows /\ least \in SUBSET LockRows
       /\ Beyond(Asked(u)) \subseteq least /\ Beyond(Asked(u)) # least
  BY <1>5, <1>10, <1>11
<1>13. Beyond(Asked(u)) \in beyonds
  BY DEF beyonds
<1> HIDE DEF Beyond
<1>14. <<Beyond(Asked(u)), least>> \in StrictSubsetOrdering(LockRows)
  BY <1>12 DEF StrictSubsetOrdering
<1> QED
  BY <1>4, <1>13, <1>14

LEMMA OrderAlways ==
  ASSUME LockingAssumption PROVE LockingSpec => [](LockInv /\ OrderInv)
<1>1. LockingInit => LockInv /\ OrderInv
  BY InitLockInv DEF LockingInit, OrderInv, Ordered, RowsOK, Idle
<1>2. (LockInv /\ OrderInv) /\ [LockingNext]_lockingVars
        => (LockInv /\ OrderInv)'
  BY NextLockInv, NextOrder
<1> QED
  BY <1>1, <1>2, PTL DEF LockingSpec

\* Every transaction names feeds and filters that there are, and locks only
\* their rows.
THEOREM RowsNamed == LockingAssumption => (LockingSpec => []LockingTypeOK)
<1> SUFFICES ASSUME LockingAssumption PROVE LockingSpec => []LockingTypeOK
  OBVIOUS
<1>1. LockInv /\ OrderInv => LockingTypeOK
  BY DEF LockInv, CommittedOK, OrderInv, Ordered, RowsOK, LockRows, LockingTypeOK
<1> QED
  BY <1>1, OrderAlways, PTL

\* However many saves, edits and deletions overlap, no two or more of them wait
\* for one another's row locks (libraryRules and filterFeeds order their rows
\* by id, and both come to the feeds after the filters).
THEOREM NoDeadlock == LockingAssumption => (LockingSpec => []NoLockCycle)
<1> SUFFICES ASSUME LockingAssumption PROVE LockingSpec => []NoLockCycle
  OBVIOUS
<1>1. LockInv /\ OrderInv => NoLockCycle
  BY OrderedWaits
<1> QED
  BY <1>1, OrderAlways, PTL

----------------------------------------------------------------------------
(* How the rules of a feed are put together. *)

LEMMA Single ==
  ASSUME NEW S, IsFiniteSet(S), S # {}, ~(Cardinality(S) > 1)
  PROVE  \E x : S = {x}
<1>1. Cardinality(S) \in Nat /\ Cardinality(S) # 0
  BY FS_CardinalityType, FS_EmptySet
<1>2. Cardinality(S) = 1
  BY <1>1
<1> QED
  BY <1>2, FS_Singleton

\* A joined rule is not NoRule unless nothing is joined.
LEMMA JoinSome ==
  ASSUME NEW op \in {"all", "any"}, NEW parts, IsFiniteSet(parts),
         NoRule \notin parts
  PROVE  Join(op, parts) = NoRule <=> parts = {}
<1>1. CASE parts = {}
  BY <1>1, FS_EmptySet DEF Join
<1>2. CASE Cardinality(parts) > 1
  <2>1. parts # {}
    BY <1>2, FS_EmptySet
  <2>2. Join(op, parts).op = op
    BY <1>2 DEF Join, Group
  <2>3. NoRule.op = "none"
    BY DEF NoRule, Group
  <2> QED
    BY <2>1, <2>2, <2>3
<1>3. CASE parts # {} /\ ~(Cardinality(parts) > 1)
  BY <1>3 DEF Join
<1> QED
  BY <1>1, <1>2, <1>3

\* Includes joined under "all" match when each part does.
LEMMA JoinAll ==
  ASSUME NEW parts, NEW matched, IsFiniteSet(parts), parts # {},
         \A part \in parts : part \in matched <=> Says(part, matched)
  PROVE  Says(Join("all", parts), matched)
           <=> \A part \in parts : Says(part, matched)
<1>1. CASE Cardinality(parts) > 1
  <2>1. Says(Join("all", parts), matched)
          <=> (UNION {Spliced("all", part) : part \in parts}) \subseteq matched
    BY <1>1 DEF Join, Says, Group
  <2>2. \A part \in parts :
          Spliced("all", part) \subseteq matched <=> Says(part, matched)
    BY DEF Spliced, Says
  <2> QED
    BY <2>1, <2>2
<1>2. CASE ~(Cardinality(parts) > 1)
  BY <1>2, Single DEF Join
<1> QED
  BY <1>1, <1>2

\* Excludes joined under "any" match when some part does.
LEMMA JoinAny ==
  ASSUME NEW parts, NEW matched, IsFiniteSet(parts), parts # {},
         \A part \in parts : part \in matched <=> Says(part, matched)
  PROVE  Says(Join("any", parts), matched)
           <=> \E part \in parts : Says(part, matched)
<1>1. CASE Cardinality(parts) > 1
  <2>1. Says(Join("any", parts), matched)
          <=> (UNION {Spliced("any", part) : part \in parts})
                \intersect matched # {}
    BY <1>1 DEF Join, Says, Group
  <2>2. \A part \in parts :
          Spliced("any", part) \intersect matched # {} <=> Says(part, matched)
    BY DEF Spliced, Says
  <2> QED
    BY <2>1, <2>2
<1>2. CASE ~(Cardinality(parts) > 1)
  BY <1>2, Single DEF Join
<1> QED
  BY <1>1, <1>2

\* A story passes the merged rules of a feed when it passes its own and those
\* of every library filter it uses: it matches each include side and no exclude
\* side (Combine, join, Matcher.evaluate).
THEOREM CombinedKeeps ==
  ASSUME NEW ruleset, NEW matched,
         \A rule \in ruleset : rule \in matched <=> Says(rule, matched),
         NEW own \in FilterSets(ruleset),
         NEW shared \in SUBSET FilterSets(ruleset), IsFiniteSet(shared)
  PROVE  Keeps(Combine(own, shared), matched)
           <=> \A set \in {own} \union shared : Keeps(set, matched)
<1> DEFINE sets == {own} \union shared
           includes == {s.include : s \in sets} \ {NoRule}
           excludes == {s.exclude : s \in sets} \ {NoRule}
<1>1. IsFiniteSet(sets)
  BY FS_Singleton, FS_Union
<1>2. IsFiniteSet(includes) /\ IsFiniteSet(excludes)
  <2>1. IsFiniteSet({s.include : s \in sets})
    <3>1. [s \in sets |-> s.include]
            \in Surjection(sets, {s.include : s \in sets})
      BY DEF Surjection
    <3> QED
      BY <1>1, <3>1, FS_Surjection
  <2>2. IsFiniteSet({s.exclude : s \in sets})
    <3>1. [s \in sets |-> s.exclude]
            \in Surjection(sets, {s.exclude : s \in sets})
      BY DEF Surjection
    <3> QED
      BY <1>1, <3>1, FS_Surjection
  <2> QED
    BY <2>1, <2>2, FS_Difference
<1>3. \A part \in includes \union excludes :
        part \in matched <=> Says(part, matched)
  BY DEF FilterSets
<1>4. CASE shared = {}
  BY <1>4 DEF Combine
<1>5. CASE shared # {}
  <2>1. Combine(own, shared) =
          [include |-> Join("all", includes), exclude |-> Join("any", excludes)]
    BY <1>5 DEF Combine
  <2>2. Join("all", includes) # NoRule => Says(Join("all", includes), matched)
          <=> \A part \in includes : Says(part, matched)
    BY <1>2, <1>3, JoinAll, JoinSome
  <2> QED
    BY <2>1, <2>2, <1>2, <1>3, JoinAny, JoinSome DEF Keeps
<1> QED
  BY <1>4, <1>5
=============================================================================
