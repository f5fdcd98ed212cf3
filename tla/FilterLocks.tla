---------------------------- MODULE FilterLocks ----------------------------
(***************************************************************************)
(* Saves of feeds and edits of library filters on PostgreSQL, statement by *)
(* statement.  A save reads the rules of the filters it links, and an edit *)
(* of a filter validates every feed that uses it; both do so against rows  *)
(* that other transactions change, and wait for each other's row locks.    *)
(* FeedStore has each of them as the one step that SQLite makes of it.     *)
(*                                                                         *)
(* Feeds and filters are numbers: their order is that of the ids.  A       *)
(* refresh that stores its result, a deletion of a feed and a pause take   *)
(* the lock of one feed and wait for nothing else, so they are left out,   *)
(* and so is a feed or filter not yet committed, which nobody else sees.   *)
(***************************************************************************)
EXTENDS Naturals, FiniteSets

CONSTANTS Feeds, Filters, Transactions,
  MaxEdits   \* bound: edits of one filter

VARIABLES
  rules,    \* per filter: its committed rules, by number, or Gone
  links,    \* per feed: the filters it uses
  tx,       \* per transaction: what it is doing
  checked   \* history: per feed, the rules its last save or edit validated

lockingVars == <<rules, links, tx, checked>>

Gone == MaxEdits + 1
Shared == "FOR SHARE"
Exclusive == "FOR UPDATE"
NoReads == [x \in {} |-> 0]
Idle == [op |-> "none", row |-> 0, pc |-> "begin", want |-> {}, keep |-> FALSE,
         todo |-> {}, read |-> NoReads, held |-> {}]

\* What the constants are; MCParts has it as its assumption.
LockingAssumption ==
  /\ Feeds \union Filters \subseteq Nat /\ Feeds \intersect Filters = {}
  /\ IsFiniteSet(Feeds) /\ IsFiniteSet(Filters)
  /\ MaxEdits \in Nat

Combined(used, by) == [x \in used |-> by[x]]

\* The rows are taken in the order of their ids.
IsFirst(row, ids) == row \in ids /\ \A other \in ids : row <= other

LockingInit ==
  /\ rules = [x \in Filters |-> 0] /\ links \in [Feeds -> SUBSET Filters]
  /\ tx = [t \in Transactions |-> Idle]
  /\ checked = [f \in Feeds |-> Combined(links[f], rules)]

----------------------------------------------------------------------------
(* Row locks. *)

Conflict(a, b) == a = Exclusive \/ b = Exclusive

Blockers(t, row, mode) ==
  {u \in Transactions \ {t} :
     \E h \in tx[u].held : h.row = row /\ Conflict(h.mode, mode)}

\* t's next statement locks the row, and it goes on as next.
Locks(t, row, mode, next) ==
  /\ Blockers(t, row, mode) = {}
  /\ tx' = [tx EXCEPT ![t] = [next EXCEPT !.held =
                                @ \union {[row |-> row, mode |-> mode]}]]

\* A statement that locks nothing.
Goes(t, next) == tx' = [tx EXCEPT ![t] = next]

\* An error, a timeout or a lost client: everything is rolled back.
Rollback(t) ==
  /\ tx[t].op # "none" /\ Goes(t, Idle) /\ UNCHANGED <<rules, links, checked>>

----------------------------------------------------------------------------
(* SaveWithOptions of a feed. *)

BeginSave(t, f, want, keep) ==
  /\ tx[t].op = "none"
  /\ keep => want = links[f]
  /\ Goes(t, [Idle EXCEPT !.op = "save", !.row = f, !.pc = "filters",
                          !.want = want, !.keep = keep, !.todo = want])
  /\ UNCHANGED <<rules, links, checked>>

\* Wrong variant: the rules are read without a lock.
ReadsRulesUnlocked(t, x, next) == Goes(t, next)

\* Another's lock on the filter is waited for, and the rules are read as
\* committed then.
ReadsRules(t, x, next) == Locks(t, x, Shared, next)

\* libraryRules: a filter that is gone ends the save.
SaveReadsFilter(t) ==
  /\ tx[t].op = "save" /\ tx[t].pc = "filters"
  /\ \E x \in tx[t].todo :
       /\ IsFirst(x, tx[t].todo) /\ rules[x] # Gone
       /\ ReadsRules(t, x, [tx[t] EXCEPT
            !.todo = @ \ {x},
            !.read = [y \in DOMAIN @ \union {x} |->
                        IF y = x THEN rules[x] ELSE @[y]]])
  /\ UNCHANGED <<rules, links, checked>>

SaveLocksFeed(t) ==
  /\ tx[t].op = "save" /\ tx[t].pc = "filters" /\ tx[t].todo = {}
  /\ Locks(t, tx[t].row, Exclusive, [tx[t] EXCEPT !.pc = "locked"])
  /\ UNCHANGED <<rules, links, checked>>

\* The filters a client did not send are kept, and were not changed by a
\* save this one waited for.
KeptLinks(t) == tx[t].keep => links[tx[t].row] = tx[t].want

CommitSave(t) ==
  /\ tx[t].op = "save" /\ tx[t].pc = "locked" /\ KeptLinks(t)
  /\ links' = IF tx[t].keep THEN links
              ELSE [links EXCEPT ![tx[t].row] = tx[t].want]
  /\ checked' = [checked EXCEPT ![tx[t].row] = tx[t].read]
  /\ Goes(t, Idle) /\ UNCHANGED rules

----------------------------------------------------------------------------
(* SaveFilter, an edit: its new rules are numbered after the old ones. *)

BeginEdit(t, x) ==
  /\ tx[t].op = "none"
  /\ Goes(t, [Idle EXCEPT !.op = "edit", !.row = x, !.pc = "filter"])
  /\ UNCHANGED <<rules, links, checked>>

EditLocksFilter(t) ==
  /\ tx[t].op = "edit" /\ tx[t].pc = "filter" /\ rules[tx[t].row] < MaxEdits
  /\ Locks(t, tx[t].row, Exclusive, [tx[t] EXCEPT !.pc = "list"])
  /\ UNCHANGED <<rules, links, checked>>

EditListsFeeds(t) ==
  /\ tx[t].op = "edit" /\ tx[t].pc = "list"
  /\ Goes(t, [tx[t] EXCEPT !.pc = "feeds", 
                            !.todo = {f \in Feeds : tx[t].row \in links[f]}])
  /\ UNCHANGED <<rules, links, checked>>

\* Wrong variant: the feeds come in the order the links were made, here the
\* opposite one for every second filter.
NextFeedUnordered(f, t) ==
  IF tx[t].row % 2 = 0 THEN IsFirst(f, tx[t].todo)
  ELSE f \in tx[t].todo /\ \A g \in tx[t].todo : f >= g

NextFeed(f, t) == IsFirst(f, tx[t].todo)

\* lockFeed.
EditLocksFeed(t) ==
  /\ tx[t].op = "edit" /\ tx[t].pc = "feeds"
  /\ \E f \in tx[t].todo :
       /\ NextFeed(f, t)
       /\ Locks(t, f, Exclusive, [tx[t] EXCEPT !.pc = "validate"])
  /\ UNCHANGED <<rules, links, checked>>

\* The rules of a feed with the new ones of the edited filter.
Edited(t, f) == Combined(links[f], [rules EXCEPT ![tx[t].row] = @ + 1])

\* The feed's filters and their rules are read after its lock; a feed that
\* lost the filter since the list was read is passed over.
EditValidates(t) ==
  /\ tx[t].op = "edit" /\ tx[t].pc = "validate"
  /\ \E f \in tx[t].todo :
       /\ NextFeed(f, t)
       /\ Goes(t, [tx[t] EXCEPT
            !.pc = "feeds", !.todo = @ \ {f},
            !.read = IF tx[t].row \notin links[f] THEN @
                     ELSE [g \in DOMAIN @ \union {f} |->
                             IF g = f THEN Edited(t, f) ELSE @[g]]])
  /\ UNCHANGED <<rules, links, checked>>

CommitEdit(t) ==
  /\ tx[t].op = "edit" /\ tx[t].pc = "feeds" /\ tx[t].todo = {}
  /\ rules' = [rules EXCEPT ![tx[t].row] = @ + 1]
  /\ checked' = [f \in Feeds |-> IF f \in DOMAIN tx[t].read THEN tx[t].read[f]
                                 ELSE checked[f]]
  /\ Goes(t, Idle) /\ UNCHANGED links

----------------------------------------------------------------------------
(* DeleteFilter. *)

BeginDelete(t, x) ==
  /\ tx[t].op = "none"
  /\ Goes(t, [Idle EXCEPT !.op = "delete", !.row = x, !.pc = "filter"])
  /\ UNCHANGED <<rules, links, checked>>

DeleteLocksFilter(t) ==
  /\ tx[t].op = "delete" /\ tx[t].pc = "filter" /\ rules[tx[t].row] # Gone
  /\ Locks(t, tx[t].row, Exclusive, [tx[t] EXCEPT !.pc = "check"])
  /\ UNCHANGED <<rules, links, checked>>

DeleteChecksUse(t) ==
  /\ tx[t].op = "delete" /\ tx[t].pc = "check"
  /\ \A f \in Feeds : tx[t].row \notin links[f]
  /\ Goes(t, [tx[t] EXCEPT !.pc = "unused"])
  /\ UNCHANGED <<rules, links, checked>>

CommitDelete(t) ==
  /\ tx[t].op = "delete" /\ tx[t].pc = "unused"
  /\ rules' = [rules EXCEPT ![tx[t].row] = Gone]
  /\ Goes(t, Idle) /\ UNCHANGED <<links, checked>>

LockingNext ==
  \E t \in Transactions :
    \/ \E f \in Feeds, want \in SUBSET Filters, keep \in BOOLEAN :
         BeginSave(t, f, want, keep)
    \/ SaveReadsFilter(t) \/ SaveLocksFeed(t) \/ CommitSave(t)
    \/ \E x \in Filters : BeginEdit(t, x) \/ BeginDelete(t, x)
    \/ EditLocksFilter(t) \/ EditListsFeeds(t) \/ EditLocksFeed(t)
    \/ EditValidates(t) \/ CommitEdit(t)
    \/ DeleteLocksFilter(t) \/ DeleteChecksUse(t) \/ CommitDelete(t)
    \/ Rollback(t)

LockingSpec == LockingInit /\ [][LockingNext]_lockingVars

----------------------------------------------------------------------------
(* Properties. *)

LockingTypeOK ==
  /\ rules \in [Filters -> 0 .. Gone] /\ links \in [Feeds -> SUBSET Filters]
  /\ DOMAIN checked = Feeds
  /\ \A t \in Transactions :
       /\ tx[t].op \in {"none", "save", "edit", "delete"}
       /\ tx[t].want \subseteq Filters
       /\ tx[t].todo \subseteq Feeds \union Filters
       /\ \A h \in tx[t].held : h.row \in Feeds \union Filters

\* What t's next statement locks, and the transactions that hold it.
Asks(t) ==
  CASE tx[t].op = "save" /\ tx[t].pc = "filters" /\ tx[t].todo # {} ->
         {[row |-> x, mode |-> Shared] : x \in
            {y \in tx[t].todo : IsFirst(y, tx[t].todo)}}
    [] tx[t].op = "edit" /\ tx[t].pc = "feeds" ->
         {[row |-> f, mode |-> Exclusive] : f \in
            {g \in tx[t].todo : NextFeed(g, t)}}
    [] \/ tx[t].op = "save" /\ tx[t].pc = "filters" /\ tx[t].todo = {}
       \/ tx[t].op # "none" /\ tx[t].pc = "filter" ->
         {[row |-> tx[t].row, mode |-> Exclusive]}
    [] OTHER -> {}

WaitsFor(t) == UNION {Blockers(t, h.row, h.mode) : h \in Asks(t)}

\* Saves, edits and deletions never wait for one another in a circle, which
\* PostgreSQL would end by failing one of them.
NoLockCycle ==
  \A circle \in (SUBSET Transactions) \ {{}} :
    \E t \in circle : WaitsFor(t) \intersect circle = {}

\* What was committed was validated: the filters a feed uses exist, and the
\* save or edit that last touched the feed or one of them checked exactly
\* these filters with exactly these rules.
RulesValidated ==
  \A f \in Feeds :
    /\ \A x \in links[f] : rules[x] # Gone
    /\ checked[f] = Combined(links[f], rules)
=============================================================================
