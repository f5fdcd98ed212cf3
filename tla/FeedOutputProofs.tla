-------------------------- MODULE FeedOutputProofs --------------------------
(***************************************************************************)
(* What FeedOutput publishes, proved for every set of stories, filters,    *)
(* rules, limits and bounds: its invariants, that every step publishes a   *)
(* change under a later time and nothing else (Stamped), and what the      *)
(* reader of FeedReader may conclude from a 304.                           *)
(***************************************************************************)
EXTENDS FeedReader, FiniteSetTheorems, TLAPS

----------------------------------------------------------------------------
(* The inductive invariant. *)

\* The refresh in progress goes by the row it started from, unless an edit came
\* in between, and then the versions tell.
JobCurrent ==
  /\ job.version <= feed.version
  /\ job.running /\ job.version = feed.version
       => job.article = feed.article /\ job.rules = feed.rules
          /\ job.keep = feed.keep

\* A stored story was first merged, and last merged, in the past, and last_new
\* is no older than any of them.
StoryTimes ==
  \A k \in stored : /\ story[k].first <= feed.new
                    /\ story[k].seen \in 1..now

\* "off" is no selector a body was read with.
BodiesRead == \A k \in stored : story[k].body # NoBody => story[k].body.article # "off"

\* The row of a feed that publishes has a time.
PublishedSince == feed.success => feed.changed >= 1

\* While any body is stored, the stories with the latest last_seen are those
\* that the last refresh to read the page stored.
ListedKnown ==
  WithBody # {} =>
    /\ \A k \in stored : story[k].seen <= listed.at
    /\ \A k \in stored \intersect listed.keys : story[k].seen = listed.at
    /\ lastRead = "empty" => listed.keys = {}

\* More stories are stored than MAX_ITEMS allows only since an earlier second.
Room == Cardinality(stored) <= limit \/ \A k \in stored : story[k].first < now

Inv ==
  /\ TypeOK
  /\ StoriesBehindFeed /\ BodiesMatchSelector /\ CleanedBodies
  /\ JobCurrent /\ StoryTimes /\ BodiesRead /\ PublishedSince /\ ListedKnown
  /\ Room

----------------------------------------------------------------------------
(* Finite orders. *)

\* A finite set that is not empty has an element with none before it.
LEMMA FirstElement ==
  ASSUME NEW S, IsFiniteSet(S), S # {}, NEW R,
         \A j \in S : <<j, j>> \notin R,
         \A i \in S, j \in S, k \in S :
            <<i, j>> \in R /\ <<j, k>> \in R => <<i, k>> \in R
  PROVE  \E k \in S : \A j \in S : <<j, k>> \notin R
<1> DEFINE Before(k) == {j \in S : <<j, k>> \in R}
           T == {Before(k) : k \in S}
<1>1. IsWellFoundedOn(StrictSubsetOrdering(S), SUBSET S)
  <2>1. IsWellFoundedOn(StrictSubsetOrdering(S), FiniteSubsetsOf(S))
    BY FS_StrictSubsetOrderingWellFounded
  <2>2. FiniteSubsetsOf(S) = SUBSET S
    BY FS_FiniteSubsetsOfFinite
  <2> QED  BY <2>1, <2>2
<1>2. T \subseteq SUBSET S /\ T # {}
  <2>1. T \subseteq SUBSET S
    OBVIOUS
  <2>2. PICK e \in S : TRUE
    OBVIOUS
  <2>3. Before(e) \in T
    OBVIOUS
  <2> QED  BY <2>1, <2>3
<1>3. PICK x \in T : \A y \in T : ~ (<<y, x>> \in StrictSubsetOrdering(S))
  <2> HIDE DEF T
  <2> QED  BY <1>1, <1>2, WFMin
<1>4. PICK k \in S : x = Before(k)
  OBVIOUS
<1>5. ASSUME NEW j \in S, <<j, k>> \in R
      PROVE  FALSE
  <2>1. Before(j) \subseteq Before(k)
    BY <1>5
  <2>2. j \in Before(k) /\ j \notin Before(j)
    BY <1>5
  <2>3. <<Before(j), Before(k)>> \in StrictSubsetOrdering(S)
    BY <2>1, <2>2 DEF StrictSubsetOrdering
  <2>4. Before(j) \in T
    OBVIOUS
  <2> QED  BY <1>3, <1>4, <2>3, <2>4
<1> QED  BY <1>5

----------------------------------------------------------------------------
(* Retention. *)

\* The order of retention: one story is ahead of another, or it is the other.
LEMMA AheadOrder ==
  ASSUME NEW rows \in [Keys -> Story],
         NEW i \in Keys, NEW j \in Keys, NEW k \in Keys
  PROVE  /\ ~Ahead(j, j, rows)
         /\ Ahead(i, j, rows) /\ Ahead(j, k, rows) => Ahead(i, k, rows)
         /\ j # k => Ahead(j, k, rows) \/ Ahead(k, j, rows)
<1>1. \A x \in Keys : rows[x].published \in Nat /\ x \in Nat
  BY OutputAssumption DEF Story
<1> QED  BY <1>1 DEF Ahead

\* Retention keeps no more stories than MAX_ITEMS.
LEMMA RetainedBound ==
  ASSUME NEW rows \in [Keys -> Story], NEW all \in SUBSET Keys,
         limit \in Nat \ {0}
  PROVE  /\ IsFiniteSet(Retained(all, rows))
         /\ Cardinality(Retained(all, rows)) <= limit
<1> DEFINE K == Retained(all, rows)
           R == {p \in Keys \X Keys : Ahead(p[2], p[1], rows)}
<1>1. K \subseteq all /\ IsFiniteSet(all) /\ IsFiniteSet(K)
  BY OutputAssumption, FS_Subset DEF Retained
<1>2. CASE K = {}
  BY <1>1, <1>2, FS_EmptySet
<1>3. CASE K # {}
  <2>1. PICK k \in K : \A j \in K : <<j, k>> \notin R
    <3>1. \A j \in K : <<j, j>> \notin R
      BY <1>1, AheadOrder
    <3>2. \A i \in K, j \in K, l \in K :
             <<i, j>> \in R /\ <<j, l>> \in R => <<i, l>> \in R
      <4> TAKE i \in K, j \in K, l \in K
      <4> HAVE <<i, j>> \in R /\ <<j, l>> \in R
      <4>1. i \in Keys /\ j \in Keys /\ l \in Keys
        BY <1>1
      <4>2. Ahead(j, i, rows) /\ Ahead(l, j, rows)
        OBVIOUS
      <4>3. Ahead(l, i, rows)
        BY <4>1, <4>2, AheadOrder
      <4> QED  BY <4>1, <4>3
    <3> HIDE DEF K, R
    <3> QED  BY <1>1, <1>3, <3>1, <3>2, FirstElement
  <2> DEFINE B == {j \in all : Ahead(j, k, rows)}
  <2>2. K \ {k} \subseteq B
    <3> SUFFICES ASSUME NEW j \in K, j # k
                 PROVE  j \in B
      OBVIOUS
    <3>1. j \in all /\ j \in Keys /\ k \in Keys
      BY <1>1
    <3>2. <<j, k>> \notin R
      BY <2>1
    <3>3. ~Ahead(k, j, rows)
      BY <3>1, <3>2
    <3> QED  BY <3>1, <3>3, AheadOrder
  <2>3. Cardinality(B) < limit
    BY DEF Retained
  <2>4. IsFiniteSet(B) /\ Cardinality(B) \in Nat
    BY <1>1, FS_Subset, FS_CardinalityType
  <2>5. Cardinality(K \ {k}) <= Cardinality(B)
    <3> HIDE DEF K, B
    <3> QED  BY <2>2, <2>4, FS_Subset
  <2>6. Cardinality(K \ {k}) = Cardinality(K) - 1
    BY <1>1, FS_RemoveElement
  <2>7. Cardinality(K) \in Nat
    BY <1>1, FS_CardinalityType
  <2> QED
    <3> HIDE DEF K, B
    <3>1. Cardinality(K) <= limit
      BY <2>3, <2>4, <2>5, <2>6, <2>7
    <3> QED  BY <1>1, <3>1 DEF K
<1> QED  BY <1>2, <1>3

\* Retention removes a story only when it keeps MAX_ITEMS others.
LEMMA RetainedFull ==
  ASSUME NEW rows \in [Keys -> Story], NEW all \in SUBSET Keys,
         limit \in Nat \ {0}, NEW k \in all, k \notin Retained(all, rows)
  PROVE  Cardinality(Retained(all, rows)) >= limit
<1> DEFINE K == Retained(all, rows)
           O == all \ K
           R == {p \in Keys \X Keys : Ahead(p[1], p[2], rows)}
<1>1. K \subseteq all /\ IsFiniteSet(all) /\ IsFiniteSet(K) /\ IsFiniteSet(O)
  BY OutputAssumption, FS_Subset DEF Retained
<1>2. PICK m \in O : \A j \in O : <<j, m>> \notin R
  <2>1. \A j \in O : <<j, j>> \notin R
    BY <1>1, AheadOrder
  <2>2. \A i \in O, j \in O, l \in O :
           <<i, j>> \in R /\ <<j, l>> \in R => <<i, l>> \in R
    <3> TAKE i \in O, j \in O, l \in O
    <3> HAVE <<i, j>> \in R /\ <<j, l>> \in R
    <3>1. i \in Keys /\ j \in Keys /\ l \in Keys
      BY <1>1
    <3>2. Ahead(i, j, rows) /\ Ahead(j, l, rows)
      OBVIOUS
    <3>3. Ahead(i, l, rows)
      BY <3>1, <3>2, AheadOrder
    <3> QED  BY <3>1, <3>3
  <2>3. O # {}
    OBVIOUS
  <2> HIDE DEF O, R
  <2> QED  BY <1>1, <2>1, <2>2, <2>3, FirstElement
<1> DEFINE B == {j \in all : Ahead(j, m, rows)}
<1>3. B \subseteq K
  BY <1>2
<1>4. IsFiniteSet(B) /\ Cardinality(B) \in Nat /\ Cardinality(K) \in Nat
  BY <1>1, FS_Subset, FS_CardinalityType
<1>5. ~(Cardinality(B) < limit)
  BY DEF Retained
<1>6. Cardinality(B) <= Cardinality(K)
  <2> HIDE DEF K, B
  <2> QED  BY <1>1, <1>3, FS_Subset
<1> QED
  <2> HIDE DEF B, K
  <2>1. Cardinality(K) >= limit
    BY <1>4, <1>5, <1>6
  <2> QED  BY <2>1 DEF K

----------------------------------------------------------------------------
(* A merge, with names for what MergeItems defines in its LET. *)

Rows(L, text, got) ==
  [k \in Keys |-> IF k \in L
                  THEN Upserted(k, text[k],
                                IF k \in got THEN BodyOf(job) ELSE NoBody)
                  ELSE story[k]]
Kept(L, text, got) == Retained(stored \union L, Rows(L, text, got))
Touched(L, text, got) ==
  {k \in L : Rows(L, text, got)[k].changed = ChangeTime}
Inserted(L, text, got) ==
  {k \in Touched(L, text, got) : Rows(L, text, got)[k].first = now}

\* MergeItems in these names.
LEMMA MergeItemsAs ==
  ASSUME NEW L, NEW text, NEW got, MergeItems(L, text, got)
  PROVE  /\ feed' = [feed EXCEPT
                !.success = TRUE, !.validator = TRUE,
                !.new = NewTime(Inserted(L, text, got), Kept(L, text, got)),
                !.changed = IF OutputChanged(Touched(L, text, got),
                                             Inserted(L, text, got),
                                             Kept(L, text, got))
                            THEN ChangeTime ELSE @]
         /\ stored' = Kept(L, text, got)
         /\ story' = [k \in Keys |-> IF k \in Kept(L, text, got)
                                     THEN Rows(L, text, got)[k] ELSE NoStory]
BY DEF MergeItems, Rows, Kept, Touched, Inserted

\* A body is read with a selector and rules of the row.
LEMMA BodyTypes ==
  ASSUME TypeOK
  PROVE  /\ NoBody \in Body /\ NoStory \in Story
         /\ BodyOf(job) \in Body
         /\ BodyOf(job) # NoBody => /\ job.article # "off"
                                    /\ BodyOf(job).article = job.article
                                    /\ BodyOf(job).rules = job.rules
<1>1. NoBody \in Body
  BY OutputAssumption DEF NoBody, Body, Articles
<1>2. NoStory \in Story
  BY <1>1, OutputAssumption DEF NoStory, Story
<1>3. BodyOf(job) \in Body
  BY <1>1 DEF TypeOK, Job, BodyOf, Body
<1>4. BodyOf(job) # NoBody => /\ job.article # "off"
                              /\ BodyOf(job).article = job.article
                              /\ BodyOf(job).rules = job.rules
  BY DEF BodyOf
<1> QED  BY <1>1, <1>2, <1>3, <1>4

\* The time of a merge is after every time published.
LEMMA ChangeTimeLater ==
  ASSUME TypeOK
  PROVE  /\ now \in Nat /\ now >= 1 /\ feed.changed \in Nat
         /\ ChangeTime \in Nat /\ ChangeTime > feed.changed /\ ChangeTime >= now
BY OutputAssumption DEF TypeOK, Feed, ChangeTime, Later

\* A story's time is a second of the feed's.
LEMMA StoryTimeType ==
  ASSUME NEW s \in Story
  PROVE  StoryTime(s) \in Nat
BY DEF StoryTime, Story

\* The rows of a merge: what becomes of a story it does not list, of one that
\* is stored, and of a new one.
RowsKnown(rows, L) ==
  /\ rows \in [Keys -> Story]
  /\ \A k \in Keys \ L : rows[k] = story[k]
  /\ \A k \in L : rows[k].seen = now
  /\ \A k \in L \intersect stored :
       /\ rows[k].first = story[k].first
       /\ rows[k].body \in {story[k].body, BodyOf(job)}
       /\ IF Content(rows[k]) = Content(story[k])
          THEN rows[k].changed = StoryTime(story[k])
          ELSE rows[k].changed = ChangeTime
  /\ \A k \in L \ stored :
       /\ rows[k].first = now /\ rows[k].changed = ChangeTime
       /\ rows[k].body \in {NoBody, BodyOf(job)}

LEMMA RowsOf ==
  ASSUME TypeOK, StoriesBehindFeed,
         NEW L \in SUBSET Keys, NEW text, \A k \in L : text[k] \in Texts,
         NEW got \in SUBSET L
  PROVE  RowsKnown(Rows(L, text, got), L)
<1> DEFINE rows == Rows(L, text, got)
           body(k) == IF k \in got THEN BodyOf(job) ELSE NoBody
<1>1. \A k \in Keys : rows[k] = IF k \in L THEN Upserted(k, text[k], body(k))
                                ELSE story[k]
  BY DEF Rows
<1>2. \A k \in Keys : body(k) \in Body /\ body(k) \in {NoBody, BodyOf(job)}
  BY BodyTypes
<1>3. \A k \in Keys : story[k] \in Story /\ Dates[k] \in Nat
  BY OutputAssumption DEF TypeOK
<1>4. ASSUME NEW k \in L \intersect stored
      PROVE  /\ rows[k].first = story[k].first /\ rows[k].seen = now
             /\ rows[k].body \in {story[k].body, BodyOf(job)}
             /\ IF Content(rows[k]) = Content(story[k])
                THEN rows[k].changed = StoryTime(story[k])
                ELSE rows[k].changed = ChangeTime
             /\ rows[k] \in Story
  <2> DEFINE b == MergedBody(story[k].body, body(k))
             t == MergedTime(story[k], text[k], body(k))
  <2>1. k \in Keys /\ story[k] \in Story /\ text[k] \in Texts
    BY <1>3
  <2>2. rows[k] = [text |-> text[k], body |-> b,
                   published |-> story[k].published,
                   first |-> story[k].first, seen |-> now, changed |-> t]
    BY <1>1, <2>1 DEF Upserted
  <2>3. b \in Body /\ b \in {story[k].body, BodyOf(job)}
    BY <1>2, <2>1 DEF MergedBody, Story
  <2>4. Content(rows[k]) = Content(story[k])
          <=> text[k] = story[k].text /\ b = story[k].body
    <3> HIDE DEF b, t, rows
    <3> QED  BY <2>2 DEF Content
  <2>5. t = IF Content(rows[k]) = Content(story[k])
            THEN StoryTime(story[k]) ELSE ChangeTime
    <3>1. t = IF story[k].text # text[k] \/ story[k].body # b
              THEN ChangeTime ELSE StoryTime(story[k])
      BY DEF MergedTime
    <3> HIDE DEF b, t, rows
    <3> QED  BY <2>4, <3>1
  <2>6. t \in Nat
    <3> HIDE DEF b, t, rows
    <3> QED  BY <2>1, <2>5, StoryTimeType, ChangeTimeLater
  <2>7. rows[k] \in Story
    <3> HIDE DEF b, t, rows
    <3> QED  BY <2>1, <2>2, <2>3, <2>6, ChangeTimeLater DEF Story
  <2> HIDE DEF b, t, rows
  <2> QED  BY <2>2, <2>3, <2>5, <2>7
<1>5. ASSUME NEW k \in L \ stored
      PROVE  /\ rows[k].first = now /\ rows[k].seen = now
             /\ rows[k].changed = ChangeTime /\ rows[k].body = body(k)
             /\ rows[k] \in Story
  <2>1. rows[k] = [text |-> text[k], body |-> body(k),
                   published |-> IF Dates[k] = 0 THEN now ELSE Dates[k],
                   first |-> now, seen |-> now, changed |-> ChangeTime]
    BY <1>1 DEF Upserted
  <2>2. k \in Keys /\ text[k] \in Texts /\ Dates[k] \in Nat /\ body(k) \in Body
    BY <1>2, <1>3
  <2> HIDE DEF rows, body
  <2> QED  BY <2>1, <2>2, ChangeTimeLater DEF Story
<1>6. \A k \in Keys \ L : rows[k] = story[k]
  BY <1>1
<1>7. \A k \in Keys : rows[k] \in Story
  <2> TAKE k \in Keys
  <2> HIDE DEF rows, body
  <2> QED  BY <1>3, <1>4, <1>5, <1>6
<1>8. rows \in [Keys -> Story]
  <2>1. rows = [k \in Keys |-> rows[k]]
    BY DEF Rows
  <2> HIDE DEF rows
  <2> QED  BY <1>7, <2>1
<1>9. \A k \in L : rows[k].seen = now
  <2> TAKE k \in L
  <2> HIDE DEF rows, body
  <2> QED  BY <1>4, <1>5
<1>10. \A k \in L \intersect stored :
         /\ rows[k].first = story[k].first
         /\ rows[k].body \in {story[k].body, BodyOf(job)}
         /\ IF Content(rows[k]) = Content(story[k])
            THEN rows[k].changed = StoryTime(story[k])
            ELSE rows[k].changed = ChangeTime
  <2> TAKE k \in L \intersect stored
  <2> HIDE DEF rows, body
  <2> QED  BY <1>4
<1>11. \A k \in L \ stored :
         /\ rows[k].first = now /\ rows[k].changed = ChangeTime
         /\ rows[k].body \in {NoBody, BodyOf(job)}
  <2> TAKE k \in L \ stored
  <2>1. body(k) \in {NoBody, BodyOf(job)}
    OBVIOUS
  <2> HIDE DEF rows, body
  <2> QED  BY <1>5, <2>1
<1> QED
  <2> HIDE DEF rows
  <2>1. RowsKnown(rows, L)
    BY <1>6, <1>8, <1>9, <1>10, <1>11 DEF RowsKnown
  <2> QED  BY <2>1 DEF rows

\* Of the stories a merge stores, it touches the new ones and those whose
\* content it changes.
LEMMA TouchedAre ==
  ASSUME TypeOK, StoriesBehindFeed,
         NEW L \in SUBSET Keys, NEW text, \A k \in L : text[k] \in Texts,
         NEW got \in SUBSET L
  PROVE  /\ L \ stored \subseteq Inserted(L, text, got)
         /\ Inserted(L, text, got) \subseteq Touched(L, text, got)
         /\ Touched(L, text, got) \subseteq L
         /\ \A k \in L \intersect stored :
              /\ k \in Touched(L, text, got)
                   <=> Content(Rows(L, text, got)[k]) # Content(story[k])
              /\ k \in Inserted(L, text, got) => story[k].first = now
<1> DEFINE rows == Rows(L, text, got)
<1>1. RowsKnown(rows, L)
  BY RowsOf
<1>2. ASSUME NEW k \in stored
      PROVE  StoryTime(story[k]) # ChangeTime
  <2>1. StoryTime(story[k]) <= feed.changed
    BY DEF StoriesBehindFeed
  <2>2. story[k] \in Story
    BY DEF TypeOK
  <2>3. StoryTime(story[k]) \in Nat
    BY <2>2, StoryTimeType
  <2> QED  BY <2>1, <2>3, ChangeTimeLater
<1>3. Touched(L, text, got) = {k \in L : rows[k].changed = ChangeTime}
  BY DEF Touched
<1>4. Inserted(L, text, got) = {k \in Touched(L, text, got) : rows[k].first = now}
  BY DEF Inserted
<1> HIDE DEF rows
<1>5. L \ stored \subseteq Inserted(L, text, got)
  BY <1>1, <1>3, <1>4 DEF RowsKnown
<1>6. ASSUME NEW k \in L \intersect stored
      PROVE  /\ k \in Touched(L, text, got)
                   <=> Content(rows[k]) # Content(story[k])
             /\ k \in Inserted(L, text, got) => story[k].first = now
  BY <1>1, <1>2, <1>3, <1>4 DEF RowsKnown
<1> QED  BY <1>3, <1>4, <1>5, <1>6 DEF rows

\* What a merge keeps, and of whom retention made room.
LEMMA KeptAre ==
  ASSUME Inv,
         NEW L \in SUBSET Keys, NEW text, \A k \in L : text[k] \in Texts,
         NEW got \in SUBSET L
  PROVE  /\ Kept(L, text, got) \subseteq stored \union L
         /\ Cardinality(Kept(L, text, got)) <= limit
         /\ Kept(L, text, got) \subseteq stored
              => \A k \in stored \ Kept(L, text, got) : story[k].first < now
<1> DEFINE rows == Rows(L, text, got)
           kept == Kept(L, text, got)
           all == stored \union L
<1>1. TypeOK /\ StoriesBehindFeed /\ Room /\ stored \subseteq Keys
  BY DEF Inv, TypeOK
<1>2. rows \in [Keys -> Story]
  BY <1>1, RowsOf DEF RowsKnown
<1>3. limit \in Nat \ {0} /\ all \in SUBSET Keys
  BY <1>1, OutputAssumption DEF TypeOK
<1>4. kept = Retained(all, rows)
  BY DEF Kept
<1>5. kept \subseteq all
  BY <1>4 DEF Retained
<1> HIDE DEF rows, kept, all
<1>6. IsFiniteSet(kept) /\ Cardinality(kept) <= limit
  BY <1>2, <1>3, <1>4, RetainedBound
<1>7. ASSUME kept \subseteq stored, NEW k \in stored \ kept
      PROVE  story[k].first < now
  <2>1. Cardinality(kept) >= limit
    <3>1. k \in all /\ k \notin Retained(all, rows)
      BY <1>4, <1>7 DEF all
    <3> QED  BY <1>2, <1>3, <1>4, <3>1, RetainedFull
  <2>2. IsFiniteSet(stored)
    BY <1>1, OutputAssumption, FS_Subset
  <2>3. /\ Cardinality(kept) <= Cardinality(stored)
        /\ Cardinality(kept) = Cardinality(stored) => kept = stored
    BY <1>7, <2>2, FS_Subset
  <2>4. Cardinality(kept) \in Nat /\ Cardinality(stored) \in Nat
    BY <1>6, <2>2, FS_CardinalityType
  <2>5. ~(Cardinality(stored) <= limit)
    BY <1>3, <1>7, <2>1, <2>3, <2>4
  <2> QED  BY <1>1, <2>5 DEF Room
<1> QED  BY <1>5, <1>6, <1>7 DEF kept, all

\* last_new moves exactly when a story that was not stored now is.
LEMMA NewTimeIs ==
  ASSUME Inv,
         NEW L \in SUBSET Keys, NEW text, \A k \in L : text[k] \in Texts,
         NEW got \in SUBSET L
  PROVE  NewTime(Inserted(L, text, got), Kept(L, text, got)) =
           IF Kept(L, text, got) \subseteq stored THEN feed.new ELSE now
<1> DEFINE ins == Inserted(L, text, got)
           kept == Kept(L, text, got)
<1>1. TypeOK /\ StoriesBehindFeed
  BY DEF Inv
<1>2. /\ L \ stored \subseteq ins /\ ins \subseteq L
      /\ \A k \in L \intersect stored : k \in ins => story[k].first = now
  BY <1>1, TouchedAre
<1>3. kept \subseteq stored \union L
  BY KeptAre
<1>4. feed.new <= now /\ feed.new \in Nat /\ now \in Nat
  BY <1>1, OutputAssumption DEF TypeOK, Feed
<1> HIDE DEF ins, kept
<1>5. CASE kept \subseteq stored
  <2>1. ASSUME NEW k \in ins \intersect kept
        PROVE  feed.new = now
    <3>1. k \in L \intersect stored /\ story[k].first = now
      BY <1>2, <1>5
    <3>2. story[k].first <= feed.new
      BY <3>1 DEF Inv, StoryTimes
    <3> QED  BY <1>4, <3>1, <3>2
  <2> QED  BY <1>5, <2>1 DEF NewTime, ins, kept
<1>6. CASE ~(kept \subseteq stored)
  BY <1>2, <1>3, <1>6 DEF NewTime, ins, kept
<1> QED  BY <1>5, <1>6 DEF kept

\* A merge counts as a change exactly when a story comes, goes or differs.
LEMMA OutputChangedIs ==
  ASSUME Inv, feed.success,
         NEW L \in SUBSET Keys, NEW text, \A k \in L : text[k] \in Texts,
         NEW got \in SUBSET L
  PROVE  OutputChanged(Touched(L, text, got), Inserted(L, text, got),
                       Kept(L, text, got))
           <=> \/ Kept(L, text, got) # stored
               \/ \E k \in stored :
                    Content(Rows(L, text, got)[k]) # Content(story[k])
<1> DEFINE rows == Rows(L, text, got)
           ins == Inserted(L, text, got)
           kept == Kept(L, text, got)
           tou == Touched(L, text, got)
<1>1. TypeOK /\ StoriesBehindFeed /\ feed.changed >= 1 /\ feed.changed \in Nat
  BY DEF Inv, PublishedSince, TypeOK, Feed
<1>2. /\ L \ stored \subseteq ins /\ ins \subseteq tou /\ tou \subseteq L
      /\ \A k \in L \intersect stored :
           /\ k \in tou <=> Content(rows[k]) # Content(story[k])
           /\ k \in ins => story[k].first = now
  BY <1>1, TouchedAre
<1>3. /\ kept \subseteq stored \union L
      /\ kept \subseteq stored => \A k \in stored \ kept : story[k].first < now
  BY KeptAre
<1>4. \A k \in Keys \ L : rows[k] = story[k]
  <2>1. RowsKnown(rows, L)
    BY <1>1, RowsOf
  <2> HIDE DEF rows
  <2> QED  BY <2>1 DEF RowsKnown
<1>5. stored \subseteq Keys /\ now \in Nat
  BY <1>1, OutputAssumption DEF TypeOK
<1>6. OutputChanged(tou, ins, kept)
        <=> \/ (stored \union tou) \ (kept \union ins) # {}
            \/ tou \intersect kept # {}
  BY <1>1 DEF OutputChanged
<1> HIDE DEF rows, ins, kept, tou
<1>7. ASSUME kept # stored
      PROVE  OutputChanged(tou, ins, kept)
  <2>1. CASE kept \subseteq stored
    <3>1. PICK k \in stored : k \notin kept
      BY <1>7, <2>1
    <3>2. story[k].first < now
      BY <1>3, <2>1, <3>1
    <3>3. story[k].first # now
      BY <1>1, <1>5, <3>1, <3>2 DEF TypeOK, Story
    <3>4. k \notin ins
      BY <1>2, <3>1, <3>3
    <3> QED  BY <1>6, <3>1, <3>4
  <2>2. CASE ~(kept \subseteq stored)
    BY <1>2, <1>3, <1>6, <2>2
  <2> QED  BY <2>1, <2>2
<1>8. ASSUME kept = stored, NEW k \in stored, Content(rows[k]) # Content(story[k])
      PROVE  OutputChanged(tou, ins, kept)
  <2>1. k \in L
    BY <1>4, <1>5, <1>8
  <2>2. k \in tou
    BY <1>2, <1>8, <2>1
  <2> QED  BY <1>6, <1>8, <2>2
<1>9. ASSUME kept = stored, \A k \in stored : Content(rows[k]) = Content(story[k])
      PROVE  ~OutputChanged(tou, ins, kept)
  <2>1. tou \intersect stored = {}
    BY <1>2, <1>9
  <2>2. tou \subseteq ins
    BY <1>2, <2>1
  <2> QED  BY <1>6, <1>9, <2>1, <2>2
<1> QED
  <2>1. OutputChanged(tou, ins, kept)
          <=> \/ kept # stored
              \/ \E k \in stored : Content(rows[k]) # Content(story[k])
    BY <1>7, <1>8, <1>9
  <2> QED  BY <2>1 DEF rows, ins, kept, tou

----------------------------------------------------------------------------
(* What a step publishes. *)

\* A published document changes under a later time, and only then.
Publishes ==
  feed.success =>
    /\ feed'.success
    /\ IF Document' = Document THEN feed'.changed = feed.changed
                               ELSE feed'.changed > feed.changed

\* The time of a story that stays moves with its content.
EntriesMove ==
  \A k \in stored \intersect stored' :
    IF Content(story'[k]) = Content(story[k])
    THEN StoryTime(story'[k]) = StoryTime(story[k])
    ELSE StoryTime(story'[k]) > feed.changed

\* last_new moves with the stories that come.
NewMoves ==
  IF stored' \subseteq stored THEN feed'.new = feed.new ELSE feed'.new = now

\* Two documents are the same when they have the title, the stories and their
\* content in common.
LEMMA SameDocument ==
  Document' = Document <=> /\ feed'.title = feed.title
                           /\ stored' = stored
                           /\ \A k \in stored :
                                Content(story'[k]) = Content(story[k])
<1> DEFINE d == [k \in stored |-> Content(story[k])]
           e == [k \in stored' |-> Content(story'[k])]
<1>1. Document = [title |-> feed.title, stories |-> d]
  BY DEF Document
<1>2. Document' = [title |-> feed'.title, stories |-> e]
  BY DEF Document, Content
<1>3. Document' = Document <=> feed'.title = feed.title /\ e = d
  <2> HIDE DEF d, e
  <2> QED  BY <1>1, <1>2
<1>4. e = d <=> /\ stored' = stored
                /\ \A k \in stored : Content(story'[k]) = Content(story[k])
  <2>1. ASSUME e = d
        PROVE  /\ stored' = stored
               /\ \A k \in stored : Content(story'[k]) = Content(story[k])
    <3>1. DOMAIN e = stored' /\ DOMAIN d = stored
      OBVIOUS
    <3>2. stored' = stored
      <4> HIDE DEF e, d
      <4> QED  BY <2>1, <3>1
    <3>3. ASSUME NEW k \in stored
          PROVE  Content(story'[k]) = Content(story[k])
      <4>1. e[k] = Content(story'[k]) /\ d[k] = Content(story[k])
        BY <3>2
      <4> HIDE DEF e, d
      <4> QED  BY <2>1, <4>1
    <3> QED  BY <3>2, <3>3
  <2>2. ASSUME stored' = stored,
               \A k \in stored : Content(story'[k]) = Content(story[k])
        PROVE  e = d
    BY <2>2
  <2> QED  BY <2>1, <2>2
<1> QED  BY <1>3, <1>4

\* The row a merge leaves.
LEMMA MergedFeed ==
  ASSUME Inv,
         NEW L \in SUBSET Keys, NEW text, \A k \in L : text[k] \in Texts,
         NEW got \in SUBSET L, MergeItems(L, text, got)
  PROVE  /\ feed' \in Feed
         /\ feed'.title = feed.title /\ feed'.article = feed.article
         /\ feed'.rules = feed.rules /\ feed'.keep = feed.keep
         /\ feed'.version = feed.version
         /\ feed'.success /\ feed'.validator
         /\ feed'.new = IF stored' \subseteq stored THEN feed.new ELSE now
         /\ feed'.changed = IF OutputChanged(Touched(L, text, got),
                                             Inserted(L, text, got),
                                             Kept(L, text, got))
                            THEN ChangeTime ELSE feed.changed
         /\ feed'.changed >= 1 /\ feed'.changed >= feed.changed
<1> DEFINE changed == IF OutputChanged(Touched(L, text, got),
                                       Inserted(L, text, got),
                                       Kept(L, text, got))
                      THEN ChangeTime ELSE feed.changed
           new == NewTime(Inserted(L, text, got), Kept(L, text, got))
<1>1. /\ feed' = [feed EXCEPT !.success = TRUE, !.validator = TRUE,
                              !.new = new, !.changed = changed]
      /\ stored' = Kept(L, text, got)
  BY MergeItemsAs
<1>2. new = IF stored' \subseteq stored THEN feed.new ELSE now
  BY <1>1, NewTimeIs
<1>3. TypeOK
  BY DEF Inv
<1>4. feed \in Feed /\ now \in Nat /\ now >= 1 /\ feed.changed \in Nat
      /\ feed.new \in Nat /\ ChangeTime \in Nat /\ ChangeTime > feed.changed
  BY <1>3, ChangeTimeLater DEF TypeOK, Feed
<1>5. changed \in Nat /\ changed >= 1 /\ changed >= feed.changed
  <2>1. CASE OutputChanged(Touched(L, text, got), Inserted(L, text, got),
                           Kept(L, text, got))
    BY <1>4, <2>1
  <2>2. CASE ~OutputChanged(Touched(L, text, got), Inserted(L, text, got),
                            Kept(L, text, got))
    <3>1. feed.changed # 0
      BY <2>2 DEF OutputChanged
    <3> QED  BY <1>4, <2>2, <3>1
  <2> QED  BY <2>1, <2>2
<1>6. new \in Nat
  BY <1>2, <1>4
<1> QED
  <2>1. changed = IF OutputChanged(Touched(L, text, got),
                                   Inserted(L, text, got),
                                   Kept(L, text, got))
                  THEN ChangeTime ELSE feed.changed
    OBVIOUS
  <2> HIDE DEF changed, new
  <2> QED  BY <1>1, <1>2, <1>4, <1>5, <1>6, <2>1 DEF Feed

\* The stories a merge leaves.
LEMMA MergedStories ==
  ASSUME Inv,
         NEW L \in SUBSET Keys, NEW text, \A k \in L : text[k] \in Texts,
         NEW got \in SUBSET L, MergeItems(L, text, got)
  PROVE  /\ stored' = Kept(L, text, got)
         /\ stored' \subseteq stored \union L /\ stored' \subseteq Keys
         /\ Cardinality(stored') <= limit
         /\ story' \in [Keys -> Story]
         /\ \A k \in Keys \ stored' : story'[k] = NoStory
         /\ \A k \in stored' : story'[k] = Rows(L, text, got)[k]
<1> DEFINE rows == Rows(L, text, got)
           kept == Kept(L, text, got)
<1>1. TypeOK /\ StoriesBehindFeed
  BY DEF Inv
<1>2. stored' = kept
      /\ story' = [k \in Keys |-> IF k \in kept THEN rows[k] ELSE NoStory]
  BY DEF MergeItems, Rows, Kept
<1>3. kept \subseteq stored \union L /\ Cardinality(kept) <= limit
  BY KeptAre
<1>4. rows \in [Keys -> Story]
  BY <1>1, RowsOf DEF RowsKnown
<1>5. NoStory \in Story /\ stored \subseteq Keys
  BY <1>1, BodyTypes DEF TypeOK
<1> HIDE DEF rows, kept
<1> QED
  <2>1. kept \subseteq Keys
    BY <1>3, <1>5
  <2>2. /\ story' \in [Keys -> Story]
        /\ \A k \in Keys \ kept : story'[k] = NoStory
        /\ \A k \in kept : story'[k] = rows[k]
    BY <1>2, <1>4, <1>5, <2>1
  <2> QED  BY <1>2, <1>3, <2>1, <2>2 DEF rows, kept

\* A merge publishes what it changes, and nothing else.
LEMMA MergePublishes ==
  ASSUME Inv,
         NEW L \in SUBSET Keys, NEW text, \A k \in L : text[k] \in Texts,
         NEW got \in SUBSET L, MergeItems(L, text, got)
  PROVE  Publishes /\ NewMoves
<1> DEFINE rows == Rows(L, text, got)
<1>1. /\ feed'.title = feed.title /\ feed'.success
      /\ feed'.new = IF stored' \subseteq stored THEN feed.new ELSE now
      /\ feed'.changed = IF OutputChanged(Touched(L, text, got),
                                          Inserted(L, text, got),
                                          Kept(L, text, got))
                         THEN ChangeTime ELSE feed.changed
  BY MergedFeed
<1>2. /\ stored' = Kept(L, text, got)
      /\ \A k \in stored' : story'[k] = rows[k]
  BY MergedStories
<1>3. NewMoves
  BY <1>1 DEF NewMoves
<1>4. ASSUME feed.success
      PROVE  IF Document' = Document THEN feed'.changed = feed.changed
                                     ELSE feed'.changed > feed.changed
  <2>1. OutputChanged(Touched(L, text, got), Inserted(L, text, got),
                      Kept(L, text, got))
          <=> \/ stored' # stored
              \/ \E k \in stored : Content(rows[k]) # Content(story[k])
    BY <1>2, <1>4, OutputChangedIs
  <2>2. Document' = Document
          <=> /\ stored' = stored
              /\ \A k \in stored : Content(story'[k]) = Content(story[k])
    BY <1>1, SameDocument
  <2>3. Document' = Document
          <=> ~OutputChanged(Touched(L, text, got), Inserted(L, text, got),
                             Kept(L, text, got))
    <3> HIDE DEF rows
    <3> QED  BY <1>2, <2>1, <2>2
  <2>4. ChangeTime > feed.changed
    BY ChangeTimeLater DEF Inv
  <2> QED  BY <1>1, <2>3, <2>4
<1> QED  BY <1>1, <1>3, <1>4 DEF Publishes

\* A story that a merge leaves has a time of its content.
LEMMA MergeEntries ==
  ASSUME Inv,
         NEW L \in SUBSET Keys, NEW text, \A k \in L : text[k] \in Texts,
         NEW got \in SUBSET L, MergeItems(L, text, got)
  PROVE  /\ EntriesMove
         /\ \A k \in stored' \ stored : StoryTime(story'[k]) = ChangeTime
         /\ \A k \in stored \intersect stored' :
              StoryTime(story'[k]) \in {StoryTime(story[k]), ChangeTime}
<1> DEFINE rows == Rows(L, text, got)
<1>1. TypeOK /\ StoriesBehindFeed /\ StoryTimes /\ stored \subseteq Keys
  BY DEF Inv, TypeOK
<1>2. RowsKnown(rows, L)
  BY <1>1, RowsOf
<1>3. /\ stored' \subseteq stored \union L
      /\ \A k \in stored' : story'[k] = rows[k]
  BY MergedStories
<1>4. ChangeTime \in Nat /\ ChangeTime > feed.changed /\ feed.changed \in Nat
  BY <1>1, ChangeTimeLater
<1> HIDE DEF rows
<1>5. ASSUME NEW k \in stored' \ stored
      PROVE  StoryTime(story'[k]) = ChangeTime
  <2>1. story'[k] = rows[k] /\ rows[k].changed = ChangeTime
    BY <1>2, <1>3 DEF RowsKnown
  <2> QED  BY <1>4, <2>1 DEF StoryTime
<1>6. ASSUME NEW k \in stored \intersect stored'
      PROVE  /\ IF Content(story'[k]) = Content(story[k])
                THEN StoryTime(story'[k]) = StoryTime(story[k])
                ELSE StoryTime(story'[k]) = ChangeTime
             /\ StoryTime(story'[k]) \in {StoryTime(story[k]), ChangeTime}
  <2>1. story'[k] = rows[k] /\ k \in Keys
    BY <1>1, <1>3
  <2>2. CASE k \notin L
    <3>1. rows[k] = story[k]
      BY <1>2, <2>1, <2>2 DEF RowsKnown
    <3> QED  BY <2>1, <3>1
  <2>3. CASE k \in L
    <3>1. StoryTime(story[k]) \in Nat \ {0}
      BY <1>1 DEF StoryTime, StoryTimes, TypeOK, Story
    <3>2. IF Content(rows[k]) = Content(story[k])
          THEN rows[k].changed = StoryTime(story[k])
          ELSE rows[k].changed = ChangeTime
      BY <1>2, <2>3 DEF RowsKnown
    <3>3. rows[k].changed \in Nat \ {0}
      BY <1>4, <3>1, <3>2
    <3>4. StoryTime(story'[k]) = rows[k].changed
      BY <2>1, <3>3 DEF StoryTime
    <3> QED  BY <2>1, <3>2, <3>4
  <2> QED  BY <2>2, <2>3
<1> QED  BY <1>4, <1>5, <1>6 DEF EntriesMove

----------------------------------------------------------------------------
(* The merge preserves the invariant. *)

\* A body a merge leaves is the one that was stored, or the one it fetched.
LEMMA MergedBodies ==
  ASSUME Inv,
         NEW L \in SUBSET Keys, NEW text, \A k \in L : text[k] \in Texts,
         NEW got \in SUBSET L, MergeItems(L, text, got)
  PROVE  \A k \in stored' :
           \/ story'[k].body \in {NoBody, BodyOf(job)}
           \/ k \in stored /\ story'[k].body = story[k].body
<1> DEFINE rows == Rows(L, text, got)
<1>1. TypeOK /\ StoriesBehindFeed /\ stored \subseteq Keys
  BY DEF Inv, TypeOK
<1>2. RowsKnown(rows, L)
  BY <1>1, RowsOf
<1>3. /\ stored' \subseteq stored \union L
      /\ \A k \in stored' : story'[k] = rows[k]
  BY MergedStories
<1> HIDE DEF rows
<1> SUFFICES ASSUME NEW k \in stored'
             PROVE  \/ story'[k].body \in {NoBody, BodyOf(job)}
                    \/ k \in stored /\ story'[k].body = story[k].body
  OBVIOUS
<1>4. CASE k \notin L
  <2>1. rows[k] = story[k] /\ k \in stored
    BY <1>1, <1>2, <1>3, <1>4 DEF RowsKnown
  <2> QED  BY <1>3, <2>1
<1>5. CASE k \in L \intersect stored
  BY <1>2, <1>3, <1>5 DEF RowsKnown
<1>6. CASE k \in L \ stored
  BY <1>2, <1>3, <1>6 DEF RowsKnown
<1> QED  BY <1>4, <1>5, <1>6

\* What a merge leaves of the times of a story.
LEMMA MergedTimes ==
  ASSUME Inv,
         NEW L \in SUBSET Keys, NEW text, \A k \in L : text[k] \in Texts,
         NEW got \in SUBSET L, MergeItems(L, text, got)
  PROVE  /\ \A k \in stored' :
              /\ story'[k].first <= feed'.new
              /\ story'[k].seen \in 1..now
         /\ \A k \in stored' \intersect L : story'[k].seen = now
         /\ \A k \in stored' \ L : k \in stored /\ story'[k] = story[k]
<1> DEFINE rows == Rows(L, text, got)
<1>1. /\ TypeOK /\ StoriesBehindFeed /\ StoryTimes /\ stored \subseteq Keys
      /\ feed.new <= now
  BY DEF Inv, TypeOK
<1>2. RowsKnown(rows, L)
  BY <1>1, RowsOf
<1>3. /\ stored' \subseteq stored \union L
      /\ \A k \in stored' : story'[k] = rows[k]
  BY MergedStories
<1>4. feed'.new = IF stored' \subseteq stored THEN feed.new ELSE now
  BY MergedFeed
<1>5. now \in Nat /\ now >= 1 /\ feed.new \in Nat /\ feed.new <= now
  BY <1>1, OutputAssumption DEF TypeOK, Feed
<1> HIDE DEF rows
<1>6. \A k \in stored' \intersect L : story'[k].seen = now
  BY <1>2, <1>3 DEF RowsKnown
<1>7. \A k \in stored' \ L : k \in stored /\ story'[k] = story[k]
  BY <1>1, <1>2, <1>3 DEF RowsKnown
<1>8. ASSUME NEW k \in stored'
      PROVE  story'[k].first <= feed'.new /\ story'[k].seen \in 1..now
  <2>1. CASE k \in stored
    <3>1. /\ story[k].first <= feed.new /\ story[k].seen \in 1..now
          /\ story[k].first \in Nat
      BY <1>1, <2>1 DEF StoryTimes, TypeOK, Story
    <3>2. story'[k].first = story[k].first
      <4>1. CASE k \in L
        BY <1>2, <1>3, <2>1, <4>1 DEF RowsKnown
      <4>2. CASE k \notin L
        BY <1>7, <4>2
      <4> QED  BY <4>1, <4>2
    <3>3. feed'.new \in Nat /\ feed.new <= feed'.new
      BY <1>4, <1>5
    <3>4. story'[k].seen \in 1..now
      BY <1>5, <1>6, <1>7, <3>1
    <3> QED  BY <1>5, <3>1, <3>2, <3>3, <3>4
  <2>2. CASE k \notin stored
    <3>1. k \in L /\ story'[k].first = now
      BY <1>2, <1>3, <2>2 DEF RowsKnown
    <3>2. feed'.new = now
      BY <1>4, <2>2
    <3> QED  BY <1>5, <1>6, <3>1, <3>2
  <2> QED  BY <2>1, <2>2
<1> QED  BY <1>6, <1>7, <1>8

\* What every merge preserves.
LEMMA MergeInv ==
  ASSUME Inv, Current,
         NEW L \in SUBSET Keys, NEW text, \A k \in L : text[k] \in Texts,
         NEW got \in SUBSET L, MergeItems(L, text, got),
         lastRead' \in {"none", "empty", "some"},
         listed'.keys \subseteq Keys, listed'.at \in 1..now,
         spared' = spared \intersect stored', job' = NoJob,
         UNCHANGED <<now, limit>>
  PROVE  /\ TypeOK' /\ StoriesBehindFeed' /\ BodiesMatchSelector'
         /\ CleanedBodies' /\ JobCurrent' /\ StoryTimes' /\ BodiesRead'
         /\ PublishedSince' /\ Room'
<1>1. /\ TypeOK /\ StoriesBehindFeed /\ BodiesMatchSelector /\ CleanedBodies
      /\ BodiesRead
  BY DEF Inv
<1>2. /\ feed' \in Feed
      /\ feed'.title = feed.title /\ feed'.article = feed.article
      /\ feed'.rules = feed.rules /\ feed'.version = feed.version
      /\ feed'.new = IF stored' \subseteq stored THEN feed.new ELSE now
      /\ feed'.changed = IF OutputChanged(Touched(L, text, got),
                                          Inserted(L, text, got),
                                          Kept(L, text, got))
                         THEN ChangeTime ELSE feed.changed
      /\ feed'.changed >= 1 /\ feed'.changed >= feed.changed
  BY MergedFeed
<1>3. /\ stored' = Kept(L, text, got)
      /\ stored' \subseteq stored \union L /\ stored' \subseteq Keys
      /\ Cardinality(stored') <= limit
      /\ story' \in [Keys -> Story]
      /\ \A k \in Keys \ stored' : story'[k] = NoStory
  BY MergedStories
<1>4. NoJob \in Job
  BY OutputAssumption, BodyTypes, <1>1 DEF NoJob, Job, Body, Articles
<1>5. TypeOK'
  <2>1. now' \in 1..MaxTime /\ limit' \in Limits
    BY <1>1 DEF TypeOK
  <2>2. feed'.new <= now'
    BY <1>1, <1>2, OutputAssumption DEF TypeOK
  <2>3. \E n \in Limits : Cardinality(stored') <= n
    BY <1>3, <2>1
  <2>4. listed'.at \in 1..now'
    OBVIOUS
  <2>5. \A k \in Keys \ stored' : story'[k] = NoStory
    BY <1>3
  <2> QED  BY <1>2, <1>3, <1>4, <2>1, <2>2, <2>3, <2>4, <2>5
           DEF TypeOK, NoStory, NoBody
<1>6. StoriesBehindFeed'
  <2>1. ASSUME NEW k \in stored'
        PROVE  StoryTime(story'[k]) <= feed'.changed
    <3>1. /\ k \notin stored => StoryTime(story'[k]) = ChangeTime
          /\ k \in stored
               => StoryTime(story'[k]) \in {StoryTime(story[k]), ChangeTime}
          /\ k \in stored
               => IF Content(story'[k]) = Content(story[k])
                  THEN StoryTime(story'[k]) = StoryTime(story[k])
                  ELSE StoryTime(story'[k]) > feed.changed
      BY MergeEntries DEF EntriesMove
    <3>2. ChangeTime \in Nat /\ feed.changed \in Nat /\ feed'.changed \in Nat
          /\ ChangeTime > feed.changed
      BY <1>1, <1>2, ChangeTimeLater DEF Feed
    <3>3. CASE StoryTime(story'[k]) = ChangeTime
      <4>1. k \in Touched(L, text, got)
        <5>1. story'[k] = Rows(L, text, got)[k]
          BY MergedStories
        <5>2. CASE k \notin stored
          <6>1. k \in L \ stored
            BY <1>3, <5>2
          <6> QED  BY <1>1, <6>1, TouchedAre
        <5>3. CASE k \in stored
          <6>1. StoryTime(story[k]) <= feed.changed /\ StoryTime(story[k]) \in Nat
            <7>1. story[k] \in Story
              BY <1>1, <5>3 DEF TypeOK
            <7> QED  BY <1>1, <5>3, <7>1, StoryTimeType DEF StoriesBehindFeed
          <6>2. StoryTime(story'[k]) # StoryTime(story[k])
            BY <3>2, <3>3, <6>1
          <6>3. Content(story'[k]) # Content(story[k])
            BY <3>1, <5>3, <6>2
          <6>4. k \in L
            <7>1. k \notin L => story'[k] = story[k]
              BY MergedTimes
            <7> QED  BY <6>3, <7>1
          <6> QED  BY <1>1, <5>1, <5>3, <6>3, <6>4, TouchedAre
        <5> QED  BY <5>2, <5>3
      <4>2. OutputChanged(Touched(L, text, got), Inserted(L, text, got),
                          Kept(L, text, got))
        <5>1. k \in Touched(L, text, got) \intersect Kept(L, text, got)
          BY <1>3, <4>1
        <5> QED  BY <5>1 DEF OutputChanged
      <4> QED  BY <1>2, <3>2, <3>3, <4>2
    <3>4. CASE k \in stored /\ StoryTime(story'[k]) = StoryTime(story[k])
      <4>1. StoryTime(story[k]) <= feed.changed /\ story[k] \in Story
        BY <1>1, <3>4 DEF StoriesBehindFeed, TypeOK
      <4>2. StoryTime(story[k]) \in Nat
        BY <4>1, StoryTimeType
      <4> QED  BY <1>2, <3>2, <3>4, <4>1, <4>2
    <3> QED  BY <3>1, <3>3, <3>4
  <2> QED  BY <2>1 DEF StoriesBehindFeed, StoryTime
<1>7. \A k \in stored' :
        \/ story'[k].body \in {NoBody, BodyOf(job)}
        \/ k \in stored /\ story'[k].body = story[k].body
  BY MergedBodies
<1>8. BodyOf(job) # NoBody => /\ BodyOf(job).article = feed.article
                              /\ BodyOf(job).article # "off"
                              /\ BodyOf(job).rules = feed.rules
  BY <1>1, BodyTypes DEF Current, Inv, JobCurrent
<1>9. BodiesMatchSelector'
  BY <1>1, <1>2, <1>7, <1>8 DEF BodiesMatchSelector, NoBody
<1>10. BodiesRead'
  BY <1>1, <1>2, <1>7, <1>8 DEF BodiesRead, NoBody
<1>11. CleanedBodies'
  BY <1>1, <1>2, <1>7, <1>8 DEF CleanedBodies, NoBody
<1>12. JobCurrent'
  <2>1. feed'.version \in Nat
    BY <1>2 DEF Feed
  <2> QED  BY <2>1 DEF JobCurrent, NoJob
<1>13. StoryTimes'
  <2>1. \A k \in stored' : story'[k].first <= feed'.new /\ story'[k].seen \in 1..now
    BY MergedTimes
  <2> QED  BY <2>1 DEF StoryTimes
<1>14. PublishedSince'
  BY <1>2 DEF PublishedSince
<1>15. Room'
  BY <1>3 DEF Room
<1> QED  BY <1>5, <1>6, <1>9, <1>10, <1>11, <1>12, <1>13, <1>14, <1>15

\* What every step does, but one that only moves the clock or the job.
StepOK == Inv' /\ Publishes /\ EntriesMove /\ NewMoves

LEMMA MergeOK ==
  ASSUME Inv, Merge
  PROVE  StepOK
<1>0. PICK L \in SUBSET job.keep :
        \E text \in [L -> Texts], got \in SUBSET L :
          /\ MergeItems(L, text, got)
          /\ lastRead' = IF L = {} THEN "empty" ELSE "some"
          /\ listed' = IF job.article = "off" THEN listed
                       ELSE [keys |-> L, at |-> now]
  BY Zenon DEF Merge
<1>1. PICK text \in [L -> Texts], got \in SUBSET L :
        /\ MergeItems(L, text, got)
        /\ lastRead' = IF L = {} THEN "empty" ELSE "some"
        /\ listed' = IF job.article = "off" THEN listed
                     ELSE [keys |-> L, at |-> now]
  BY <1>0
<1>2. Current /\ spared' = spared \intersect stored' /\ job' = NoJob
      /\ UNCHANGED <<now, limit>>
  BY DEF Merge
<1>3. TypeOK /\ BodiesRead /\ BodiesMatchSelector
  BY DEF Inv
<1>4. L \in SUBSET Keys /\ now \in 1..now
  BY <1>3, OutputAssumption DEF TypeOK, Job
<1>5. \A k \in L : text[k] \in Texts
  OBVIOUS
<1>6. lastRead' \in {"none", "empty", "some"}
  BY <1>1
<1>7. listed'.keys \subseteq Keys /\ listed'.at \in 1..now
  BY <1>1, <1>3, <1>4 DEF TypeOK
<1>8. /\ TypeOK' /\ StoriesBehindFeed' /\ BodiesMatchSelector'
      /\ CleanedBodies' /\ JobCurrent' /\ StoryTimes' /\ BodiesRead'
      /\ PublishedSince' /\ Room'
  BY <1>1, <1>2, <1>4, <1>5, <1>6, <1>7, MergeInv
<1>9. ListedKnown'
  <2>1. CASE job.article = "off"
    <3>1. feed'.article = "off"
      <4>1. feed'.article = feed.article
        BY <1>1, <1>4, <1>5, MergedFeed
      <4>2. feed.article = job.article
        BY <1>2 DEF Inv, JobCurrent, Current
      <4> QED  BY <2>1, <4>1, <4>2
    <3>2. \A k \in stored' : story'[k].body = NoBody'
      BY <1>8, <3>1 DEF BodiesMatchSelector, BodiesRead
    <3>3. WithBody' = {}
      BY <3>2 DEF WithBody
    <3> QED  BY <3>3 DEF ListedKnown
  <2>2. CASE job.article # "off"
    <3>1. listed'.keys = L /\ listed'.at = now
      BY <1>1, <2>2
    <3>2. \A k \in stored' : story'[k].seen \in 1..now
      BY <1>1, <1>4, <1>5, MergedTimes
    <3>3. \A k \in stored' \intersect L : story'[k].seen = now
      BY <1>1, <1>4, <1>5, MergedTimes
    <3>4. \A k \in stored' : story'[k].seen <= listed'.at
      BY <1>3, <3>1, <3>2, OutputAssumption DEF TypeOK
    <3>5. lastRead' = "empty" => listed'.keys = {}
      BY <1>1, <3>1
    <3> QED  BY <3>1, <3>3, <3>4, <3>5 DEF ListedKnown
  <2> QED  BY <2>1, <2>2
<1>10. Publishes /\ NewMoves
  BY <1>1, <1>4, <1>5, MergePublishes
<1>11. EntriesMove
  BY <1>1, <1>4, <1>5, MergeEntries
<1> QED  BY <1>8, <1>9, <1>10, <1>11 DEF StepOK, Inv

LEMMA NotModifiedOK ==
  ASSUME Inv, NotModified
  PROVE  StepOK
<1>1. /\ Current /\ MergeItems({}, <<>>, {})
      /\ spared' = spared \intersect stored' /\ job' = NoJob
      /\ UNCHANGED <<now, limit, lastRead, listed>>
  BY DEF NotModified
<1>2. TypeOK
  BY DEF Inv
<1> DEFINE L == {}
           text == << >>
<1>3. L \in SUBSET Keys /\ {} \in SUBSET L
  OBVIOUS
<1>4. \A k \in L : text[k] \in Texts
  OBVIOUS
<1>5. /\ lastRead' \in {"none", "empty", "some"}
      /\ listed'.keys \subseteq Keys /\ listed'.at \in 1..now
  BY <1>1, <1>2 DEF TypeOK
<1>6. MergeItems(L, text, {})
  BY <1>1
<1> HIDE DEF L, text
<1>7. /\ TypeOK' /\ StoriesBehindFeed' /\ BodiesMatchSelector'
      /\ CleanedBodies' /\ JobCurrent' /\ StoryTimes' /\ BodiesRead'
      /\ PublishedSince' /\ Room'
  BY <1>1, <1>3, <1>4, <1>5, <1>6, MergeInv
<1>8. \A k \in stored' : k \in stored /\ story'[k] = story[k]
  <2>1. \A k \in stored' \ L : k \in stored /\ story'[k] = story[k]
    BY <1>3, <1>4, <1>6, MergedTimes
  <2> QED  BY <2>1 DEF L
<1>9. ListedKnown'
  <2>1. WithBody' \subseteq WithBody
    BY <1>8 DEF WithBody, NoBody
  <2> QED  BY <1>1, <1>8, <2>1 DEF ListedKnown, Inv
<1>10. Publishes /\ NewMoves
  BY <1>3, <1>4, <1>6, MergePublishes
<1>11. EntriesMove
  BY <1>3, <1>4, <1>6, MergeEntries
<1> QED  BY <1>7, <1>9, <1>10, <1>11 DEF StepOK, Inv

----------------------------------------------------------------------------
(* Edits. *)

\* The times of an edit that renames, clears and prunes, in this order.
Titled(title) ==
  IF title # feed.title THEN Bump(feed.changed) ELSE feed.changed
Emptied(title, cleared) ==
  IF cleared # {} THEN Bump(Titled(title)) ELSE Titled(title)
Edited(title, cleared, pruned) ==
  IF pruned # {} THEN Bump(Emptied(title, cleared)) ELSE Emptied(title, cleared)

\* The rows an edit writes.
EditRows(title, article, rules, keep, cleared, pruned) ==
  /\ feed' = [feed EXCEPT
        !.title = title, !.article = article, !.rules = rules,
        !.keep = keep, !.version = @ + 1, !.validator = FALSE,
        !.changed = Edited(title, cleared, pruned)]
  /\ stored' = stored \ pruned
  /\ story' = [k \in Keys |->
                CASE k \in pruned -> NoStory
                  [] k \in cleared \ pruned ->
                       [story[k] EXCEPT !.body = NoBody,
                                        !.changed = Emptied(title, cleared)]
                  [] OTHER -> story[k]]

\* A save and a filter's save write such rows.
LEMMA SaveRows ==
  ASSUME NEW title, NEW article, NEW rules, NEW keep, NEW ask,
         Save(title, article, rules, keep, ask)
  PROVE  /\ EditRows(title, article, rules, keep, Discarded(article, rules),
                     IF ask THEN stored \ keep ELSE {})
         /\ spared' = stored' \intersect
              (IF article # feed.article \/ article = "off" THEN {}
               ELSE IF rules = feed.rules THEN spared
               ELSE stored \ listed.keys)
BY DEF Save, EditRows, Titled, Emptied, Edited

LEMMA EditFilterRows ==
  ASSUME Inv, EditFilter
  PROVE  \E f \in KeepSets : \E pruned \in SUBSET stored :
           EditRows(feed.title, feed.article, feed.rules, f, {}, pruned)
<1>1. PICK f \in KeepSets, ask \in BOOLEAN :
        LET pruned == IF ask THEN stored \ f ELSE {}
        IN /\ feed' = [feed EXCEPT
                 !.keep = f, !.version = @ + 1, !.validator = FALSE,
                 !.changed = IF pruned # {} THEN Bump(@) ELSE @]
           /\ stored' = stored \ pruned
           /\ story' = [k \in Keys |-> IF k \in pruned THEN NoStory ELSE story[k]]
  BY Zenon DEF EditFilter
<1> DEFINE pruned == IF ask THEN stored \ f ELSE {}
<1>2. pruned \in SUBSET stored
  OBVIOUS
<1>3. /\ feed' = [feed EXCEPT
            !.keep = f, !.version = @ + 1, !.validator = FALSE,
            !.changed = IF pruned # {} THEN Bump(@) ELSE @]
      /\ stored' = stored \ pruned
      /\ story' = [k \in Keys |-> IF k \in pruned THEN NoStory ELSE story[k]]
  BY <1>1
<1> HIDE DEF pruned
<1>4. feed \in Feed
  BY DEF Inv, TypeOK
<1>5. EditRows(feed.title, feed.article, feed.rules, f, {}, pruned)
  <2>1. Edited(feed.title, {}, pruned) = IF pruned # {} THEN Bump(feed.changed)
                                                        ELSE feed.changed
    BY DEF Edited, Emptied, Titled
  <2>2. feed' = [feed EXCEPT
           !.title = feed.title, !.article = feed.article, !.rules = feed.rules,
           !.keep = f, !.version = @ + 1, !.validator = FALSE,
           !.changed = Edited(feed.title, {}, pruned)]
    BY <1>3, <1>4, <2>1 DEF Feed
  <2>3. story' = [k \in Keys |->
                CASE k \in pruned -> NoStory
                  [] k \in {} \ pruned ->
                       [story[k] EXCEPT !.body = NoBody,
                                        !.changed = Emptied(feed.title, {})]
                  [] OTHER -> story[k]]
    BY <1>3
  <2> QED  BY <1>3, <2>2, <2>3 DEF EditRows
<1> QED  BY <1>2, <1>5

\* Each change an edit publishes takes a later time.
LEMMA EditTimes ==
  ASSUME TypeOK, NEW title, NEW cleared, NEW pruned
  PROVE  /\ Emptied(title, cleared) \in Nat /\ Edited(title, cleared, pruned) \in Nat
         /\ Emptied(title, cleared) >= feed.changed
         /\ Edited(title, cleared, pruned) >= Emptied(title, cleared)
         /\ cleared # {} => Emptied(title, cleared) > feed.changed
         /\ IF title = feed.title /\ cleared = {} /\ pruned = {}
            THEN Edited(title, cleared, pruned) = feed.changed
            ELSE Edited(title, cleared, pruned) > feed.changed
<1>1. \A c \in Nat : Bump(c) \in Nat /\ Bump(c) > c
  BY OutputAssumption DEF TypeOK, Bump
<1>2. feed.changed \in Nat
  BY DEF TypeOK, Feed
<1>3. /\ Titled(title) \in Nat /\ Titled(title) >= feed.changed
      /\ title # feed.title => Titled(title) > feed.changed
      /\ title = feed.title => Titled(title) = feed.changed
  BY <1>1, <1>2 DEF Titled
<1>4. /\ Emptied(title, cleared) \in Nat /\ Emptied(title, cleared) >= Titled(title)
      /\ cleared # {} => Emptied(title, cleared) > Titled(title)
      /\ cleared = {} => Emptied(title, cleared) = Titled(title)
  BY <1>1, <1>3 DEF Emptied
<1>5. /\ Edited(title, cleared, pruned) \in Nat
      /\ Edited(title, cleared, pruned) >= Emptied(title, cleared)
      /\ pruned # {} => Edited(title, cleared, pruned) > Emptied(title, cleared)
      /\ pruned = {} => Edited(title, cleared, pruned) = Emptied(title, cleared)
  BY <1>1, <1>4 DEF Edited
<1> QED  BY <1>2, <1>3, <1>4, <1>5

\* The row and the stories an edit leaves.
EditKnown(title, article, rules, cleared, pruned) ==
  /\ feed' \in Feed
  /\ feed'.title = title /\ feed'.article = article
  /\ feed'.rules = rules /\ feed'.success = feed.success
  /\ feed'.version = feed.version + 1 /\ feed'.new = feed.new
  /\ feed'.changed = Edited(title, cleared, pruned)
  /\ stored' = stored \ pruned /\ stored' \subseteq Keys
  /\ story' \in [Keys -> Story]
  /\ \A k \in Keys \ stored' : story'[k] = NoStory
  /\ \A k \in stored' \intersect cleared :
       story'[k] = [story[k] EXCEPT !.body = NoBody,
                                    !.changed = Emptied(title, cleared)]
  /\ \A k \in stored' \ cleared : story'[k] = story[k]

LEMMA EditedStories ==
  ASSUME Inv,
         NEW title \in Titles, NEW article \in Articles, NEW rules \in RuleSets,
         NEW keep \in KeepSets, NEW cleared \in SUBSET WithBody,
         NEW pruned \in SUBSET stored,
         EditRows(title, article, rules, keep, cleared, pruned)
  PROVE  EditKnown(title, article, rules, cleared, pruned)
<1>1. TypeOK
  BY DEF Inv
<1>2. feed \in Feed /\ stored \subseteq Keys /\ cleared \subseteq stored
      /\ story \in [Keys -> Story]
      /\ \A k \in Keys \ stored : story[k] = NoStory
  BY <1>1 DEF TypeOK, WithBody
<1>3. Edited(title, cleared, pruned) \in Nat /\ Emptied(title, cleared) \in Nat
  BY <1>1, EditTimes
<1>4. NoBody \in Body /\ NoStory \in Story
  BY <1>1, BodyTypes
<1>5. feed' = [feed EXCEPT
        !.title = title, !.article = article, !.rules = rules,
        !.keep = keep, !.version = @ + 1, !.validator = FALSE,
        !.changed = Edited(title, cleared, pruned)]
  BY DEF EditRows
<1>6. /\ feed' \in Feed
      /\ feed'.title = title /\ feed'.article = article
      /\ feed'.rules = rules /\ feed'.success = feed.success
      /\ feed'.version = feed.version + 1 /\ feed'.new = feed.new
      /\ feed'.changed = Edited(title, cleared, pruned)
  <2>1. feed.version + 1 \in Nat
    BY <1>2 DEF Feed
  <2>2. feed = [title |-> feed.title, article |-> feed.article,
                rules |-> feed.rules, keep |-> feed.keep,
                version |-> feed.version, validator |-> feed.validator,
                changed |-> feed.changed, success |-> feed.success,
                new |-> feed.new]
        /\ feed.success \in BOOLEAN /\ feed.new \in Nat
    BY <1>2 DEF Feed
  <2>3. feed' = [title |-> title, article |-> article, rules |-> rules,
                 keep |-> keep, version |-> feed.version + 1,
                 validator |-> FALSE, changed |-> Edited(title, cleared, pruned),
                 success |-> feed.success, new |-> feed.new]
    BY <1>5, <2>2
  <2> QED  BY <1>3, <2>1, <2>2, <2>3 DEF Feed
<1>7. stored' = stored \ pruned /\ stored' \subseteq Keys
  BY <1>2 DEF EditRows
<1>8. story' = [k \in Keys |->
                 CASE k \in pruned -> NoStory
                   [] k \in cleared \ pruned ->
                        [story[k] EXCEPT !.body = NoBody,
                                         !.changed = Emptied(title, cleared)]
                   [] OTHER -> story[k]]
  BY DEF EditRows
<1>9. ASSUME NEW k \in Keys
      PROVE  /\ k \in pruned => story'[k] = NoStory
             /\ k \in cleared \ pruned
                  => story'[k] = [story[k] EXCEPT !.body = NoBody,
                                           !.changed = Emptied(title, cleared)]
             /\ k \notin pruned /\ k \notin cleared => story'[k] = story[k]
  BY <1>8
<1>10. \A k \in Keys \ stored' : story'[k] = NoStory
  BY <1>2, <1>7, <1>9
<1>11. /\ \A k \in stored' \intersect cleared :
            story'[k] = [story[k] EXCEPT !.body = NoBody,
                                         !.changed = Emptied(title, cleared)]
       /\ \A k \in stored' \ cleared : story'[k] = story[k]
  BY <1>2, <1>7, <1>9
<1>12. story' \in [Keys -> Story]
  <2>1. ASSUME NEW k \in Keys
        PROVE  story'[k] \in Story
    <3>1. story[k] \in Story
      BY <1>2
    <3>2. [story[k] EXCEPT !.body = NoBody, !.changed = Emptied(title, cleared)]
            \in Story
      BY <1>3, <1>4, <3>1 DEF Story
    <3> QED  BY <1>4, <1>9, <3>1, <3>2
  <2>2. story' = [k \in Keys |-> story'[k]]
    BY <1>8
  <2> QED  BY <2>1, <2>2
<1> QED  BY <1>6, <1>7, <1>10, <1>11, <1>12 DEF EditKnown

\* An edit publishes what it renames, clears or prunes, and nothing else.
LEMMA EditPublishes ==
  ASSUME Inv,
         NEW title \in Titles, NEW article \in Articles, NEW rules \in RuleSets,
         NEW keep \in KeepSets, NEW cleared \in SUBSET WithBody,
         NEW pruned \in SUBSET stored,
         EditRows(title, article, rules, keep, cleared, pruned)
  PROVE  /\ Publishes /\ EntriesMove /\ NewMoves
         /\ StoriesBehindFeed'
         /\ now' = now => StoryTimes'
<1>1. TypeOK /\ StoriesBehindFeed /\ StoryTimes /\ stored \subseteq Keys
  BY DEF Inv, TypeOK
<1>2. /\ feed'.title = title /\ feed'.success = feed.success
      /\ feed'.new = feed.new /\ feed'.changed = Edited(title, cleared, pruned)
      /\ stored' = stored \ pruned
      /\ \A k \in stored' \intersect cleared :
           story'[k] = [story[k] EXCEPT !.body = NoBody,
                                        !.changed = Emptied(title, cleared)]
      /\ \A k \in stored' \ cleared : story'[k] = story[k]
  <2>1. EditKnown(title, article, rules, cleared, pruned)
    BY EditedStories
  <2> QED  BY <2>1 DEF EditKnown
<1>3. /\ Emptied(title, cleared) \in Nat /\ Edited(title, cleared, pruned) \in Nat
      /\ Emptied(title, cleared) >= feed.changed
      /\ Edited(title, cleared, pruned) >= Emptied(title, cleared)
      /\ cleared # {} => Emptied(title, cleared) > feed.changed
      /\ IF title = feed.title /\ cleared = {} /\ pruned = {}
         THEN Edited(title, cleared, pruned) = feed.changed
         ELSE Edited(title, cleared, pruned) > feed.changed
      /\ feed.changed \in Nat
  BY <1>1, EditTimes DEF TypeOK, Feed
<1>4. ASSUME NEW k \in stored'
      PROVE  /\ story[k] \in Story /\ StoryTime(story[k]) \in Nat /\ k \in stored
             /\ StoryTime(story[k]) <= feed.changed
             /\ story[k].first <= feed.new /\ story[k].seen \in 1..now
  <2>1. k \in stored /\ k \in Keys
    BY <1>1, <1>2
  <2>2. story[k] \in Story
    BY <1>1, <2>1 DEF TypeOK
  <2> QED  BY <1>1, <2>1, <2>2, StoryTimeType DEF StoriesBehindFeed, StoryTimes
<1>5. ASSUME NEW k \in stored' \intersect cleared
      PROVE  /\ Content(story'[k]) # Content(story[k])
             /\ StoryTime(story'[k]) = Emptied(title, cleared)
             /\ story'[k].first = story[k].first
             /\ story'[k].seen = story[k].seen
             /\ StoryTime(story'[k]) > feed.changed
  <2>1. story[k] \in Story /\ story[k].body # NoBody
    BY <1>4 DEF WithBody
  <2>2. story'[k] = [story[k] EXCEPT !.body = NoBody,
                                     !.changed = Emptied(title, cleared)]
    BY <1>2
  <2>3. /\ story'[k].body = NoBody /\ story'[k].changed = Emptied(title, cleared)
        /\ story'[k].first = story[k].first /\ story'[k].seen = story[k].seen
    BY <2>1, <2>2 DEF Story
  <2>4. Content(story'[k]) # Content(story[k])
    BY <2>1, <2>3 DEF Content
  <2>5. Emptied(title, cleared) > feed.changed
    BY <1>3
  <2>6. Emptied(title, cleared) # 0
    BY <1>3, <2>5
  <2> QED  BY <2>3, <2>4, <2>5, <2>6 DEF StoryTime
<1>6. EntriesMove
  BY <1>2, <1>5 DEF EntriesMove
<1>7. NewMoves
  BY <1>2 DEF NewMoves
<1>8. Publishes
  <2>1. Document' = Document
          <=> /\ title = feed.title /\ stored' = stored
              /\ \A k \in stored : Content(story'[k]) = Content(story[k])
    BY <1>2, SameDocument
  <2>2. stored' = stored <=> pruned = {}
    BY <1>2
  <2>3. stored' = stored
          => (cleared = {}
                <=> \A k \in stored : Content(story'[k]) = Content(story[k]))
    <3>1. cleared \subseteq stored
      BY DEF WithBody
    <3> QED  BY <1>2, <1>5, <3>1
  <2>4. Document' = Document <=> title = feed.title /\ cleared = {} /\ pruned = {}
    BY <2>1, <2>2, <2>3
  <2> QED  BY <1>2, <1>3, <2>4 DEF Publishes
<1>9. StoriesBehindFeed'
  <2>1. ASSUME NEW k \in stored'
        PROVE  StoryTime(story'[k]) <= feed'.changed
    <3>1. CASE k \in cleared
      BY <1>2, <1>3, <1>5, <3>1
    <3>2. CASE k \notin cleared
      <4>1. story'[k] = story[k]
        BY <1>2, <3>2
      <4>2. StoryTime(story'[k]) = StoryTime(story[k])
        BY <4>1
      <4>3. StoryTime(story[k]) \in Nat /\ StoryTime(story[k]) <= feed.changed
        BY <1>4
      <4>4. feed.changed <= feed'.changed /\ feed'.changed \in Nat
        <5>1. feed'.changed = Edited(title, cleared, pruned)
          BY <1>2
        <5> QED  BY <1>3, <5>1
      <4>5. feed.changed \in Nat
        BY <1>3
      <4> QED  BY <4>2, <4>3, <4>4, <4>5
    <3> QED  BY <3>1, <3>2
  <2> QED  BY <2>1 DEF StoriesBehindFeed, StoryTime
<1>10. ASSUME now' = now
       PROVE  StoryTimes'
  <2>1. ASSUME NEW k \in stored'
        PROVE  story'[k].first <= feed'.new /\ story'[k].seen \in 1..now
    <3>1. CASE k \in cleared
      BY <1>2, <1>4, <1>5, <3>1
    <3>2. CASE k \notin cleared
      BY <1>2, <1>4, <3>2
    <3> QED  BY <3>1, <3>2
  <2> QED  BY <1>10, <2>1 DEF StoryTimes
<1> QED  BY <1>6, <1>7, <1>8, <1>9, <1>10

\* What every edit preserves, and the bodies it leaves.
LEMMA EditInv ==
  ASSUME Inv,
         NEW title \in Titles, NEW article \in Articles, NEW rules \in RuleSets,
         NEW keep \in KeepSets, NEW cleared \in SUBSET WithBody,
         NEW pruned \in SUBSET stored,
         EditRows(title, article, rules, keep, cleared, pruned),
         spared' \subseteq stored',
         UNCHANGED <<now, limit, lastRead, listed, job>>
  PROVE  /\ TypeOK' /\ StoriesBehindFeed' /\ JobCurrent' /\ StoryTimes'
         /\ BodiesRead' /\ PublishedSince' /\ ListedKnown' /\ Room'
         /\ \A k \in stored' : story'[k].body # NoBody
              => k \in WithBody \ cleared /\ story'[k].body = story[k].body
<1>1. TypeOK /\ stored \subseteq Keys /\ BodiesRead /\ PublishedSince
      /\ ListedKnown /\ JobCurrent /\ Room
  BY DEF Inv, TypeOK
<1>2. EditKnown(title, article, rules, cleared, pruned)
  BY EditedStories
<1>3. stored' = stored \ pruned /\ stored' \subseteq Keys
  BY <1>2 DEF EditKnown
<1>4. ASSUME NEW k \in stored'
      PROVE  /\ k \in stored /\ story[k] \in Story
             /\ story'[k].seen = story[k].seen
             /\ story'[k].first = story[k].first
             /\ story'[k].body # NoBody
                  => k \in WithBody \ cleared /\ story'[k].body = story[k].body
  <2>1. k \in stored /\ story[k] \in Story
    BY <1>1, <1>3 DEF TypeOK
  <2>2. CASE k \in cleared
    <3>1. story'[k] = [story[k] EXCEPT !.body = NoBody,
                                       !.changed = Emptied(title, cleared)]
      BY <1>2, <2>2 DEF EditKnown
    <3>2. /\ story'[k].seen = story[k].seen /\ story'[k].first = story[k].first
          /\ story'[k].body = NoBody
      BY <2>1, <3>1 DEF Story
    <3> QED  BY <2>1, <3>2
  <2>3. CASE k \notin cleared
    <3>1. story'[k] = story[k]
      BY <1>2, <2>3 DEF EditKnown
    <3> QED  BY <2>1, <2>3, <3>1 DEF WithBody
  <2> QED  BY <2>2, <2>3
<1>5. /\ feed' \in Feed /\ feed'.new = feed.new
      /\ feed'.version = feed.version + 1 /\ feed'.success = feed.success
      /\ feed'.changed = Edited(title, cleared, pruned)
      /\ story' \in [Keys -> Story]
      /\ \A k \in Keys \ stored' : story'[k] = NoStory
  BY <1>2 DEF EditKnown
<1>6. IsFiniteSet(stored) /\ Cardinality(stored') <= Cardinality(stored)
      /\ Cardinality(stored) \in Nat /\ Cardinality(stored') \in Nat
  <2>1. IsFiniteSet(stored)
    BY <1>1, OutputAssumption, FS_Subset
  <2>2. IsFiniteSet(stored') /\ Cardinality(stored') <= Cardinality(stored)
    BY <1>3, <2>1, FS_Subset
  <2> QED  BY <2>1, <2>2, FS_CardinalityType
<1>7. TypeOK'
  <2>1. feed'.new <= now' /\ now' \in 1..MaxTime /\ limit' \in Limits
    BY <1>1, <1>5 DEF TypeOK
  <2>2. \E n \in Limits : Cardinality(stored') <= n
    <3>1. PICK n \in Limits : Cardinality(stored) <= n
      BY <1>1 DEF TypeOK
    <3>2. n \in Nat
      BY OutputAssumption
    <3> QED  BY <1>6, <3>1, <3>2
  <2>3. /\ lastRead' \in {"none", "empty", "some"} /\ job' \in Job
        /\ listed'.keys \subseteq Keys /\ listed'.at \in 1..now'
    BY <1>1 DEF TypeOK
  <2> QED  BY <1>3, <1>5, <2>1, <2>2, <2>3 DEF TypeOK, NoStory, NoBody
<1>8. StoriesBehindFeed' /\ StoryTimes'
  BY EditPublishes
<1>9. JobCurrent'
  <2>1. job.version <= feed.version /\ job.version \in Nat /\ feed.version \in Nat
    BY <1>1 DEF TypeOK, JobCurrent, Job, Feed
  <2>2. job'.version = job.version
    OBVIOUS
  <2>3. job'.version < feed'.version
    BY <1>5, <2>1, <2>2
  <2> QED  BY <1>5, <2>1, <2>2, <2>3 DEF JobCurrent
<1>10. BodiesRead'
  BY <1>1, <1>4 DEF BodiesRead, NoBody
<1>11. PublishedSince'
  <2>1. Edited(title, cleared, pruned) \in Nat
        /\ Edited(title, cleared, pruned) >= feed.changed
    <3>1. /\ Edited(title, cleared, pruned) \in Nat /\ Emptied(title, cleared) \in Nat
          /\ Emptied(title, cleared) >= feed.changed
          /\ Edited(title, cleared, pruned) >= Emptied(title, cleared)
      BY <1>1, EditTimes
    <3> QED  BY <1>1, <3>1 DEF TypeOK, Feed
  <2>2. feed.changed \in Nat /\ (feed.success => feed.changed >= 1)
    BY <1>1 DEF TypeOK, Feed, PublishedSince
  <2> QED  BY <1>5, <2>1, <2>2 DEF PublishedSince
<1>12. ListedKnown'
  <2>1. WithBody' \subseteq WithBody
    BY <1>4 DEF WithBody, NoBody
  <2> QED  BY <1>1, <1>4, <2>1 DEF ListedKnown
<1>13. Room'
  <2>1. CASE Cardinality(stored) <= limit
    <3>1. limit \in Nat
      BY <1>1, OutputAssumption DEF TypeOK
    <3> QED  BY <1>6, <2>1, <3>1 DEF Room
  <2>2. CASE \A k \in stored : story[k].first < now
    BY <1>4, <2>2 DEF Room
  <2> QED  BY <1>1, <2>1, <2>2 DEF Room
<1> QED  BY <1>4, <1>7, <1>8, <1>9, <1>10, <1>11, <1>12, <1>13

\* A save: the bodies it keeps were read with the selector it saves, and with
\* its rules or for stories it spares.
LEMMA EditOK ==
  ASSUME Inv, Edit
  PROVE  StepOK
<1>1. PICK title \in Titles, article \in Articles, rules \in RuleSets,
           keep \in KeepSets, ask \in BOOLEAN :
        Save(title, article, rules, keep, ask)
  BY Zenon DEF Edit
<1>2. UNCHANGED <<now, limit, lastRead, listed, job>>
  BY DEF Edit
<1> DEFINE cleared == Discarded(article, rules)
           pruned == IF ask THEN stored \ keep ELSE {}
<1>3. /\ EditRows(title, article, rules, keep, cleared, pruned)
      /\ spared' = stored' \intersect
           (IF article # feed.article \/ article = "off" THEN {}
            ELSE IF rules = feed.rules THEN spared
            ELSE stored \ listed.keys)
  BY <1>1, SaveRows
<1>4. cleared \in SUBSET WithBody
  BY DEF Discarded, ListedBodies
<1>5. pruned \in SUBSET stored
  OBVIOUS
<1>6. spared' \subseteq stored'
  BY <1>3
<1>7. /\ TypeOK /\ BodiesMatchSelector /\ CleanedBodies /\ BodiesRead
      /\ ListedKnown
  BY DEF Inv
<1>8. /\ article # feed.article => cleared = WithBody
      /\ article = feed.article /\ article # "off" /\ rules # feed.rules
           => cleared = ListedBodies
  <2>1. ASSUME article # feed.article
        PROVE  cleared = WithBody
    BY <2>1 DEF Discarded
  <2>2. ASSUME article = feed.article, article # "off", rules # feed.rules
        PROVE  cleared = ListedBodies
    BY <2>2 DEF Discarded
  <2> QED  BY <2>1, <2>2
<1>9. EditKnown(title, article, rules, cleared, pruned)
  <2> HIDE DEF cleared, pruned
  <2> QED  BY <1>3, <1>4, <1>5, EditedStories
<1> HIDE DEF cleared, pruned
<1>10. /\ TypeOK' /\ StoriesBehindFeed' /\ JobCurrent' /\ StoryTimes'
       /\ BodiesRead' /\ PublishedSince' /\ ListedKnown' /\ Room'
  BY <1>2, <1>3, <1>4, <1>5, <1>6, EditInv
<1>11. ASSUME NEW k \in stored', story'[k].body # NoBody
       PROVE  k \in WithBody \ cleared /\ story'[k].body = story[k].body
  BY <1>2, <1>3, <1>4, <1>5, <1>6, <1>11, EditInv
<1>12. feed'.article = article /\ feed'.rules = rules
  BY <1>9 DEF EditKnown
<1>13. ASSUME NEW k \in stored', story'[k].body # NoBody
       PROVE  /\ article = feed.article /\ article # "off"
              /\ k \in WithBody \ cleared /\ story'[k].body = story[k].body
              /\ story'[k].body.article = feed'.article
  <2>1. k \in WithBody \ cleared /\ story'[k].body = story[k].body
    BY <1>11, <1>13
  <2>2. article = feed.article
    BY <1>8, <2>1
  <2>3. k \in stored /\ story[k].body # NoBody
    BY <2>1 DEF WithBody
  <2>4. story[k].body.article = feed.article /\ story[k].body.article # "off"
    BY <1>7, <2>3 DEF BodiesMatchSelector, BodiesRead
  <2> QED  BY <1>12, <2>1, <2>2, <2>4
<1>14. BodiesMatchSelector'
  BY <1>13 DEF BodiesMatchSelector, NoBody
<1>15. CleanedBodies'
  <2>1. ASSUME NEW k \in stored', story'[k].body # NoBody,
               story'[k].body.rules # feed'.rules
        PROVE  k \in spared'
    <3>1. /\ article = feed.article /\ article # "off"
          /\ k \in WithBody \ cleared /\ story'[k].body = story[k].body
      BY <1>13, <2>1
    <3>2. k \in stored /\ story[k].body # NoBody
      BY <3>1 DEF WithBody
    <3>3. CASE rules = feed.rules
      <4>1. k \in spared
        BY <1>7, <1>12, <2>1, <3>1, <3>2, <3>3 DEF CleanedBodies
      <4> QED  BY <1>3, <3>1, <3>3, <4>1
    <3>4. CASE rules # feed.rules
      <4>1. cleared = ListedBodies
        BY <1>8, <3>1, <3>4
      <4>2. ASSUME k \in listed.keys
            PROVE  FALSE
        <5>1. /\ \A j \in stored : story[j].seen <= listed.at
              /\ story[k].seen = listed.at
              /\ lastRead # "empty"
          BY <1>7, <3>1, <3>2, <4>2 DEF ListedKnown
        <5>2. k \in ListedBodies
          BY <3>1, <5>1 DEF ListedBodies
        <5> QED  BY <3>1, <4>1, <5>2
      <4> QED  BY <1>3, <3>1, <3>2, <3>4, <4>2
    <3> QED  BY <3>3, <3>4
  <2> QED  BY <2>1 DEF CleanedBodies, NoBody
<1>16. Publishes /\ EntriesMove /\ NewMoves
  BY <1>3, <1>4, <1>5, EditPublishes
<1> QED  BY <1>10, <1>14, <1>15, <1>16 DEF StepOK, Inv

\* A filter's save discards no body.
LEMMA EditFilterOK ==
  ASSUME Inv, EditFilter
  PROVE  StepOK
<1>1. PICK f \in KeepSets : \E pruned \in SUBSET stored :
        EditRows(feed.title, feed.article, feed.rules, f, {}, pruned)
  BY EditFilterRows
<1>2. PICK pruned \in SUBSET stored :
        EditRows(feed.title, feed.article, feed.rules, f, {}, pruned)
  BY <1>1
<1>3. /\ spared' = spared \intersect stored'
      /\ UNCHANGED <<now, limit, lastRead, listed, job>>
  BY DEF EditFilter
<1>4. TypeOK /\ BodiesMatchSelector /\ CleanedBodies
  BY DEF Inv
<1>5. /\ feed.title \in Titles /\ feed.article \in Articles
      /\ feed.rules \in RuleSets /\ {} \in SUBSET WithBody
      /\ spared' \subseteq stored'
  BY <1>3, <1>4 DEF TypeOK, Feed
<1> DEFINE cleared == {}
<1>6. cleared \in SUBSET WithBody
      /\ EditRows(feed.title, feed.article, feed.rules, f, cleared, pruned)
  BY <1>2
<1>7. /\ TypeOK' /\ StoriesBehindFeed' /\ JobCurrent' /\ StoryTimes'
      /\ BodiesRead' /\ PublishedSince' /\ ListedKnown' /\ Room'
      /\ \A k \in stored' : story'[k].body # NoBody
           => k \in WithBody \ cleared /\ story'[k].body = story[k].body
  <2> HIDE DEF cleared
  <2> QED  BY <1>3, <1>5, <1>6, EditInv
<1>8. feed'.article = feed.article /\ feed'.rules = feed.rules
  <2> HIDE DEF cleared
  <2>1. EditKnown(feed.title, feed.article, feed.rules, cleared, pruned)
    BY <1>5, <1>6, EditedStories
  <2> QED  BY <2>1 DEF EditKnown
<1>9. BodiesMatchSelector'
  BY <1>4, <1>7, <1>8 DEF BodiesMatchSelector, NoBody, WithBody
<1>10. CleanedBodies'
  BY <1>3, <1>4, <1>7, <1>8 DEF CleanedBodies, NoBody, WithBody
<1>11. Publishes /\ EntriesMove /\ NewMoves
  <2> HIDE DEF cleared
  <2> QED  BY <1>5, <1>6, EditPublishes
<1> QED  BY <1>7, <1>9, <1>10, <1>11 DEF StepOK, Inv

----------------------------------------------------------------------------
(* The other steps. *)

\* A step that leaves the rows alone publishes nothing.
LEMMA RowsStay ==
  ASSUME UNCHANGED <<feed, stored, story>>
  PROVE  Publishes /\ EntriesMove /\ NewMoves
<1>1. feed' = feed /\ stored' = stored /\ story' = story
  OBVIOUS
<1>2. Document' = Document
  BY <1>1, SameDocument
<1> QED  BY <1>1, <1>2 DEF Publishes, EntriesMove, NewMoves

LEMMA InitOK == Init => Inv
<1> SUFFICES ASSUME Init PROVE Inv
  OBVIOUS
<1>1. /\ now = 1 /\ limit \in Limits /\ (NewFeed \/ UpgradedFeed)
      /\ job = NoJob /\ listed = [keys |-> stored, at |-> 1] /\ spared = {}
  BY DEF Init
<1>2. NoBody \in Body /\ NoStory \in Story /\ NoJob \in Job
  BY OutputAssumption DEF NoBody, Body, Articles, NoStory, Story, NoJob, Job
<1>3. now \in 1..MaxTime /\ now \in Nat /\ limit \in Nat \ {0}
  BY <1>1, OutputAssumption
<1>4. NoStories \in [Keys -> Story]
  BY <1>2 DEF NoStories
<1>5. job.version = 0 /\ job.running = FALSE /\ job \in Job
  BY <1>1, <1>2 DEF NoJob
<1>6. CASE NewFeed
  <2>1. /\ stored = {} /\ story = NoStories /\ lastRead = "none"
        /\ feed \in Feed /\ feed.new = 0 /\ feed.success = FALSE
        /\ feed.version = 1
    <3>1. PICK t \in Titles, a \in Articles, r \in RuleSets, f \in KeepSets :
            feed = [title |-> t, article |-> a, rules |-> r, keep |-> f,
                    version |-> 1, validator |-> FALSE, changed |-> 0,
                    success |-> FALSE, new |-> 0]
      BY <1>6 DEF NewFeed
    <3> QED  BY <1>6, <3>1 DEF NewFeed, Feed
  <2>2. Cardinality(stored) = 0
    BY <2>1, FS_EmptySet
  <2>3. TypeOK
    <3>1. \E n \in Limits : Cardinality(stored) <= n
      BY <1>1, <1>3, <2>2
    <3>2. \A k \in Keys \ stored : story[k] = NoStory
      BY <2>1 DEF NoStories
    <3>3. listed.keys \subseteq Keys /\ listed.at \in 1..now
      BY <1>1, <2>1
    <3> QED  BY <1>1, <1>3, <1>4, <1>5, <2>1, <3>1, <3>2, <3>3 DEF TypeOK
  <2>4. WithBody = {}
    BY <2>1 DEF WithBody
  <2>5. Room
    BY <1>3, <2>2 DEF Room
  <2> QED  BY <1>5, <2>1, <2>3, <2>4, <2>5
           DEF Inv, StoriesBehindFeed, BodiesMatchSelector, CleanedBodies,
               JobCurrent, StoryTimes, BodiesRead, PublishedSince, ListedKnown
<1>7. CASE UpgradedFeed
  <2>1. /\ feed \in Feed /\ feed.new = 1 /\ feed.success = TRUE
        /\ feed.version = 1 /\ feed.changed = 1 /\ lastRead = "some"
        /\ feed.keep \in KeepSets
    <3>1. PICK t \in Titles, a \in Articles, r \in RuleSets, f \in KeepSets :
            feed = [title |-> t, article |-> a, rules |-> r, keep |-> f,
                    version |-> 1, validator |-> TRUE, changed |-> 1,
                    success |-> TRUE, new |-> 1]
      BY <1>7 DEF UpgradedFeed
    <3> QED  BY <1>7, <3>1 DEF UpgradedFeed, Feed
  <2>2. PICK k \in feed.keep, t \in Texts, b \in {NoBody, BodyOf(feed)} :
          /\ stored = {k}
          /\ story = [NoStories EXCEPT ![k] = UpgradedStory(t, b)]
    <3>1. UpgradedStories
      BY <1>7 DEF UpgradedFeed
    <3> QED  BY <3>1 DEF UpgradedStories
  <2>3. k \in Keys
    BY <2>1, OutputAssumption
  <2>4. BodyOf(feed) \in Body
        /\ (BodyOf(feed) # NoBody => /\ BodyOf(feed).article = feed.article
                                     /\ feed.article # "off"
                                     /\ BodyOf(feed).rules = feed.rules)
    BY <1>2, <2>1 DEF BodyOf, Body, Feed
  <2>5. /\ story[k] = [text |-> t, body |-> b, published |-> 1,
                       first |-> 1, seen |-> 1, changed |-> 0]
        /\ story[k] \in Story
        /\ \A j \in Keys \ {k} : story[j] = NoStory
    <3>1. story[k] = [text |-> t, body |-> b, published |-> 1,
                      first |-> 1, seen |-> 1, changed |-> 0]
      BY <1>4, <2>2, <2>3 DEF UpgradedStory
    <3>2. \A j \in Keys \ {k} : story[j] = NoStory
      BY <1>4, <2>2, <2>3 DEF NoStories
    <3>3. b \in Body
      BY <1>2, <2>4
    <3> QED  BY <3>1, <3>2, <3>3 DEF Story
  <2>6. story \in [Keys -> Story]
    <3>1. story = [j \in Keys |-> story[j]]
      BY <1>4, <2>2
    <3> QED  BY <1>2, <2>5, <3>1
  <2>7. Cardinality(stored) = 1
    BY <2>2, FS_Singleton
  <2>8. TypeOK
    <3>1. \E n \in Limits : Cardinality(stored) <= n
      BY <1>1, <1>3, <2>7
    <3>2. \A j \in Keys \ stored : story[j] = NoStory
      BY <2>2, <2>5
    <3>3. listed.keys \subseteq Keys /\ listed.at \in 1..now
      BY <1>1, <2>2, <2>3
    <3>4. feed.new <= now /\ stored \subseteq Keys /\ spared \subseteq stored
          /\ lastRead \in {"none", "empty", "some"}
      BY <1>1, <2>1, <2>2, <2>3
    <3> QED  BY <1>1, <1>3, <1>5, <2>1, <2>6, <3>1, <3>2, <3>3, <3>4 DEF TypeOK
  <2>9. StoryTime(story[k]) = 1 /\ story[k].seen = 1 /\ story[k].first = 1
        /\ story[k].body = b
    BY <2>5 DEF StoryTime
  <2>10. StoriesBehindFeed /\ StoryTimes
    BY <1>1, <2>1, <2>2, <2>9 DEF StoriesBehindFeed, StoryTimes
  <2>11. BodiesMatchSelector /\ CleanedBodies /\ BodiesRead
    BY <2>2, <2>4, <2>9 DEF BodiesMatchSelector, CleanedBodies, BodiesRead
  <2>12. JobCurrent /\ PublishedSince
    BY <1>5, <2>1 DEF JobCurrent, PublishedSince
  <2>13. ListedKnown
    BY <1>1, <2>1, <2>2, <2>9 DEF ListedKnown
  <2>14. Room
    BY <1>3, <2>7 DEF Room
  <2> QED  BY <2>8, <2>10, <2>11, <2>12, <2>13, <2>14 DEF Inv
<1> QED  BY <1>1, <1>6, <1>7

\* The scheduler's steps, the clock and a restart.
LEMMA OtherOK ==
  ASSUME Inv, Start \/ GiveUp \/ ForgetRuns \/ Tick \/ Restart
  PROVE  StepOK
<1>1. /\ TypeOK /\ StoriesBehindFeed /\ BodiesMatchSelector /\ CleanedBodies
      /\ JobCurrent /\ StoryTimes /\ BodiesRead /\ PublishedSince /\ ListedKnown
      /\ Room
  BY DEF Inv
<1>2. /\ feed' = feed /\ stored' = stored /\ story' = story
      /\ listed' = listed /\ spared' = spared
  BY DEF Start, GiveUp, ForgetRuns, Tick, Restart, storeVars
<1>3. Publishes /\ EntriesMove /\ NewMoves
  BY <1>2, RowsStay
<1>4. NoJob \in Job
  BY OutputAssumption DEF NoBody, Body, Articles, NoStory, Story, NoJob, Job
<1>5. job' \in Job /\ JobCurrent'
  <2>1. feed \in Feed /\ feed.version \in Nat
    BY <1>1 DEF TypeOK, Feed
  <2>2. CASE Start
    <3>1. job' = [running |-> TRUE, version |-> feed.version,
                  article |-> feed.article, rules |-> feed.rules,
                  keep |-> feed.keep]
      BY <2>2 DEF Start
    <3> QED  BY <1>2, <2>1, <3>1 DEF Job, Feed, JobCurrent
  <2>3. CASE job' = NoJob
    BY <1>2, <1>4, <2>1, <2>3 DEF JobCurrent, NoJob
  <2>4. CASE job' = job
    BY <1>1, <1>2, <2>4 DEF JobCurrent, TypeOK
  <2> QED  BY <2>2, <2>3, <2>4 DEF GiveUp, ForgetRuns, Tick, Restart
<1>6. now \in Nat /\ now >= 1 /\ MaxTime \in Nat
  BY <1>1, OutputAssumption DEF TypeOK
<1>7. now' \in 1..MaxTime /\ now' >= now /\ (now' # now => now' > now)
  BY <1>1, <1>6 DEF Start, GiveUp, ForgetRuns, Tick, Restart, TypeOK
<1>8. limit' \in Limits
  BY <1>1 DEF Start, GiveUp, ForgetRuns, Tick, Restart, TypeOK
<1>9. lastRead' \in {"none", "empty", "some"}
      /\ (lastRead' = "empty" => lastRead = "empty")
  BY <1>1 DEF Start, GiveUp, ForgetRuns, Tick, Restart, TypeOK, storeVars
<1>10. TypeOK'
  <2>1. feed.new \in Nat /\ listed.at \in 1..now
    BY <1>1 DEF TypeOK, Feed
  <2>2. feed'.new <= now' /\ listed'.at \in 1..now'
    BY <1>1, <1>2, <1>6, <1>7, <2>1 DEF TypeOK
  <2>3. NoStory' = NoStory
    BY DEF NoStory, NoBody
  <2> QED  BY <1>1, <1>2, <1>5, <1>7, <1>8, <1>9, <2>2, <2>3 DEF TypeOK
<1>11. /\ StoriesBehindFeed' /\ BodiesMatchSelector' /\ CleanedBodies'
       /\ BodiesRead' /\ PublishedSince'
  BY <1>1, <1>2
     DEF StoriesBehindFeed, StoryTime, BodiesMatchSelector, CleanedBodies,
         BodiesRead, PublishedSince, NoBody
<1>12. StoryTimes'
  <2>1. \A k \in stored : /\ story[k].first <= feed.new
                          /\ story[k].seen \in 1..now'
    BY <1>1, <1>6, <1>7 DEF StoryTimes
  <2> QED  BY <1>2, <2>1 DEF StoryTimes
<1>13. ListedKnown'
  <2>1. WithBody' = WithBody
    BY <1>2 DEF WithBody, NoBody
  <2> QED  BY <1>1, <1>2, <1>9, <2>1 DEF ListedKnown
<1>14. Room'
  <2>1. CASE now' = now /\ limit' = limit
    BY <1>1, <1>2, <2>1 DEF Room
  <2>2. CASE now' > now
    <3>1. ASSUME NEW k \in stored
          PROVE  story[k].first < now'
      <4>1. story[k].first <= feed.new /\ feed.new <= now
            /\ story[k].first \in Nat /\ feed.new \in Nat
        BY <1>1 DEF StoryTimes, TypeOK, Story, Feed
      <4> QED  BY <1>6, <1>7, <2>2, <4>1
    <3> QED  BY <1>2, <3>1 DEF Room
  <2>3. now' = now => limit' = limit
    BY <1>6 DEF Start, GiveUp, ForgetRuns, Tick, Restart
  <2> QED  BY <1>7, <2>1, <2>2, <2>3
<1> QED  BY <1>3, <1>5, <1>10, <1>11, <1>12, <1>13, <1>14 DEF StepOK, Inv

LEMMA NextOK ==
  ASSUME Inv, [Next]_vars
  PROVE  StepOK
<1>1. CASE Next
  BY <1>1, MergeOK, NotModifiedOK, EditOK, EditFilterOK, OtherOK DEF Next, Step
<1>2. CASE UNCHANGED vars
  <2>1. Inv'
    BY <1>2
       DEF vars, storeVars, Inv, TypeOK, StoriesBehindFeed, StoryTime,
           BodiesMatchSelector, CleanedBodies, JobCurrent, StoryTimes, BodiesRead,
           PublishedSince, ListedKnown, Room, WithBody, NoStory, NoBody
  <2>2. Publishes /\ EntriesMove /\ NewMoves
    BY <1>2, RowsStay DEF vars, storeVars
  <2> QED  BY <2>1, <2>2 DEF StepOK
<1> QED  BY <1>1, <1>2

----------------------------------------------------------------------------
(* The theorems. *)

\* The inductive invariant, always.
LEMMA InvAlways == Spec => []Inv
<1>1. Inv /\ [Next]_vars => Inv'
  BY NextOK DEF StepOK
<1> QED  BY InitOK, <1>1, PTL DEF Spec

\* The row of the feed, its stories and the refresh in progress keep their
\* types.
THEOREM FeedTyped == Spec => []TypeOK
<1>1. Inv => TypeOK
  BY DEF Inv
<1> QED  BY InvAlways, <1>1, PTL

\* No story of the document is dated after the document (last_changed moves with
\* every change of a story).
THEOREM StoriesNotAhead == Spec => []StoriesBehindFeed
<1>1. Inv => StoriesBehindFeed
  BY DEF Inv
<1> QED  BY InvAlways, <1>1, PTL

\* Every stored article was read with the selector of the feed, whatever edits
\* came while a refresh was fetching articles (SaveWithOptions, clearArticleBodies).
THEOREM ArticlesSelected == Spec => []BodiesMatchSelector
<1>1. Inv => BodiesMatchSelector
  BY DEF Inv
<1> QED  BY InvAlways, <1>1, PTL

\* Every stored article was cleaned by the rules of the feed, or is of a story
\* that the last change of rules was to spare (clearArticleBodies).
THEOREM ArticlesCleaned == Spec => []CleanedBodies
<1>1. Inv => CleanedBodies
  BY DEF Inv
<1> QED  BY InvAlways, <1>1, PTL

\* The feed implements Stamped: its modification time moves when the published
\* document changes and only then, always forward.
THEOREM FeedImplementsStamped == Spec => Published
<1> DEFINE doc == IF feed.success THEN Document ELSE Nothing
           stamp == IF feed.success THEN feed.changed ELSE 0
<1>1. Init => Abstract!Init
  <2> SUFFICES ASSUME Init PROVE Abstract!Init
    OBVIOUS
  <2>1. TypeOK /\ PublishedSince
    BY InitOK DEF Inv
  <2>2. feed.changed \in Nat /\ feed.title # "none"
    BY <2>1, OutputAssumption DEF TypeOK, Feed
  <2>3. Document # Nothing
    BY <2>2 DEF Document, Nothing
  <2>4. feed.success => feed.changed \in Nat \ {0}
    BY <2>1, <2>2 DEF PublishedSince
  <2> QED  BY <2>3, <2>4 DEF Abstract!Init
<1>2. Inv /\ [Next]_vars => [Abstract!Publish]_<<doc, stamp>>
  <2> SUFFICES ASSUME Inv, [Next]_vars
               PROVE  [Abstract!Publish]_<<doc, stamp>>
    OBVIOUS
  <2>1. Inv' /\ Publishes
    BY NextOK DEF StepOK
  <2>2. /\ feed.changed \in Nat /\ feed'.changed \in Nat
        /\ feed'.title # "none" /\ (feed'.success => feed'.changed >= 1)
    BY <2>1, OutputAssumption DEF Inv, TypeOK, Feed, PublishedSince
  <2>3. Document' # Nothing
    BY <2>2 DEF Document, Nothing
  <2>4. Nothing' = Nothing
    BY DEF Nothing
  <2>5. CASE feed.success
    <3>1. feed'.success
      BY <2>1, <2>5 DEF Publishes
    <3>2. doc = Document /\ doc' = Document' /\ stamp = feed.changed
          /\ stamp' = feed'.changed
      BY <2>5, <3>1
    <3>3. CASE Document' = Document
      <4>1. feed'.changed = feed.changed
        BY <2>1, <2>5, <3>3 DEF Publishes
      <4> QED  BY <3>2, <3>3, <4>1
    <3>4. CASE Document' # Document
      <4>1. feed'.changed > feed.changed
        BY <2>1, <2>5, <3>4 DEF Publishes
      <4>2. Abstract!Publish
        BY <2>2, <2>3, <2>4, <2>5, <3>1, <3>4, <4>1 DEF Abstract!Publish
      <4> QED  BY <4>2
    <3> QED  BY <3>3, <3>4
  <2>6. CASE ~feed.success /\ feed'.success
    <3>1. Abstract!Publish
      BY <2>2, <2>3, <2>4, <2>6 DEF Abstract!Publish
    <3> QED  BY <3>1
  <2>7. CASE ~feed.success /\ ~feed'.success
    BY <2>4, <2>7
  <2> QED  BY <2>5, <2>6, <2>7
<1> QED  BY InvAlways, <1>1, <1>2, PTL DEF Spec, Published, Abstract!Spec

\* While a story stays stored, its time moves exactly when its content does,
\* and then past every time the feed had published.
THEOREM EntryTimesMove == Spec => EntryTimes
<1>1. Inv /\ [Next]_vars => EntriesMove
  BY NextOK DEF StepOK
<1>2. EntriesMove
        => \A k \in stored \intersect stored' :
             IF Content(story'[k]) = Content(story[k])
             THEN StoryTime(story'[k]) = StoryTime(story[k])
             ELSE StoryTime(story'[k]) > feed.changed
  BY DEF EntriesMove
<1> QED  BY InvAlways, <1>1, <1>2, PTL DEF Spec, EntryTimes

\* last_new moves exactly when a story that was not stored now is.
THEOREM NewStoriesOnly == Spec => NewMeansInserted
<1>1. Inv /\ [Next]_vars => NewMoves
  BY NextOK DEF StepOK
<1>2. NewMoves => IF stored' \subseteq stored THEN feed'.new = feed.new
                                              ELSE feed'.new = now
  BY DEF NewMoves
<1> QED  BY InvAlways, <1>1, <1>2, PTL DEF Spec, NewMeansInserted

----------------------------------------------------------------------------
(* The reader. *)

\* What it holds is of the feed's past: a time the feed still has goes with the
\* title the feed still has, and with the copy of what is published.
ReaderBehind ==
  /\ reader = [polling |-> reader.polling, title |-> reader.title,
               changed |-> reader.changed, modified |-> reader.modified,
               copy |-> reader.copy]
  /\ reader.changed \in Nat /\ reader.modified \in Nat
  /\ reader.polling => /\ feed.success /\ reader.changed >= 1
                       /\ reader.changed <= feed.changed
                       /\ reader.changed = feed.changed
                            => reader.title = feed.title
  /\ reader.modified # 0 => /\ feed.success
                            /\ reader.modified <= feed.changed
                            /\ reader.modified = feed.changed
                                 => reader.copy = Document

\* A 304 never hides a change from a reader, whatever merges and edits came
\* between the two queries of the answer it holds.
THEOREM ReaderSafe == ReaderSpec => []ReaderSeesChange
<1> DEFINE RInv == Inv /\ ReaderBehind
<1>1. ReaderInit => RInv
  BY InitOK DEF ReaderInit, NoCopy, ReaderBehind
<1>2. RInv /\ [ReaderNext]_readerVars => RInv'
  <2> SUFFICES ASSUME Inv, ReaderBehind, [ReaderNext]_readerVars
               PROVE  RInv'
    OBVIOUS
  <2>1. [Next]_vars
    BY DEF ReaderNext, PollRow, ReadItems, Cut, Next, readerVars
  <2>2. Inv' /\ Publishes
    BY <2>1, NextOK DEF StepOK
  <2>3. TypeOK /\ PublishedSince /\ feed.changed \in Nat /\ feed'.changed \in Nat
    BY <2>2 DEF Inv, TypeOK, Feed
  <2>4. Document' = Document => feed'.title = feed.title
    BY SameDocument
  <2>5. CASE \/ reader' = reader
             \/ reader' = [reader EXCEPT !.polling = FALSE]
    <3>1. /\ reader'.changed = reader.changed /\ reader'.title = reader.title
          /\ reader'.modified = reader.modified /\ reader'.copy = reader.copy
          /\ reader'.polling => reader.polling
          /\ reader' = [polling |-> reader'.polling, title |-> reader'.title,
                        changed |-> reader'.changed,
                        modified |-> reader'.modified, copy |-> reader'.copy]
      BY <2>5 DEF ReaderBehind
    <3>2. CASE feed.success
      <4>1. feed'.success
        BY <2>2, <3>2 DEF Publishes
      <4>2. CASE Document' = Document
        <5>1. feed'.changed = feed.changed /\ feed'.title = feed.title
          BY <2>2, <2>4, <3>2, <4>2 DEF Publishes
        <5> QED  BY <2>2, <3>1, <4>1, <4>2, <5>1 DEF ReaderBehind
      <4>3. CASE Document' # Document
        <5>1. feed'.changed > feed.changed
          BY <2>2, <3>2, <4>3 DEF Publishes
        <5> QED  BY <2>2, <2>3, <3>1, <4>1, <5>1 DEF ReaderBehind
      <4> QED  BY <4>2, <4>3
    <3>3. CASE ~feed.success
      <4>1. ~reader'.polling /\ reader'.modified = 0
        BY <3>1, <3>3 DEF ReaderBehind
      <4> QED  BY <2>2, <3>1, <4>1 DEF ReaderBehind
    <3> QED  BY <3>2, <3>3
  <2>6. CASE PollRow
    <3>1. /\ feed.success /\ feed' = feed /\ Document' = Document
          /\ reader' = [reader EXCEPT !.polling = TRUE, !.title = feed.title,
                                      !.changed = feed.changed]
      BY <2>6 DEF PollRow, vars, storeVars, Document, Content
    <3>2. /\ reader'.changed = feed.changed /\ reader'.title = feed.title
          /\ reader'.modified = reader.modified /\ reader'.copy = reader.copy
          /\ reader' = [polling |-> reader'.polling, title |-> reader'.title,
                        changed |-> reader'.changed,
                        modified |-> reader'.modified, copy |-> reader'.copy]
      BY <3>1 DEF ReaderBehind
    <3> QED  BY <2>2, <2>3, <3>1, <3>2 DEF ReaderBehind, PublishedSince
  <2>7. CASE /\ reader.polling
             /\ reader' = [reader EXCEPT
                             !.polling = FALSE, !.modified = reader.changed,
                             !.copy = [Document EXCEPT !.title = reader.title]]
             /\ UNCHANGED vars
    <3>1. feed' = feed /\ Document' = Document
      BY <2>7 DEF vars, storeVars, Document, Content
    <3>2. /\ reader'.polling = FALSE /\ reader'.changed = reader.changed
          /\ reader'.modified = reader.changed
          /\ reader'.copy = [Document EXCEPT !.title = reader.title]
          /\ reader' = [polling |-> reader'.polling, title |-> reader'.title,
                        changed |-> reader'.changed,
                        modified |-> reader'.modified, copy |-> reader'.copy]
      BY <2>7 DEF ReaderBehind
    <3>3. reader.changed = feed.changed => reader'.copy = Document
      <4>1. reader.changed = feed.changed => reader.title = feed.title
        BY <2>7 DEF ReaderBehind
      <4>2. [Document EXCEPT !.title = feed.title] = Document
        BY DEF Document
      <4> QED  BY <3>2, <4>1, <4>2
    <3>4. /\ feed.success /\ reader.changed \in Nat
          /\ reader.changed <= feed.changed
      BY <2>7 DEF ReaderBehind
    <3> QED  BY <2>2, <3>1, <3>2, <3>3, <3>4 DEF ReaderBehind
  <2> QED  BY <2>5, <2>6, <2>7 DEF ReaderNext, ReadItems, Cut, readerVars
<1>3. RInv => ReaderSeesChange
  BY DEF Inv, TypeOK, Feed, ReaderBehind, ReaderSeesChange
<1> HIDE DEF RInv
<1> QED  BY <1>1, <1>2, <1>3, PTL DEF ReaderSpec
============================================================================
