--------------------------- MODULE BacklogProofs ---------------------------
(***************************************************************************)
(* That a feed's backlog ends and strands no story, proved of Backlog for  *)
(* every source, limit and retention.                                      *)
(***************************************************************************)
EXTENDS Backlog, FiniteSetTheorems, SequenceTheorems, TLAPS

----------------------------------------------------------------------------
(* The inductive invariant. *)

Phases == {"none", "listed", "fetched", "stored"}

Run == [pc: Phases, asks: BOOLEAN, whole: BOOLEAN,
        listed: Pages \union {NotModified}, stale: BOOLEAN, read: BOOLEAN,
        fetched: SUBSET Keys, left: SUBSET Keys, had: Nat,
        failed: SUBSET Keys, barren: BOOLEAN]

Typed ==
  /\ page \in Pages /\ selector \in BOOLEAN /\ etag \in Pages \union {NoTag}
  /\ stored \in Seq(Keys) /\ IsInjective(stored) /\ Len(stored) <= Kept
  /\ bodies \subseteq ToSet(stored) /\ recent \subseteq ToSet(stored)
  /\ backlog \in {"yes", "no", "unknown"}
  /\ job \in Run /\ job.left \subseteq ToSet(job.listed)
  /\ full \in Nat /\ failed \subseteq Keys /\ barren \in BOOLEAN

Listed == ToSet(job.listed)

\* The stories with an article once the refresh is stored.
Obtained == bodies \union job.fetched

\* The stories of the validator's page with an article.
Bodied == Cardinality(ToSet(etag) \intersect bodies)

Lesser(a, b) == IF a <= b THEN a ELSE b

\* The stories of a page that may be stored.
Room(list) == Lesser(Len(list), Kept)

\* A page was stored, and the flag that follows from it was not yet.
Unrecorded == job.pc = "stored" /\ job.listed # NotModified /\ ~job.stale

\* What a refresh asked for, while no edit has made it stale.
JobOK ==
  job.pc # "none" =>
    /\ job.stale => etag = NoTag
    /\ ~job.stale => (job.asks <=> selector)
    /\ job.whole <=> job.asks /\ backlog # "no"
    /\ job.listed = NotModified => ~job.whole
    /\ job.pc # "stored" /\ ~job.stale /\ ~job.whole
         /\ job.listed # NotModified => job.listed # etag

\* Every listed story has an article, was tried, or is left; and a refresh that
\* brought an article has more of them than there were.
FetchedOK ==
  job.pc = "fetched" /\ job.asks /\ ~job.stale /\ job.listed # NotModified =>
    /\ Listed \subseteq Obtained \union job.failed \union job.left
    /\ ~job.barren => Cardinality(Listed \intersect Obtained) > job.had
    /\ job.read => job.had = Cardinality(Listed \intersect bodies)
    /\ job.fetched = {} => job.barren

\* The same, after retention.
StoredOK ==
  Unrecorded =>
    /\ etag = job.listed
    /\ job.asks => full <= job.had + 1
    /\ job.asks /\ Listed \subseteq ToSet(stored) =>
         /\ Listed \subseteq bodies \union failed \union job.left
         /\ ~barren /\ job.left # {} => Bodied > job.had /\ job.fetched # {}

\* NoStoryStranded of the page the validator names.
Waiting ==
  ~Unrecorded /\ selector /\ ~barren /\ etag # NoTag
    /\ ToSet(etag) \subseteq ToSet(stored)
    => backlog # "no" \/ ToSet(etag) \subseteq bodies \union failed

\* Each counted full request but the first follows one that brought an article
\* more, and there is room for another.
Counted ==
  /\ etag # NoTag => full <= 1 \/ full <= Room(etag)
  /\ ~selector => full = 0
  /\ ~Unrecorded /\ etag # NoTag /\ selector =>
       /\ backlog = "yes" => full <= Bodied /\ (full > 0 => Bodied < Room(etag))
       /\ backlog = "unknown" => full = 0

BacklogInv == Typed /\ JobOK /\ FetchedOK /\ StoredOK /\ Waiting /\ Counted

----------------------------------------------------------------------------
(* Sequences of stories. *)

LEMMA SetOfSequence ==
  ASSUME NEW S, NEW s \in Seq(S)
  PROVE  /\ IsFiniteSet(ToSet(s)) /\ Cardinality(ToSet(s)) <= Len(s)
         /\ Cardinality(ToSet(s)) \in Nat /\ ToSet(s) \subseteq S
<1>1. IsFiniteSet(1..Len(s)) /\ Cardinality(1..Len(s)) = Len(s)
  <2>1. Len(s) \in Nat
    OBVIOUS
  <2> QED
    BY <2>1, FS_Interval
<1>2. s \in Surjection(1..Len(s), ToSet(s))
  BY DEF Surjection, ToSet
<1>3. IsFiniteSet(ToSet(s)) /\ Cardinality(ToSet(s)) <= Len(s)
  BY <1>1, <1>2, FS_Surjection
<1>4. ToSet(s) \subseteq S
  BY DEF ToSet
<1> QED
  BY <1>3, <1>4, FS_CardinalityType

\* What MAX_ITEMS keeps of a list of stories.
LEMMA RetainedType ==
  ASSUME BacklogAssumption, NEW S, NEW keys \in SetToSeqs(S), IsFiniteSet(S)
  PROVE  /\ Retained(keys) \in Seq(S) /\ IsInjective(Retained(keys))
         /\ Len(Retained(keys)) <= Kept
<1> DEFINE n == Cardinality(S)
           m == Min({Kept, n})
<1>1. n \in Nat /\ Kept \in Nat
  BY FS_CardinalityType DEF BacklogAssumption
<1> HIDE DEF n
<1>2. keys \in Seq(S) /\ Len(keys) = n /\ IsInjective(keys)
  <2>1. keys \in [1..n -> S] /\ \A i, j \in 1..n : i # j => keys[i] # keys[j]
    BY Zenon DEF SetToSeqs, n
  <2> QED
    BY <1>1, <2>1 DEF IsInjective
<1>3. m \in 0..n /\ m <= Kept
  <2>1. \E x \in {Kept, n} : \A y \in {Kept, n} : x <= y
    BY <1>1
  <2>2. m \in {Kept, n} /\ \A y \in {Kept, n} : m <= y
    BY <2>1 DEF Min
  <2> QED
    BY <1>1, <2>2
<1> HIDE DEF m
<1>4. Retained(keys) = SubSeq(keys, 1, m)
  BY <1>2 DEF Retained, m
<1>5. /\ SubSeq(keys, 1, m) \in Seq(S) /\ Len(SubSeq(keys, 1, m)) = m
      /\ \A i \in 1..m : SubSeq(keys, 1, m)[i] = keys[i]
  BY <1>1, <1>2, <1>3
<1>6. IsInjective(SubSeq(keys, 1, m))
  BY <1>1, <1>2, <1>3, <1>5 DEF IsInjective
<1> QED
  BY <1>3, <1>4, <1>5, <1>6

\* A list with one story less.
LEMMA PrunedType ==
  ASSUME Typed, NEW i \in DOMAIN stored, BacklogAssumption
  PROVE  /\ RemoveAt(stored, i) \in Seq(Keys)
         /\ IsInjective(RemoveAt(stored, i))
         /\ Len(RemoveAt(stored, i)) <= Kept
<1> DEFINE n == Len(stored)
           s == RemoveAt(stored, i)
<1>1. stored \in Seq(Keys) /\ IsInjective(stored) /\ n <= Kept /\ i \in 1..n
      /\ n \in Nat /\ Kept \in Nat
  BY DEF Typed, BacklogAssumption
<1>2. s = SubSeq(stored, 1, i - 1) \o SubSeq(stored, i + 1, n)
  BY Zenon DEF RemoveAt
<1> DEFINE a == SubSeq(stored, 1, i - 1)
           b == SubSeq(stored, i + 1, n)
<1>3. /\ a \in Seq(Keys) /\ Len(a) = i - 1
      /\ \A k \in 1..(i - 1) : a[k] = stored[k]
  BY <1>1
<1>4. /\ b \in Seq(Keys) /\ Len(b) = n - i
      /\ \A k \in 1..(n - i) : b[k] = stored[k + i]
  BY <1>1
<1> HIDE DEF a, b
<1> DEFINE c == a \o b
<1>5. c \in Seq(Keys) /\ Len(c) = n - 1
  <2>1. c \in Seq(Keys) /\ Len(c) = Len(a) + Len(b)
    BY <1>3, <1>4, ConcatProperties
  <2> QED
    BY <1>1, <1>3, <1>4, <2>1
<1>6. \A k \in 1..(n - 1) :
        c[k] = IF k < i THEN stored[k] ELSE stored[k + 1]
  <2> SUFFICES ASSUME NEW k \in 1..(n - 1)
               PROVE  c[k] = IF k < i THEN stored[k] ELSE stored[k + 1]
    OBVIOUS
  <2>1. k \in 1..(Len(a) + Len(b))
    BY <1>1, <1>3, <1>4
  <2>2. c[k] = IF k <= Len(a) THEN a[k] ELSE b[k - Len(a)]
    BY <1>3, <1>4, <2>1, ConcatProperties
  <2>3. CASE k < i
    BY <1>1, <1>3, <2>2, <2>3
  <2>4. CASE ~(k < i)
    <3>1. k - (i - 1) \in 1..(n - i) /\ (k - (i - 1)) + i = k + 1
      BY <1>1, <2>4
    <3>2. c[k] = b[k - (i - 1)]
      BY <1>1, <1>3, <2>2, <2>4
    <3> QED
      BY <1>4, <2>4, <3>1, <3>2
  <2> QED
    BY <2>3, <2>4
<1> HIDE DEF c
<1>7. IsInjective(c)
  <2> SUFFICES ASSUME NEW k \in 1..(n - 1), NEW m \in 1..(n - 1), c[k] = c[m]
               PROVE  k = m
    BY <1>5 DEF IsInjective
  <2>1. \A x, y \in 1..n : stored[x] = stored[y] => x = y
    BY <1>1 DEF IsInjective
  <2>2. /\ k \in 1..n /\ m \in 1..n /\ k + 1 \in 1..n /\ m + 1 \in 1..n
    BY <1>1
  <2> QED
    BY <1>1, <1>6, <2>1, <2>2
<1> QED
  BY <1>1, <1>2, <1>5, <1>7 DEF a, b, c

\* A page is a list of stories, and none is the empty one.
LEMMA PageType ==
  ASSUME BacklogAssumption, NEW p \in Pages \union {NotModified}
  PROVE  /\ p \in Seq(Nat) /\ ToSet(p) \subseteq Keys
         /\ p # NotModified <=> p \in Pages
         /\ IsFiniteSet(ToSet(p)) /\ Cardinality(ToSet(p)) <= Len(p)
<1>1. p \in Seq(Nat) /\ (p # NotModified <=> p \in Pages)
  <2>1. \A q \in Pages : q \in Seq(Nat) /\ q # <<>>
    BY Zenon DEF BacklogAssumption
  <2>2. NotModified = <<>> /\ <<>> \in Seq(Nat)
    BY DEF NotModified
  <2> QED
    BY <2>1, <2>2
<1>2. ToSet(p) \subseteq Keys
  <2>1. CASE p \in Pages
    BY <2>1 DEF Keys
  <2>2. CASE p = NotModified
    BY <2>2 DEF NotModified, ToSet
  <2> QED
    BY <2>1, <2>2
<1> QED
  BY <1>1, <1>2, SetOfSequence

\* More of a finite set is more of it.
LEMMA MoreCounted ==
  ASSUME NEW T, IsFiniteSet(T), NEW A \in SUBSET T, NEW B \in SUBSET A
  PROVE  /\ Cardinality(A) \in Nat /\ Cardinality(B) \in Nat
         /\ Cardinality(B) <= Cardinality(A)
         /\ A # B => Cardinality(B) < Cardinality(A)
<1>1. IsFiniteSet(A)
  BY FS_Subset
<1> QED
  BY <1>1, FS_Subset, FS_CardinalityType

----------------------------------------------------------------------------
(* Each step keeps the invariant. *)

LEMMA NoJobRun == NoJob \in Run /\ NoJob.left \subseteq ToSet(NoJob.listed)
<1>1. NoJob.left = {} /\ {} \subseteq Keys
  BY DEF NoJob
<1> QED
  BY <1>1 DEF NoJob, Run, Phases

LEMMA InvInit ==
  ASSUME BacklogAssumption, BacklogInit
  PROVE  BacklogInv
<1>1. Typed
  <2>1. Kept \in Nat /\ stored = <<>> /\ ToSet(stored) = {}
    BY DEF BacklogInit, BacklogAssumption, ToSet
  <2>2. stored \in Seq(Keys) /\ IsInjective(stored) /\ Len(stored) <= Kept
    BY <2>1 DEF IsInjective
  <2> QED
    BY <2>1, <2>2, NoJobRun DEF Typed, BacklogInit
<1>2. job.pc = "none" /\ etag = NoTag /\ full = 0
  BY DEF BacklogInit, NoJob
<1> QED
  BY <1>1, <1>2 DEF BacklogInv, JobOK, FetchedOK, StoredOK, Waiting, Counted,
                    Unrecorded

\* Steps after which there is no refresh, and before which none was stored.
LEMMA EndUnstoredInv ==
  ASSUME BacklogInv, EndUnstored
  PROVE  BacklogInv'
<1>1. /\ UNCHANGED <<page, selector, etag, stored, bodies, recent, backlog,
                     full, failed, barren>>
      /\ job.pc # "stored" /\ job' = NoJob /\ job'.pc = "none"
  BY DEF EndUnstored, NoJob, history
<1>2. Typed'
  BY <1>1, NoJobRun DEF BacklogInv, Typed
<1>3. Waiting' /\ Counted'
  BY <1>1 DEF BacklogInv, Waiting, Counted, Unrecorded, Bodied
<1> QED
  BY <1>1, <1>2, <1>3 DEF BacklogInv, JobOK, FetchedOK, StoredOK, Unrecorded

LEMMA RequestInv ==
  ASSUME BacklogAssumption, BacklogInv, Request
  PROVE  BacklogInv'
<1>1. /\ UNCHANGED <<page, selector, etag, stored, bodies, recent, backlog,
                     full, failed, barren>>
      /\ job.pc = "none"
      /\ job' = [NoJob EXCEPT !.pc = "listed", !.asks = selector,
                   !.whole = Draining,
                   !.listed = IF ~Draining /\ etag = page THEN NotModified
                              ELSE page]
  BY DEF Request, history
<1>2. /\ job'.pc = "listed" /\ (job'.asks <=> selector)
      /\ job'.whole <=> Draining
      /\ job'.listed = IF ~Draining /\ etag = page THEN NotModified ELSE page
      /\ job'.stale = FALSE /\ job'.left = {}
  BY <1>1 DEF NoJob
<1>3. page \in Pages /\ page # NotModified
  BY PageType DEF BacklogInv, Typed
<1>4. job' \in Run
  <2>1. selector \in BOOLEAN /\ Draining \in BOOLEAN
    BY DEF BacklogInv, Typed, Draining
  <2> QED
    BY <1>1, <1>3, <2>1, NoJobRun DEF Run, Phases
<1>5. Typed'
  BY <1>1, <1>2, <1>4 DEF BacklogInv, Typed
<1>6. JobOK'
  BY <1>1, <1>2, <1>3 DEF JobOK, Draining
<1>7. Waiting' /\ Counted'
  BY <1>1, <1>2 DEF BacklogInv, Waiting, Counted, Unrecorded, Bodied
<1> QED
  BY <1>2, <1>5, <1>6, <1>7 DEF BacklogInv, FetchedOK, StoredOK, Unrecorded

LEMMA NoArticlesInv ==
  ASSUME BacklogInv, NoArticles
  PROVE  BacklogInv'
<1>1. /\ UNCHANGED <<page, selector, etag, stored, bodies, recent, backlog,
                     full, failed, barren>>
      /\ job.pc = "listed" /\ ~job.asks
      /\ job' = [job EXCEPT !.pc = "fetched"]
  BY DEF NoArticles, history
<1>2. job \in Run
  BY DEF BacklogInv, Typed
<1>3. /\ job' \in Run /\ job'.pc = "fetched"
      /\ job'.asks = job.asks /\ job'.whole = job.whole
      /\ job'.listed = job.listed /\ job'.stale = job.stale
      /\ job'.left = job.left
  BY <1>1, <1>2 DEF Run, Phases
<1>4. Typed'
  BY <1>1, <1>3 DEF BacklogInv, Typed
<1>5. JobOK'
  BY <1>1, <1>3 DEF BacklogInv, JobOK
<1>6. Waiting' /\ Counted'
  BY <1>1, <1>3 DEF BacklogInv, Waiting, Counted, Unrecorded, Bodied
<1> QED
  BY <1>1, <1>3, <1>4, <1>5, <1>6 DEF BacklogInv, FetchedOK, StoredOK, Unrecorded

\* The stories of a refresh and those with an article are finite sets.
LEMMA Counting ==
  ASSUME BacklogAssumption, Typed
  PROVE  /\ IsFiniteSet(Listed) /\ Cardinality(Listed) <= Len(job.listed)
         /\ Listed \subseteq Keys
         /\ IsFiniteSet(ToSet(etag)) /\ Cardinality(ToSet(etag)) <= Len(etag)
         /\ Len(etag) \in Nat /\ Len(job.listed) \in Nat
         /\ IsFiniteSet(ToSet(stored)) /\ ToSet(stored) \subseteq Keys
         /\ Cardinality(ToSet(stored)) <= Kept
<1>1. job.listed \in Pages \union {NotModified} /\ etag \in Pages \union {NoTag}
  BY DEF Typed, Run
<1>2. /\ job.listed \in Seq(Nat) /\ IsFiniteSet(Listed) /\ Listed \subseteq Keys
      /\ Cardinality(Listed) <= Len(job.listed)
  BY <1>1, PageType DEF Listed
<1>3. /\ etag \in Seq(Nat) /\ IsFiniteSet(ToSet(etag))
      /\ Cardinality(ToSet(etag)) <= Len(etag)
  BY <1>1, PageType DEF NoTag, NotModified
<1>4. stored \in Seq(Keys) /\ Len(stored) <= Kept
  BY DEF Typed
<1>5. /\ IsFiniteSet(ToSet(stored)) /\ Cardinality(ToSet(stored)) <= Len(stored)
      /\ Cardinality(ToSet(stored)) \in Nat /\ ToSet(stored) \subseteq Keys
  BY <1>4, SetOfSequence
<1>6. Kept \in Nat /\ Len(stored) \in Nat
  BY <1>4 DEF BacklogAssumption
<1> QED
  BY <1>2, <1>3, <1>4, <1>5, <1>6

LEMMA FetchArticlesInv ==
  ASSUME BacklogAssumption, BacklogInv,
         NEW read \in BOOLEAN, NEW taken \in SUBSET ToSet(job.listed),
         NEW got \in SUBSET taken, FetchArticles(read, taken, got)
  PROVE  BacklogInv'
<1> DEFINE known == IF read THEN bodies ELSE {}
           missing == Listed \ known
           again == Listed \intersect known \intersect recent
<1>1. /\ UNCHANGED <<page, selector, etag, stored, bodies, recent, backlog,
                     full, failed, barren>>
      /\ job.pc = "listed" /\ job.asks
      /\ job' = [job EXCEPT !.pc = "fetched", !.read = read, !.fetched = got,
                   !.left = missing \ taken,
                   !.had = Cardinality(Listed \intersect known),
                   !.failed = taken \ got, !.barren = (got \ known = {})]
  BY Zenon DEF FetchArticles, history, Listed
<1>2. /\ job \in Run /\ taken \subseteq Listed /\ got \subseteq taken
      /\ Listed \subseteq Keys /\ IsFiniteSet(Listed)
      /\ known \subseteq bodies
  BY Counting DEF BacklogInv, Typed, Listed
<1>3. Cardinality(Listed \intersect known) \in Nat
  BY <1>2, MoreCounted
<1> HIDE DEF known
<1>4. /\ job' \in Run /\ job'.pc = "fetched"
      /\ job'.asks = job.asks /\ job'.whole = job.whole
      /\ job'.listed = job.listed /\ job'.stale = job.stale
      /\ job'.read = read /\ job'.fetched = got /\ job'.left = missing \ taken
      /\ job'.had = Cardinality(Listed \intersect known)
      /\ job'.failed = taken \ got /\ (job'.barren <=> got \ known = {})
  <2>1. got \in SUBSET Keys /\ missing \ taken \in SUBSET Keys
        /\ taken \ got \in SUBSET Keys /\ (got \ known = {}) \in BOOLEAN
    BY <1>2
  <2>2. /\ "fetched" \in Phases /\ read \in BOOLEAN
    BY DEF Phases
  <2> HIDE DEF missing
  <2> QED
    BY <1>1, <1>2, <1>3, <2>1, <2>2 DEF Run
<1>5. Typed'
  BY <1>1, <1>4 DEF BacklogInv, Typed, Listed
<1>6. JobOK'
  BY <1>1, <1>4 DEF BacklogInv, JobOK
<1>7. Waiting' /\ Counted'
  BY <1>1, <1>4 DEF BacklogInv, Waiting, Counted, Unrecorded, Bodied
<1>8. FetchedOK'
  <2>1. Listed' = Listed /\ Obtained' = bodies \union got
    BY <1>1, <1>4 DEF Listed, Obtained
  <2>2. Listed \subseteq (bodies \union got) \union (taken \ got)
                          \union (missing \ taken)
    BY <1>2
  <2>3. got \ known # {} =>
          Cardinality(Listed \intersect (bodies \union got))
            > Cardinality(Listed \intersect known)
    <3>1. Listed \intersect known
            \subseteq Listed \intersect (bodies \union got)
      BY <1>2
    <3>2. got \ known # {} =>
            Listed \intersect (bodies \union got) # Listed \intersect known
      BY <1>2
    <3> QED
      BY <1>2, <3>1, <3>2, MoreCounted
  <2>4. read => known = bodies
    BY DEF known
  <2>5. got = {} => got \ known = {}
    OBVIOUS
  <2> HIDE DEF missing
  <2> QED
    BY <1>1, <1>4, <2>1, <2>2, <2>3, <2>4, <2>5 DEF FetchedOK
<1> QED
  BY <1>4, <1>5, <1>6, <1>7, <1>8 DEF BacklogInv, StoredOK, Unrecorded

\* How many requests for the whole page the next stored page makes.
LEMMA CountedNext ==
  ASSUME BacklogAssumption, BacklogInv, job.pc = "fetched", ~job.stale,
         job.listed # NotModified, Count(TRUE)
  PROVE  /\ full' \in Nat
         /\ full' <= 1 \/ full' <= Room(job.listed)
         /\ ~selector => full' = 0
         /\ job.asks => full' <= job.had + 1
<1> DEFINE before == IF job.listed = etag /\ job.read THEN full ELSE 0
<1>1. full' = before + (IF job.whole THEN 1 ELSE 0) /\ full \in Nat
      /\ job.had \in Nat
  BY DEF Count, BacklogInv, Typed, Run
<1>2. /\ job.asks <=> selector
      /\ job.whole <=> job.asks /\ backlog # "no"
      /\ ~job.whole => job.listed # etag
  BY DEF BacklogInv, JobOK
<1>3. CASE ~job.whole
  BY <1>1, <1>2, <1>3
<1>4. CASE job.whole /\ ~(job.listed = etag /\ job.read)
  BY <1>1, <1>2, <1>4
<1>5. CASE job.whole /\ job.listed = etag /\ job.read
  <2>1. etag # NoTag /\ selector /\ ~Unrecorded
    BY <1>2, <1>5 DEF NoTag, NotModified, Unrecorded
  <2>2. \/ backlog = "yes" /\ full <= Bodied /\ (full > 0 => Bodied < Room(etag))
        \/ full = 0
    BY <1>2, <1>5, <2>1 DEF BacklogInv, Typed, Counted
  <2>3. job.had = Bodied
    BY <1>2, <1>5 DEF BacklogInv, FetchedOK, Bodied, Listed
  <2>4. Room(etag) \in Int
    BY Counting DEF BacklogInv, Room, Lesser, BacklogAssumption
  <2> QED
    BY <1>1, <1>2, <1>5, <2>1, <2>2, <2>3, <2>4
<1> QED
  BY <1>3, <1>4, <1>5

\* What a stored page leaves of the row and its stories.
LEMMA StorePageType ==
  ASSUME BacklogAssumption, Typed, NEW answered \in BOOLEAN,
         StorePage(answered), full' \in Nat, UNCHANGED <<page, selector, backlog>>,
         job' \in Run, job'.left \subseteq ToSet(job'.listed)
  PROVE  Typed'
<1> DEFINE added == Listed \ ToSet(stored)
<1>0. job \in Run
  BY DEF Typed
<1>1. /\ etag' = job.listed
      /\ \E keys \in Ranked(added) : stored' = Retained(keys)
      /\ bodies' = Obtained \intersect ToSet(stored')
      /\ recent' = (recent \union added) \intersect ToSet(stored')
      /\ failed' = (IF job.listed = etag THEN failed ELSE {}) \union job.failed
      /\ barren' = (job.left # {} /\ (job.barren \/ ~answered))
  BY Zenon DEF StorePage, Count, Listed, Obtained
<1>2. /\ stored' \in Seq(Keys) /\ IsInjective(stored') /\ Len(stored') <= Kept
  <2>1. PICK keys \in Ranked(added) : stored' = Retained(keys)
    BY <1>1
  <2> DEFINE S == ToSet(stored) \union added
  <2>2. S \subseteq Keys /\ IsFiniteSet(S)
    BY Counting, FS_Union, FS_Subset
  <2>3. keys \in SetToSeqs(S)
    BY Zenon DEF Ranked
  <2> HIDE DEF S
  <2>4. /\ stored' \in Seq(S) /\ IsInjective(stored') /\ Len(stored') <= Kept
    BY <2>1, <2>2, <2>3, RetainedType
  <2> QED
    BY <2>2, <2>4
<1>3. job.listed \in Pages \union {NoTag} /\ job.failed \subseteq Keys
      /\ failed \subseteq Keys
  BY <1>0 DEF Run, Typed, NoTag, NotModified
<1>4. page' \in Pages /\ selector' \in BOOLEAN
      /\ backlog' \in {"yes", "no", "unknown"}
  BY DEF Typed
<1>5. failed' \subseteq Keys /\ barren' \in BOOLEAN
  BY <1>1, <1>3
<1>6. etag' \in Pages \union {NoTag}
  BY <1>1, <1>3
<1>7. bodies' \subseteq ToSet(stored') /\ recent' \subseteq ToSet(stored')
  BY <1>1
<1> QED
  BY <1>2, <1>4, <1>5, <1>6, <1>7 DEF Typed

LEMMA CompleteInv ==
  ASSUME BacklogAssumption, BacklogInv, Complete
  PROVE  BacklogInv'
<1> job.pc = "fetched" /\ UNCHANGED <<page, selector, backlog>>
  BY DEF Complete
<1> job \in Run /\ Typed
  BY DEF BacklogInv, Typed
<1>1. CASE job.stale
  <2>1. /\ job' = NoJob /\ job'.pc = "none"
        /\ UNCHANGED <<etag, stored, bodies, recent, full, failed, barren>>
    BY <1>1 DEF Complete, NoJob, history
  <2>2. Typed'
    BY <2>1, NoJobRun DEF Typed
  <2>3. Waiting' /\ Counted'
    BY <2>1 DEF BacklogInv, Waiting, Counted, Unrecorded, Bodied
  <2> QED
    BY <2>1, <2>2, <2>3 DEF BacklogInv, JobOK, FetchedOK, StoredOK, Unrecorded
<1>2. ASSUME ~job.stale
      PROVE  /\ job' = [job EXCEPT !.pc = "stored"]
             /\ job' \in Run /\ job'.pc = "stored"
             /\ job'.asks = job.asks /\ job'.whole = job.whole
             /\ job'.listed = job.listed /\ job'.stale = job.stale
             /\ job'.read = job.read /\ job'.fetched = job.fetched
             /\ job'.left = job.left /\ job'.had = job.had
             /\ job'.failed = job.failed /\ job'.barren = job.barren
  <2>1. job' = [job EXCEPT !.pc = "stored"]
    BY <1>2 DEF Complete
  <2> QED
    BY <2>1 DEF Run, Phases
<1>3. CASE ~job.stale /\ job.listed = NotModified
  <2>1. UNCHANGED <<etag, stored, bodies, recent, full, failed, barren>>
    BY <1>3 DEF Complete, history
  <2>2. Typed'
    BY <1>2, <1>3, <2>1 DEF Typed
  <2>3. Waiting' /\ Counted'
    BY <1>2, <1>3, <2>1 DEF BacklogInv, Waiting, Counted, Unrecorded, Bodied
  <2>4. JobOK'
    BY <1>2, <1>3, <2>1 DEF BacklogInv, JobOK
  <2> QED
    BY <1>2, <1>3, <2>2, <2>3, <2>4 DEF BacklogInv, FetchedOK, StoredOK, Unrecorded
<1>4. CASE ~job.stale /\ job.listed # NotModified
  <2>1. /\ StorePage(TRUE) /\ etag' = job.listed
        /\ bodies' = Obtained \intersect ToSet(stored')
        /\ barren' = (job.left # {} /\ job.barren)
        /\ job.failed \subseteq failed'
    BY <1>4, Zenon DEF Complete, StorePage, Count, Obtained
  <2>2. /\ full' \in Nat
        /\ full' <= 1 \/ full' <= Room(job.listed)
        /\ ~selector => full' = 0
        /\ job.asks => full' <= job.had + 1
    BY <1>4, <2>1, CountedNext DEF StorePage
  <2>3. job' \in Run /\ job'.left \subseteq ToSet(job'.listed)
    BY <1>2, <1>4 DEF Typed
  <2>5. Typed'
    BY <1>4, <2>1, <2>2, <2>3, StorePageType
  <2>6. Unrecorded' /\ etag' # NoTag /\ Listed' = Listed
    BY <1>2, <1>4, <2>1 DEF Unrecorded, NoTag, NotModified, Listed
  <2>7. JobOK'
    BY <1>2, <1>4, <2>6 DEF BacklogInv, JobOK
  <2>8. StoredOK'
    <3>1. ASSUME job.asks, Listed \subseteq ToSet(stored')
          PROVE  /\ Listed \subseteq bodies' \union failed' \union job.left
                 /\ ~barren' /\ job.left # {} =>
                      Bodied' > job.had /\ job.fetched # {}
      <4>1. /\ Listed \subseteq Obtained \union job.failed \union job.left
            /\ ~job.barren => Cardinality(Listed \intersect Obtained) > job.had
            /\ job.fetched = {} => job.barren
        BY <1>4, <3>1 DEF BacklogInv, FetchedOK
      <4>2. Listed \subseteq bodies' \union failed' \union job.left
        BY <2>1, <3>1, <4>1
      <4>3. Bodied' = Cardinality(Listed \intersect Obtained)
        <5>1. Listed \intersect bodies' = Listed \intersect Obtained
          BY <2>1, <3>1
        <5> QED
          BY <2>1, <5>1 DEF Bodied, Listed
      <4> QED
        BY <2>1, <4>1, <4>2, <4>3
    <3> QED
      BY <1>2, <1>4, <2>1, <2>2, <2>6, <3>1 DEF StoredOK
  <2>9. Waiting' /\ FetchedOK'
    BY <1>2, <1>4, <2>6 DEF Waiting, FetchedOK
  <2>10. Counted'
    BY <2>1, <2>2, <2>6 DEF Counted
  <2> QED
    BY <2>5, <2>7, <2>8, <2>9, <2>10 DEF BacklogInv
<1> QED
  BY <1>1, <1>3, <1>4

\* A lost answer: the count starts again, and the flag says nothing of the
\* stories that are left.
LEMMA LoseAnswerInv ==
  ASSUME BacklogAssumption, BacklogInv, LoseAnswer
  PROVE  BacklogInv'
<1>1. /\ job.pc = "fetched" /\ ~job.stale /\ job.listed # NotModified
      /\ job' = NoJob /\ job'.pc = "none" /\ StorePage(FALSE)
      /\ UNCHANGED <<page, selector, backlog>>
  BY DEF LoseAnswer, NoJob
<1>2. /\ etag' = job.listed /\ full' = 0
      /\ bodies' = Obtained \intersect ToSet(stored')
      /\ barren' = (job.left # {}) /\ job.failed \subseteq failed'
  BY <1>1, Zenon DEF StorePage, Count, Obtained
<1>3. Typed'
  BY <1>1, <1>2, NoJobRun, StorePageType DEF BacklogInv
<1>4. Waiting'
  <2> SUFFICES ASSUME selector, job.left = {}, ToSet(etag') \subseteq ToSet(stored')
               PROVE  ToSet(etag') \subseteq bodies' \union failed'
    BY <1>1, <1>2 DEF Waiting
  <2>1. job.asks /\ ToSet(etag') = Listed
    BY <1>1, <1>2 DEF BacklogInv, JobOK, Listed
  <2>2. Listed \subseteq Obtained \union job.failed
    BY <1>1, <2>1 DEF BacklogInv, FetchedOK
  <2> QED
    BY <1>2, <2>1, <2>2
<1>5. Counted'
  <2>1. Bodied' \in Nat
    <3>1. etag' \in Pages \union {NotModified}
      BY <1>3 DEF Typed, NoTag, NotModified
    <3>2. IsFiniteSet(ToSet(etag'))
      BY <3>1, PageType
    <3>3. Cardinality(ToSet(etag') \intersect bodies') \in Nat
      BY <3>2, MoreCounted
    <3> QED
      BY <3>3 DEF Bodied
  <2> QED
    BY <1>2, <2>1 DEF Counted
<1> QED
  BY <1>1, <1>3, <1>4, <1>5 DEF BacklogInv, JobOK, FetchedOK, StoredOK, Unrecorded

\* A left story that is stored without an article leaves room for another.
LEMMA RoomLeft ==
  ASSUME BacklogAssumption, Typed, etag = job.listed, Progressed(bodies)
  PROVE  Bodied < Room(etag)
<1>1. PICK k \in job.left : k \in ToSet(stored) /\ k \notin bodies
  BY DEF Progressed
<1>2. k \in ToSet(etag) /\ bodies \subseteq ToSet(stored)
  BY <1>1 DEF Typed
<1>3. Bodied \in Nat /\ Bodied < Cardinality(ToSet(etag))
  <2>1. ToSet(etag) \intersect bodies # ToSet(etag)
    BY <1>1, <1>2
  <2> QED
    BY <2>1, Counting, MoreCounted DEF Bodied
<1>4. Bodied < Cardinality(ToSet(stored))
  <2>1. bodies # ToSet(stored) /\ ToSet(etag) \intersect bodies \subseteq bodies
    BY <1>1
  <2>2. IsFiniteSet(ToSet(stored)) /\ IsFiniteSet(bodies)
    BY <1>2, Counting, FS_Subset
  <2>3. /\ Cardinality(bodies) \in Nat /\ Cardinality(ToSet(stored)) \in Nat
        /\ Cardinality(bodies) < Cardinality(ToSet(stored))
    BY <1>2, <2>1, <2>2, MoreCounted
  <2>4. Bodied <= Cardinality(bodies)
    BY <2>1, <2>2, MoreCounted DEF Bodied
  <2> QED
    BY <1>3, <2>3, <2>4
<1>5. /\ Cardinality(ToSet(etag)) \in Nat /\ Cardinality(ToSet(stored)) \in Nat
      /\ Cardinality(ToSet(etag)) <= Len(etag) /\ Len(etag) \in Nat
      /\ Cardinality(ToSet(stored)) <= Kept /\ Kept \in Nat
  BY Counting, FS_CardinalityType DEF BacklogAssumption
<1> QED
  BY <1>3, <1>4, <1>5 DEF Room, Lesser

LEMMA RecordBacklogInv ==
  ASSUME BacklogAssumption, BacklogInv, NEW read \in BOOLEAN, RecordBacklog(read)
  PROVE  BacklogInv'
<1> DEFINE progressed == job.left # {} /\ job.fetched # {} /\ read
                           /\ Progressed(bodies)
<1>1. /\ UNCHANGED <<page, selector, etag, stored, bodies, recent, full, failed>>
      /\ job.pc = "stored" /\ job' = NoJob /\ job'.pc = "none"
      /\ barren' = (barren \/ (~read /\ job.left # {}))
      /\ job.asks => backlog' = IF progressed THEN "yes" ELSE "no"
      /\ ~job.asks => backlog' = backlog
  BY DEF RecordBacklog, NoJob
<1> HIDE DEF progressed
<1>2. Typed'
  <2>1. backlog' \in {"yes", "no", "unknown"}
    BY <1>1 DEF BacklogInv, Typed
  <2>2. barren' \in BOOLEAN
    BY <1>1 DEF BacklogInv, Typed
  <2> QED
    BY <1>1, <2>1, <2>2, NoJobRun DEF BacklogInv, Typed
<1>3. CASE etag = NoTag
  <2>1. Waiting' /\ Counted'
    BY <1>1, <1>3 DEF BacklogInv, Waiting, Counted
  <2> QED
    BY <1>1, <1>2, <2>1 DEF BacklogInv, JobOK, FetchedOK, StoredOK, Unrecorded
<1>4. CASE ~selector
  <2>1. Waiting' /\ Counted'
    BY <1>1, <1>4 DEF BacklogInv, Waiting, Counted
  <2> QED
    BY <1>1, <1>2, <2>1 DEF BacklogInv, JobOK, FetchedOK, StoredOK, Unrecorded
<1>5. CASE etag # NoTag /\ selector
  <2>1. ~job.stale /\ job.asks
    BY <1>1, <1>5 DEF BacklogInv, JobOK
  <2>2. CASE job.listed = NotModified
    <3>1. job.left = {}
      BY <2>2 DEF BacklogInv, Typed, NotModified, ToSet
    <3>2. backlog = "no" /\ backlog' = "no"
      BY <1>1, <2>1, <2>2, <3>1 DEF BacklogInv, JobOK, progressed
    <3>3. (barren' <=> barren) /\ ~Unrecorded
      BY <1>1, <2>2, <3>1 DEF Unrecorded
    <3>4. Waiting' /\ Counted'
      BY <1>1, <3>2, <3>3 DEF BacklogInv, Waiting, Counted, Bodied
    <3> QED
      BY <1>1, <1>2, <3>4 DEF BacklogInv, JobOK, FetchedOK, StoredOK, Unrecorded
  <2>3. CASE job.listed # NotModified
    <3>1. /\ etag = job.listed
          /\ full <= job.had + 1
          /\ Listed \subseteq ToSet(stored) =>
               /\ Listed \subseteq bodies \union failed \union job.left
               /\ ~barren /\ job.left # {} => Bodied > job.had /\ job.fetched # {}
      BY <1>1, <2>1, <2>3 DEF BacklogInv, StoredOK, Unrecorded
    <3>2. Waiting'
      <4> SUFFICES ASSUME ~barren', ToSet(etag) \subseteq ToSet(stored),
                          backlog' = "no"
                   PROVE  ToSet(etag) \subseteq bodies \union failed
        BY <1>1 DEF Waiting
      <4>1. Listed \subseteq ToSet(stored) /\ Listed = ToSet(etag)
        BY <3>1 DEF Listed
      <4>2. job.left \subseteq Listed
        BY DEF BacklogInv, Typed, Listed
      <4>3. CASE job.left = {}
        BY <3>1, <4>1, <4>3
      <4>4. CASE job.left # {}
        <5>1. read /\ ~barren
          BY <1>1, <4>4
        <5>2. Bodied > job.had /\ job.fetched # {}
          BY <3>1, <4>1, <4>4, <5>1
        <5>3. ~Progressed(bodies)
          BY <1>1, <2>1, <4>4, <5>1, <5>2 DEF progressed
        <5>4. job.left \intersect ToSet(stored) \subseteq bodies
          BY <3>1, <5>2, <5>3 DEF Progressed, Bodied
        <5> QED
          BY <3>1, <4>1, <4>2, <5>4
      <4> QED
        BY <4>3, <4>4
    <3>3. Counted'
      <4>1. progressed => full <= Bodied /\ Bodied < Room(etag)
        <5> SUFFICES ASSUME progressed
                     PROVE  full <= Bodied /\ Bodied < Room(etag)
          OBVIOUS
        <5>1. Progressed(bodies) /\ Typed
          BY DEF progressed, BacklogInv
        <5>2. Bodied > job.had
          BY <3>1, <5>1 DEF Progressed, Bodied
        <5>3. full \in Nat /\ job.had \in Nat /\ Bodied \in Nat
          BY <5>1, Counting, MoreCounted DEF Typed, Run, Bodied
        <5> QED
          BY <3>1, <5>1, <5>2, <5>3, RoomLeft
      <4>2. backlog' = IF progressed THEN "yes" ELSE "no"
        BY <1>1, <2>1
      <4>3. /\ etag # NoTag => full <= 1 \/ full <= Room(etag)
            /\ ~selector => full = 0
        BY DEF BacklogInv, Counted
      <4> QED
        BY <1>1, <4>1, <4>2, <4>3 DEF Counted, Bodied, Room
    <3> QED
      BY <1>1, <1>2, <3>2, <3>3 DEF BacklogInv, JobOK, FetchedOK, StoredOK, Unrecorded
  <2> QED
    BY <2>2, <2>3
<1> QED
  BY <1>3, <1>4, <1>5

\* The source, and time.
LEMMA OutsideInv ==
  ASSUME BacklogInv, HourPasses \/ \E p \in Pages : PageChanges(p)
  PROVE  BacklogInv'
<1>1. /\ UNCHANGED <<selector, etag, stored, bodies, backlog, job,
                     full, failed, barren>>
      /\ page' \in Pages /\ (recent' = {} \/ recent' = recent)
  BY DEF HourPasses, PageChanges, history, BacklogInv, Typed
<1>2. Typed'
  BY <1>1 DEF BacklogInv, Typed
<1>3. JobOK' /\ FetchedOK' /\ StoredOK'
  BY <1>1 DEF BacklogInv, JobOK, FetchedOK, StoredOK, Unrecorded, Listed, Obtained,
              Bodied
<1>4. Waiting' /\ Counted'
  BY <1>1 DEF BacklogInv, Waiting, Counted, Unrecorded, Bodied
<1> QED
  BY <1>2, <1>3, <1>4 DEF BacklogInv

\* A save that keeps some of the stories.
LEMMA SaveFeedInv ==
  ASSUME BacklogAssumption, BacklogInv, NEW asks \in BOOLEAN,
         NEW clears \in BOOLEAN, NEW kept \in Seq(Keys), IsInjective(kept),
         Len(kept) <= Kept, SaveFeed(asks, clears, kept)
  PROVE  BacklogInv'
<1>1. /\ selector' = asks /\ etag' = NoTag /\ stored' = kept
      /\ bodies' \subseteq ToSet(kept) /\ recent' \subseteq ToSet(kept)
      /\ job' = [job EXCEPT !.stale = job.pc # "none"]
      /\ full' = 0 /\ failed' = {} /\ barren' = FALSE
      /\ UNCHANGED <<page, backlog>>
  BY DEF SaveFeed
<1>2. job \in Run
  BY DEF BacklogInv, Typed
<1>3. /\ job' \in Run /\ (job'.stale <=> job.pc # "none")
      /\ job'.pc = job.pc /\ job'.asks = job.asks /\ job'.whole = job.whole
      /\ job'.listed = job.listed /\ job'.left = job.left
  <2>1. (job.pc # "none") \in BOOLEAN
    OBVIOUS
  <2> QED
    BY <1>1, <1>2, <2>1 DEF Run
<1>4. Typed'
  BY <1>1, <1>3 DEF BacklogInv, Typed
<1>5. JobOK'
  BY <1>1, <1>3 DEF BacklogInv, JobOK
<1> QED
  BY <1>1, <1>3, <1>4, <1>5
  DEF BacklogInv, FetchedOK, StoredOK, Waiting, Counted, Unrecorded

LEMMA RestartInv ==
  ASSUME BacklogInv, Restart
  PROVE  BacklogInv'
<1>1. /\ UNCHANGED <<page, selector, etag, stored, bodies, recent, failed, barren>>
      /\ backlog' = "unknown" /\ job' = NoJob /\ job'.pc = "none" /\ full' = 0
  BY DEF Restart, NoJob
<1>2. Typed'
  BY <1>1, NoJobRun DEF BacklogInv, Typed
<1>3. Waiting' /\ Counted'
  BY <1>1 DEF Waiting, Counted
<1> QED
  BY <1>1, <1>2, <1>3 DEF BacklogInv, JobOK, FetchedOK, StoredOK, Unrecorded

LEMMA InvNext ==
  ASSUME BacklogAssumption, BacklogInv, [BacklogNext]_backlogVars
  PROVE  BacklogInv'
<1>1. CASE Request
  BY <1>1, RequestInv
<1>2. CASE EndUnstored
  BY <1>2, EndUnstoredInv
<1>3. CASE NoArticles
  BY <1>3, NoArticlesInv
<1>4. CASE Complete \/ LoseAnswer
  BY <1>4, CompleteInv, LoseAnswerInv
<1>5. ASSUME NEW read \in BOOLEAN, NEW taken \in SUBSET ToSet(job.listed),
             NEW got \in SUBSET taken, FetchArticles(read, taken, got)
      PROVE  BacklogInv'
  BY <1>5, FetchArticlesInv
<1>6. ASSUME NEW read \in BOOLEAN, RecordBacklog(read)
      PROVE  BacklogInv'
  BY <1>6, RecordBacklogInv
<1>7. CASE HourPasses \/ \E p \in Pages : PageChanges(p)
  BY <1>7, OutsideInv
<1>8. CASE Restart
  BY <1>8, RestartInv
<1>9. ASSUME NEW asks \in BOOLEAN, NEW clears \in {TRUE, asks # selector},
             SaveFeed(asks, clears, stored)
      PROVE  BacklogInv'
  BY <1>9, SaveFeedInv DEF BacklogInv, Typed
<1>10. CASE PruneStory
  <2>1. PICK i \in DOMAIN stored : SaveFeed(selector, FALSE, RemoveAt(stored, i))
    BY <1>10 DEF PruneStory
  <2>2. Typed
    BY DEF BacklogInv
  <2>3. selector \in BOOLEAN
    BY <2>2 DEF Typed
  <2> QED
    BY <2>1, <2>2, <2>3, PrunedType, SaveFeedInv
<1>11. CASE UNCHANGED backlogVars
  <2>1. Typed'
    BY <1>11 DEF BacklogInv, Typed, backlogVars
  <2>2. JobOK' /\ FetchedOK' /\ StoredOK'
    BY <1>11 DEF BacklogInv, JobOK, FetchedOK, StoredOK, Unrecorded, Listed,
                 Obtained, Bodied, backlogVars
  <2>3. Waiting' /\ Counted'
    BY <1>11 DEF BacklogInv, Waiting, Counted, Unrecorded, Bodied, backlogVars
  <2> QED
    BY <2>1, <2>2, <2>3 DEF BacklogInv
<1> QED
  BY <1>1, <1>2, <1>3, <1>4, <1>5, <1>6, <1>7, <1>8, <1>9, <1>10, <1>11, Zenon
  DEF BacklogNext

----------------------------------------------------------------------------
(* The properties. *)

LEMMA InvEnds ==
  ASSUME BacklogAssumption, BacklogInv
  PROVE  BacklogEnds
<1> SUFFICES ASSUME etag # NoTag
             PROVE  full <= Max({1, Min({Len(etag), Kept})})
  BY DEF BacklogEnds
<1> DEFINE low == Min({Len(etag), Kept})
           high == Max({1, low})
<1>1. Len(etag) \in Nat /\ Kept \in Nat /\ full \in Nat
  BY Counting DEF BacklogInv, Typed, BacklogAssumption
<1>2. low = Room(etag)
  <2>1. \E x \in {Len(etag), Kept} : \A y \in {Len(etag), Kept} : x <= y
    BY <1>1
  <2>2. low \in {Len(etag), Kept} /\ \A y \in {Len(etag), Kept} : low <= y
    BY <2>1 DEF Min
  <2> HIDE DEF low
  <2> QED
    BY <1>1, <2>2 DEF Room, Lesser
<1>3. low \in Nat
  BY <1>1, <1>2 DEF Room, Lesser
<1> HIDE DEF low
<1>4. 1 <= high /\ low <= high /\ high \in Nat
  <2>1. \E x \in {1, low} : \A y \in {1, low} : x >= y
    BY <1>3
  <2>2. high \in {1, low} /\ \A y \in {1, low} : high >= y
    BY <2>1 DEF Max
  <2> QED
    BY <1>3, <2>2
<1>5. full <= 1 \/ full <= low
  BY <1>2 DEF BacklogInv, Counted
<1> HIDE DEF high
<1>6. full <= high
  BY <1>1, <1>3, <1>4, <1>5
<1> QED
  BY <1>6 DEF high, low

LEMMA InvStranded ==
  ASSUME BacklogAssumption, BacklogInv
  PROVE  NoStoryStranded
<1> SUFFICES ASSUME selector, job = NoJob, ~barren,
                    ToSet(page) \subseteq ToSet(stored), etag = page,
                    backlog = "no"
             PROVE  ToSet(page) \subseteq bodies \union failed
  BY DEF NoStoryStranded
<1>1. ~Unrecorded
  BY DEF Unrecorded, NoJob
<1>2. etag # NoTag
  BY PageType DEF BacklogInv, Typed, NoTag, NotModified
<1> QED
  BY <1>1, <1>2 DEF BacklogInv, Waiting

LEMMA InvType ==
  ASSUME BacklogAssumption, BacklogInv
  PROVE  BacklogTypeOK
<1>1. Typed
  BY DEF BacklogInv
<1>2. ToSet(stored) \subseteq Keys
  BY <1>1, Counting
<1> QED
  BY <1>1, <1>2 DEF Typed, BacklogTypeOK, Run, Phases

LEMMA BacklogAlways == BacklogAssumption => (BacklogSpec => []BacklogInv)
<1> SUFFICES ASSUME BacklogAssumption PROVE BacklogSpec => []BacklogInv
  OBVIOUS
<1>1. BacklogInit => BacklogInv
  BY InvInit
<1>2. BacklogInv /\ [BacklogNext]_backlogVars => BacklogInv'
  BY InvNext
<1> QED
  BY <1>1, <1>2, PTL DEF BacklogSpec

\* The variables of the backlog keep their types, and no more stories are
\* stored than are kept.
THEOREM BacklogTyped == BacklogAssumption => (BacklogSpec => []BacklogTypeOK)
<1> SUFFICES ASSUME BacklogAssumption PROVE BacklogSpec => []BacklogTypeOK
  OBVIOUS
<1>1. BacklogInv => BacklogTypeOK
  BY InvType
<1>2. BacklogSpec => []BacklogInv
  BY BacklogAlways
<1> QED
  BY <1>1, <1>2, PTL

\* While its page stays the same a feed returns to conditional requests after
\* as many stored full refreshes as the page lists stories or the feed keeps,
\* whatever articles fail, whatever retention removes, and over lost answers,
\* each of which starts the count again (backlog.go).
THEOREM BacklogDrains == BacklogAssumption => (BacklogSpec => []BacklogEnds)
<1> SUFFICES ASSUME BacklogAssumption PROVE BacklogSpec => []BacklogEnds
  OBVIOUS
<1>1. BacklogInv => BacklogEnds
  BY InvEnds
<1>2. BacklogSpec => []BacklogInv
  BY BacklogAlways
<1> QED
  BY <1>1, <1>2, PTL

\* Behind a 304 no story waits for an article that was never tried, unless the
\* refresh that left it brought no article or recorded no flag, as when its
\* answer was lost (backlog.go, article.go).
THEOREM NothingStranded ==
  BacklogAssumption => (BacklogSpec => []NoStoryStranded)
<1> SUFFICES ASSUME BacklogAssumption PROVE BacklogSpec => []NoStoryStranded
  OBVIOUS
<1>1. BacklogInv => NoStoryStranded
  BY InvStranded
<1>2. BacklogSpec => []BacklogInv
  BY BacklogAlways
<1> QED
  BY <1>1, <1>2, PTL
=============================================================================
