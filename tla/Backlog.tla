------------------------------ MODULE Backlog ------------------------------
(***************************************************************************)
(* A full-content feed fetches the article page of each story, a few per   *)
(* refresh, and only of the stories its list page returned.  A source that *)
(* answers 304 returns none, so while stories wait for their article the   *)
(* list page is requested without its validators.  That must end: when     *)
(* articles fail, when retention removes the stories again, and when       *)
(* undated stories push each other out at every request.                   *)
(*                                                                         *)
(* One feed, fetched without a browser; a key is its place in the order    *)
(* that breaks ties.  Refresh and FeedOutput have the rest of a refresh.   *)
(***************************************************************************)
EXTENDS Naturals, FiniteSets, Sequences, SequencesExt, FiniteSetsExt

CONSTANTS
  Pages,     \* the list pages of the source: sequences of stories
  Dated,     \* the stories with a date of their own, all in the past
  Limit,     \* MaxArticlesPerRun
  Kept       \* MAX_ITEMS

Keys == UNION {ToSet(page) : page \in Pages}

VARIABLES
  page,      \* what the source lists
  selector,  \* whether Recipe.Full asks for articles
  etag,      \* the stored validator: the page it names, or none
  stored,    \* the stored stories, newest first
  bodies,    \* those with an article
  recent,    \* those first seen within the hour
  backlog,   \* Scheduler.backlog of the feed: "yes", "no" or unknown
  job,       \* its refresh
  \* History of the refreshes stored since the validator names its page.
  full,      \* those that asked for the whole page, since the start, a lost
             \* answer and a failed read of the stored articles
  failed,    \* stories whose article page failed
  barren     \* the last left stories, and brought no article or no flag

backlogVars == <<page, selector, etag, stored, bodies, recent, backlog, job,
                 full, failed, barren>>

history == <<full, failed, barren>>

NoTag == <<>>
NotModified == <<>>
NoJob == [pc |-> "none", asks |-> FALSE, whole |-> FALSE, listed |-> NotModified,
          stale |-> FALSE, read |-> TRUE, fetched |-> {}, left |-> {}, had |-> 0,
          failed |-> {}, barren |-> FALSE]

\* What the constants are; MCParts has it as its assumption.
BacklogAssumption ==
  /\ Limit \in Nat \ {0} /\ Kept \in Nat \ {0} /\ Pages # {}
  /\ \A p \in Pages : p \in Seq(Nat) /\ p # <<>> /\ IsInjective(p)

BacklogInit ==
  /\ page \in Pages /\ selector \in BOOLEAN /\ etag = NoTag
  /\ stored = <<>> /\ bodies = {} /\ recent = {} /\ backlog = "unknown"
  /\ job = NoJob /\ full = 0 /\ failed = {} /\ barren = FALSE

----------------------------------------------------------------------------
(* A refresh. *)

\* Wrong variant: only a recorded backlog asks for the whole page.
DrainingRecorded == selector /\ backlog = "yes"

Draining == selector /\ backlog # "no"

\* The list page is requested and read.
Request ==
  /\ job.pc = "none"
  /\ job' = [NoJob EXCEPT !.pc = "listed", !.asks = selector,
               !.whole = Draining,
               !.listed = IF ~Draining /\ etag = page THEN NotModified ELSE page]
  /\ UNCHANGED <<page, selector, etag, stored, bodies, recent, backlog, history>>

\* It could not be read, or the database refused it: nothing is stored, and no
\* flag follows.
EndUnstored ==
  /\ job.pc \in {"listed", "fetched"} /\ job' = NoJob
  /\ UNCHANGED <<page, selector, etag, stored, bodies, recent, backlog, history>>

\* j is before k in a sequence.
Before(s, j, k) == \E a, b \in DOMAIN s : a < b /\ s[a] = j /\ s[b] = k

\* The order articles are fetched in: those never fetched first.
Sooner(j, k, missing) ==
  \/ j \in missing /\ k \notin missing
  \/ (j \in missing <=> k \in missing) /\ Before(job.listed, j, k)

\* fetchArticles: read tells whether ArticleStates could be read, and without
\* it every story counts as never fetched; taken are those a worker took
\* before the deadline, got the ones that brought an article.
FetchArticles(read, taken, got) ==
  LET known == IF read THEN bodies ELSE {}
      missing == ToSet(job.listed) \ known
      again == ToSet(job.listed) \intersect known \intersect recent
  IN /\ job.pc = "listed" /\ job.asks
     /\ taken \subseteq missing \union again /\ Cardinality(taken) <= Limit
     /\ \A k \in taken : \A j \in missing \union again :
          Sooner(j, k, missing) => j \in taken
     /\ got \subseteq taken
     /\ job' = [job EXCEPT !.pc = "fetched", !.read = read, !.fetched = got,
                  !.left = missing \ taken,
                  !.had = Cardinality(ToSet(job.listed) \intersect known),
                  !.failed = taken \ got, !.barren = got \ known = {}]
     /\ UNCHANGED <<page, selector, etag, stored, bodies, recent, backlog,
                    history>>

NoArticles ==
  /\ job.pc = "listed" /\ ~job.asks /\ job' = [job EXCEPT !.pc = "fetched"]
  /\ UNCHANGED <<page, selector, etag, stored, bodies, recent, backlog, history>>

\* ORDER BY published DESC, key: an undated story is as new as its first
\* merge.
Newer(j, k, added) ==
  \/ j \notin Dated /\ k \in Dated
  \/ {j, k} \subseteq Dated /\ j < k
  \/ {j, k} \intersect Dated = {} /\ j \in added /\ (k \in added => j < k)
  \/ {j, k} \intersect (Dated \union added) = {} /\ Before(stored, j, k)

\* The stories in this order.
Ranked(added) ==
  {keys \in SetToSeqs(ToSet(stored) \union added) :
     \A a, b \in DOMAIN keys : a < b => Newer(keys[a], keys[b], added)}

\* Wrong variant: the stories merged now are kept beside MAX_ITEMS old ones.
RetainedBeside(keys) == SubSeq(keys, 1, Min({Kept + 1, Len(keys)}))

Retained(keys) == SubSeq(keys, 1, Min({Kept, Len(keys)}))

\* The history of a stored refresh that read a page.
Count(answered) ==
  LET same == job.listed = etag
  IN /\ full' = IF ~answered THEN 0
                 ELSE (IF same /\ job.read THEN full ELSE 0)
                      + (IF job.whole THEN 1 ELSE 0)
     /\ failed' = (IF same THEN failed ELSE {}) \union job.failed
     /\ barren' = (job.left # {} /\ (job.barren \/ ~answered))

\* A page that was read is stored; answered tells whether the scheduler learns
\* of the commit.
StorePage(answered) ==
  LET added == ToSet(job.listed) \ ToSet(stored)
  IN /\ Count(answered)
     /\ etag' = job.listed
     /\ \E keys \in Ranked(added) : stored' = Retained(keys)
     /\ bodies' = (bodies \union job.fetched) \intersect ToSet(stored')
     /\ recent' = (recent \union added) \intersect ToSet(stored')

\* CompleteWithDiagnostics stores a page that was read, or a 304.
Complete ==
  /\ job.pc = "fetched"
  /\ IF job.stale
     THEN job' = NoJob /\ UNCHANGED <<etag, stored, bodies, recent, history>>
     ELSE /\ job' = [job EXCEPT !.pc = "stored"]
          /\ IF job.listed = NotModified
             THEN UNCHANGED <<etag, stored, bodies, recent, history>>
             ELSE StorePage(TRUE)
  /\ UNCHANGED <<page, selector, backlog>>

\* PostgreSQL has committed, and its answer is lost: the page is stored, and
\* taken for a refused one, so recordBacklog does not follow.
LoseAnswer ==
  /\ job.pc = "fetched" /\ ~job.stale /\ job.listed # NotModified
  /\ job' = NoJob /\ StorePage(FALSE)
  /\ UNCHANGED <<page, selector, backlog>>

\* Wrong variant: it is enough that a story is left and an article came.
ProgressedAny(known) == TRUE

\* progressed: known is the stories stored with an article.
Progressed(known) ==
  /\ Cardinality(ToSet(job.listed) \intersect known) > job.had
  /\ \E k \in job.left : k \in ToSet(stored) /\ k \notin known

\* recordBacklog; read tells whether progressed could read the stories.
RecordBacklog(read) ==
  /\ job.pc = "stored" /\ job' = NoJob
  /\ IF job.asks
     THEN backlog' = IF /\ job.left # {} /\ job.fetched # {}
                        /\ read /\ Progressed(bodies)
                     THEN "yes" ELSE "no"
     ELSE UNCHANGED backlog
  /\ barren' = (barren \/ (~read /\ job.left # {}))
  /\ UNCHANGED <<page, selector, etag, stored, bodies, recent, full, failed>>

----------------------------------------------------------------------------
(* The source, time, the editor and the process. *)

PageChanges(p) ==
  /\ p # page /\ page' = p
  /\ UNCHANGED <<selector, etag, stored, bodies, recent, backlog, job, history>>

HourPasses ==
  /\ recent # {} /\ recent' = {}
  /\ UNCHANGED <<page, selector, etag, stored, bodies, backlog, job, history>>

\* A save: it clears the validators, and the articles when it asks for other
\* ones; of the history it leaves the stories kept.
SaveFeed(asks, clears, kept) ==
  /\ selector' = asks /\ etag' = NoTag /\ stored' = kept
  /\ bodies' = IF clears THEN {} ELSE bodies \intersect ToSet(kept)
  /\ recent' = recent \intersect ToSet(kept)
  /\ job' = [job EXCEPT !.stale = job.pc # "none"]
  /\ full' = 0 /\ failed' = {} /\ barren' = FALSE
  /\ UNCHANGED <<page, backlog>>

\* A save that prunes, here one story at a time.
PruneStory == \E i \in DOMAIN stored : SaveFeed(selector, FALSE, RemoveAt(stored, i))

\* The flags live in memory.
Restart ==
  /\ backlog' = "unknown" /\ job' = NoJob /\ full' = 0
  /\ UNCHANGED <<page, selector, etag, stored, bodies, recent, failed, barren>>

BacklogNext ==
  \/ Request \/ EndUnstored \/ NoArticles \/ Complete \/ LoseAnswer
  \/ \E read \in BOOLEAN, taken \in SUBSET ToSet(job.listed) :
       \E got \in SUBSET taken : FetchArticles(read, taken, got)
  \/ \E read \in BOOLEAN : RecordBacklog(read)
  \/ \E p \in Pages : PageChanges(p)
  \/ HourPasses \/ Restart
  \/ \E asks \in BOOLEAN :
       \E clears \in {TRUE, asks # selector} : SaveFeed(asks, clears, stored)
  \/ PruneStory

BacklogSpec == BacklogInit /\ [][BacklogNext]_backlogVars

----------------------------------------------------------------------------
(* Properties. *)

BacklogTypeOK ==
  /\ page \in Pages /\ selector \in BOOLEAN /\ etag \in Pages \union {NoTag}
  /\ IsInjective(stored) /\ ToSet(stored) \subseteq Keys /\ Len(stored) <= Kept
  /\ bodies \subseteq ToSet(stored) /\ recent \subseteq ToSet(stored)
  /\ backlog \in {"yes", "no", "unknown"}
  /\ job.pc \in {"none", "listed", "fetched", "stored"}
  /\ job.listed \in Pages \union {NotModified} /\ job.whole \in BOOLEAN
  /\ job.fetched \subseteq Keys /\ job.left \subseteq Keys
  /\ full \in Nat /\ failed \subseteq Keys /\ barren \in BOOLEAN

\* While the page stays the same the validators are left out of no more stored
\* refreshes than the page lists stories or the feed keeps.  One the database
\* refused is made again and not counted, and one whose answer was lost starts
\* the count again: neither changes the flag.
BacklogEnds == etag # NoTag => full <= Max({1, Min({Len(etag), Kept})})

\* Behind a 304 no story waits for an article that was never tried, over
\* restarts and edits: the next request is unconditional, or every listed
\* story has its article, or its page failed.  Excused are a feed whose
\* retention keeps less than the page lists, and a refresh that left stories
\* and either brought no article or recorded no flag, its answer lost or the
\* stories unread, until the next one reads the page.
NoStoryStranded ==
  selector /\ job = NoJob /\ ~barren /\ ToSet(page) \subseteq ToSet(stored) =>
    \/ etag # page
    \/ backlog # "no"
    \/ ToSet(page) \subseteq bodies \union failed
=============================================================================
