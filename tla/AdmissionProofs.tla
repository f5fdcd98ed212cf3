-------------------------- MODULE AdmissionProofs --------------------------
(***************************************************************************)
(* What an admission promises, proved of Admission for every number of     *)
(* jobs, workers and slots: that a request is made under one, and what a   *)
(* job that holds one may still wait for.                                  *)
(***************************************************************************)
EXTENDS Admission, FiniteSetTheorems, SequenceTheorems, TLAPS

----------------------------------------------------------------------------
(* The inductive invariant. *)

\* While reserve has read the client and not yet decided, the job it decides on
\* is one that a worker is free for.
Deciding ==
  mu # NoHolder =>
    /\ UsesSolver(mu.kind) /\ mu.job \notin Active
    /\ Cardinality(Active) < Workers

\* What needs an admission to FlareSolverr: a job until its list page is there,
\* and one whose articles are rendered there as well.
AsksSolver(r) ==
  \/ /\ r.pc \in {"list_wait", "list_use", "listed", "article_wait",
                  "article_use"}
     /\ UsesSolver(r.kind)
  \/ r.pc = "solved" /\ r.ok /\ ArticlesUseSolver(r.kind)

\* What needs one to Chromium, in a refresh.
AsksChromium(r) ==
  /\ RendersPages(r.kind)
  /\ \/ r.pc \in {"static", "list_wait", "list_use", "listed", "article_wait",
                  "article_use"}
     \/ r.pc = "solved"

Admitted(j) ==
  /\ AsksSolver(job[j]) => j \in solving
  /\ AsksChromium(job[j]) /\ j \in Feeds => j \in rendering

\* A static request is one of a static or an Auto job.
StaticKind(r) == r.pc = "static" => ~UsesSolver(r.kind)

\* No admission beyond the slots, but for those an interrupted request kept
\* since.
SolverRoom ==
  solving # excused => Cardinality(solving) + cooling <= SolverSlots

Inv ==
  /\ TypeOK /\ IsFiniteSet(Active) /\ Deciding /\ SolverRoom
  /\ Cardinality(rendering) <= ChromiumSlots
  /\ \A j \in Jobs : Admitted(j) /\ StaticKind(job[j])

----------------------------------------------------------------------------
(* Sets of jobs. *)

JobType ==
  [pc: {"idle", "static", "list_wait", "list_use", "listed", "solved",
        "article_wait", "article_use", "fetched", "save", "saved", "finished"},
   kind: AllKinds, ok: BOOLEAN, left: 0..MaxArticles]
DueType == [feed: Feeds, kind: Kinds]
Held(m) ==
  m = NoHolder \/ m \in [job: Jobs, kind: Kinds, active: 0..SolverSlots]

InUse(r) == r.pc \in {"list_use", "article_use"}

\* Every set of jobs is finite, and the jobs with a request or a render are
\* active.
LEMMA JobSetsFinite ==
  ASSUME Inv
  PROVE  /\ Requests \subseteq Active /\ Renders \subseteq Active
         /\ IsFiniteSet(Requests) /\ IsFiniteSet(Renders)
         /\ IsFiniteSet(solving) /\ IsFiniteSet(rendering)
         /\ Cardinality(Active) \in Nat /\ Cardinality(Requests) \in Nat
         /\ Cardinality(Renders) \in Nat
         /\ Cardinality(solving) \in Nat /\ Cardinality(rendering) \in Nat
<1>1. /\ IsFiniteSet(Active) /\ solving \subseteq Active
      /\ rendering \subseteq Active
  BY DEF Inv, TypeOK
<1>2. Requests \subseteq Active /\ Renders \subseteq Active
  BY DEF Requests, Renders, Using, Active
<1>3. /\ IsFiniteSet(Requests) /\ IsFiniteSet(Renders)
      /\ IsFiniteSet(solving) /\ IsFiniteSet(rendering)
  BY <1>1, <1>2, FS_Subset
<1> QED  BY <1>1, <1>2, <1>3, FS_CardinalityType

\* One job moves: what becomes of the sets.
LEMMA JobMoves ==
  ASSUME job \in [Jobs -> JobType], NEW j \in Jobs, NEW r \in JobType,
         job' = [job EXCEPT ![j] = r]
  PROVE  /\ job' \in [Jobs -> JobType] /\ job'[j] = r
         /\ \A i \in Jobs \ {j} : job'[i] = job[i]
         /\ Active' = IF r.pc = "idle" THEN Active \ {j} ELSE Active \union {j}
         /\ Requests' = IF InUse(r) /\ UsesSolver(r.kind)
                        THEN Requests \union {j} ELSE Requests \ {j}
         /\ Renders' = IF InUse(r) /\ ~UsesSolver(r.kind)
                       THEN Renders \union {j} ELSE Renders \ {j}
<1>1. /\ job' \in [Jobs -> JobType] /\ job'[j] = r
      /\ \A i \in Jobs \ {j} : job'[i] = job[i]
  OBVIOUS
<1>2. Active' = {i \in Jobs : job'[i].pc # "idle"}
  BY DEF Active
<1>3. Active' = IF r.pc = "idle" THEN Active \ {j} ELSE Active \union {j}
  BY <1>1, <1>2 DEF Active
<1>4. /\ Requests = {i \in Jobs : InUse(job[i]) /\ UsesSolver(job[i].kind)}
      /\ Renders = {i \in Jobs : InUse(job[i]) /\ ~UsesSolver(job[i].kind)}
  BY DEF Requests, Renders, Using, InUse
<1>5. /\ Requests' = {i \in Jobs : InUse(job'[i]) /\ UsesSolver(job'[i].kind)}
      /\ Renders' = {i \in Jobs : InUse(job'[i]) /\ ~UsesSolver(job'[i].kind)}
  BY DEF Requests, Renders, Using, InUse, UsesSolver
<1>6. Requests' = IF InUse(r) /\ UsesSolver(r.kind)
                  THEN Requests \union {j} ELSE Requests \ {j}
  BY <1>1, <1>4, <1>5
<1>7. Renders' = IF InUse(r) /\ ~UsesSolver(r.kind)
                 THEN Renders \union {j} ELSE Renders \ {j}
  BY <1>1, <1>4, <1>5
<1> QED  BY <1>1, <1>3, <1>6, <1>7

\* The slots stay enough when no request starts.
LEMMA SlotsEnough ==
  ASSUME Inv, Requests' \subseteq Requests, Renders' \subseteq Renders,
         cooling' = cooling, leaving' = leaving
  PROVE  Used' <= SolverSlots /\ Cardinality(Renders') <= ChromiumSlots
<1>1. /\ Cardinality(Requests') <= Cardinality(Requests)
      /\ Cardinality(Renders') <= Cardinality(Renders)
      /\ IsFiniteSet(Requests') /\ IsFiniteSet(Renders')
  BY JobSetsFinite, FS_Subset
<1>2. Cardinality(Requests') \in Nat /\ Cardinality(Renders') \in Nat
  BY <1>1, FS_CardinalityType
<1>3. /\ cooling \in Nat /\ leaving \in Nat /\ Used <= SolverSlots
      /\ Cardinality(Renders) <= ChromiumSlots
  BY DEF Inv, TypeOK
<1>4. Used' = Cardinality(Requests') + cooling' + leaving'
  BY DEF Used
<1> QED  BY <1>1, <1>2, <1>3, <1>4, JobSetsFinite, AdmissionAssumption DEF Used

\* A job that holds an admission to fewer slots than there are taken leaves
\* room: what SolverRoom asks of a set of admissions that only shrinks.
LEMMA RoomStays ==
  ASSUME Inv, solving' \subseteq solving, cooling' \in Nat, cooling' <= cooling,
         solving' # excused' => solving # excused
  PROVE  SolverRoom'
<1>1. /\ Cardinality(solving') <= Cardinality(solving)
      /\ IsFiniteSet(solving') /\ Cardinality(solving) \in Nat
  BY JobSetsFinite, FS_Subset
<1>2. Cardinality(solving') \in Nat
  BY <1>1, FS_CardinalityType
<1>3. cooling \in Nat
  BY DEF Inv, TypeOK
<1> QED  BY <1>1, <1>2, <1>3, AdmissionAssumption DEF Inv, SolverRoom

\* What a step of a running job preserves.
LEMMA RunStep ==
  ASSUME Inv, NEW j \in Active, NEW r \in JobType, r.pc # "idle",
         job' = [job EXCEPT ![j] = r],
         solving' \in {solving, solving \ {j}},
         rendering' \in {rendering, rendering \ {j}},
         excused' \subseteq solving',
         Used' <= SolverSlots, Cardinality(Renders') <= ChromiumSlots,
         cooling' \in Nat, leaving' \in Nat, SolverRoom', mu' = mu,
         due' \in Seq(DueType), list' \in Seq(DueType),
         finished' \subseteq Feeds, arrivals' \in 0..MaxArrivals,
         AsksSolver(r) => j \in solving',
         AsksChromium(r) /\ j \in Feeds => j \in rendering', StaticKind(r)
  PROVE  Inv'
<1>1. /\ TypeOK /\ IsFiniteSet(Active) /\ Deciding
      /\ Cardinality(rendering) <= ChromiumSlots
      /\ \A i \in Jobs : Admitted(i) /\ StaticKind(job[i])
  BY DEF Inv
<1>2. job \in [Jobs -> JobType] /\ j \in Jobs
  BY <1>1 DEF TypeOK, JobType, Active
<1>3. /\ job' \in [Jobs -> JobType] /\ job'[j] = r
      /\ \A i \in Jobs \ {j} : job'[i] = job[i]
      /\ Active' = Active
  <2>1. /\ job' \in [Jobs -> JobType] /\ job'[j] = r
        /\ \A i \in Jobs \ {j} : job'[i] = job[i]
    BY <1>2
  <2>2. Active' = Active
    BY <1>2, <2>1 DEF Active
  <2> QED  BY <2>1, <2>2
<1>4. TypeOK'
  <2>1. /\ Cardinality(Active') <= Workers
        /\ solving' \subseteq Active' /\ rendering' \subseteq Active'
    BY <1>1, <1>3 DEF TypeOK
  <2>2. Held(mu')
    BY <1>1 DEF TypeOK, Held
  <2> QED  BY <1>3, <2>1, <2>2 DEF TypeOK, JobType, DueType, NoHolder, Held
<1>5. IsFiniteSet(Active') /\ Deciding'
  BY <1>1, <1>3 DEF Deciding, NoHolder, UsesSolver
<1>6. Cardinality(rendering') <= ChromiumSlots
  <2>1. /\ IsFiniteSet(rendering) /\ Cardinality(rendering) \in Nat
        /\ rendering' \subseteq rendering
    BY JobSetsFinite
  <2>2. IsFiniteSet(rendering') /\ Cardinality(rendering') <= Cardinality(rendering)
    BY <2>1, FS_Subset
  <2>3. Cardinality(rendering') \in Nat
    BY <2>2, FS_CardinalityType
  <2> QED  BY <1>1, <2>1, <2>2, <2>3, AdmissionAssumption
<1>7. ASSUME NEW i \in Jobs
      PROVE  Admitted(i)' /\ StaticKind(job[i])'
  <2>1. CASE i = j
    BY <1>3, <2>1
       DEF Admitted, StaticKind, AsksSolver, AsksChromium, UsesSolver,
           ArticlesUseSolver, RendersPages, ArticlesUseChromium
  <2>2. CASE i # j
    <3>1. /\ job'[i] = job[i] /\ (i \in solving' <=> i \in solving)
          /\ (i \in rendering' <=> i \in rendering)
      BY <1>3, <2>2
    <3> QED
      BY <1>1, <3>1
         DEF Admitted, StaticKind, AsksSolver, AsksChromium, UsesSolver,
             ArticlesUseSolver, RendersPages, ArticlesUseChromium
  <2> QED  BY <2>1, <2>2
<1> QED  BY <1>4, <1>5, <1>6, <1>7 DEF Inv

\* A step that moves a running job and changes nothing else.
LEMMA OnlyJob ==
  ASSUME Inv, NEW j \in Active, NEW r \in JobType, r.pc # "idle",
         job' = [job EXCEPT ![j] = r],
         UNCHANGED <<solving, rendering, mu, cooling, leaving, due, list,
                     finished, arrivals, excused>>,
         Used' <= SolverSlots, Cardinality(Renders') <= ChromiumSlots,
         AsksSolver(r) => j \in solving,
         AsksChromium(r) /\ j \in Feeds => j \in rendering, StaticKind(r)
  PROVE  Inv'
<1>1. /\ excused' \subseteq solving' /\ cooling' \in Nat /\ leaving' \in Nat
      /\ due' \in Seq(DueType) /\ list' \in Seq(DueType)
      /\ finished' \subseteq Feeds /\ arrivals' \in 0..MaxArrivals
  BY DEF Inv, TypeOK, DueType
<1>2. SolverRoom'
  BY DEF Inv, SolverRoom
<1> QED  BY <1>1, <1>2, RunStep

\* The row of a job that fetches a page, whatever its next step.
LEMMA Rows ==
  ASSUME Inv, NEW j \in Jobs, job[j].pc # "idle"
  PROVE  /\ j \in Active /\ job[j] \in JobType
         /\ AsksSolver(job[j]) => j \in solving
         /\ AsksChromium(job[j]) /\ j \in Feeds => j \in rendering
         /\ job[j].pc = "static" => ~UsesSolver(job[j].kind)
BY DEF Inv, TypeOK, JobType, Active, Admitted, StaticKind

\* A request that is not made any more leaves its slot.
LEMMA NoRequest ==
  ASSUME Inv, NEW j \in Jobs, NEW r \in JobType, ~InUse(r),
         job' = [job EXCEPT ![j] = r]
  PROVE  Requests' = Requests \ {j} /\ Renders' = Renders \ {j}
<1>1. job \in [Jobs -> JobType]
  BY DEF Inv, TypeOK, JobType
<1> QED  BY <1>1, JobMoves

LEMMA FetchStaticOK ==
  ASSUME Inv, NEW j \in Jobs, FetchStatic(j)
  PROVE  Inv'
<1>1. At(j, "static")
      /\ UNCHANGED <<solving, rendering, mu, cooling, leaving, due, list,
                     finished, arrivals, excused>>
  BY DEF FetchStatic
<1>2. /\ j \in Active /\ job[j] \in JobType /\ ~UsesSolver(job[j].kind)
      /\ AsksChromium(job[j]) /\ j \in Feeds => j \in rendering
  BY <1>1, Rows DEF At
<1>3. PICK r \in JobType :
        /\ job' = [job EXCEPT ![j] = r]
        /\ r.pc \in {"listed", "list_wait"} /\ r.kind = job[j].kind
  <2>1. CASE \E ok \in BOOLEAN :
               job' = [job EXCEPT ![j].pc = "listed", ![j].ok = ok]
    <3>1. PICK ok \in BOOLEAN :
            job' = [job EXCEPT ![j].pc = "listed", ![j].ok = ok]
      BY <2>1
    <3>2. [job[j] EXCEPT !.pc = "listed", !.ok = ok] \in JobType
      BY <1>2 DEF JobType
    <3>3. job' = [job EXCEPT ![j] = [job[j] EXCEPT !.pc = "listed", !.ok = ok]]
      BY <3>1 DEF Inv, TypeOK
    <3>4. /\ [job[j] EXCEPT !.pc = "listed", !.ok = ok].pc = "listed"
          /\ [job[j] EXCEPT !.pc = "listed", !.ok = ok].kind = job[j].kind
      BY <1>2 DEF JobType
    <3> QED  BY <3>2, <3>3, <3>4
  <2>2. CASE Goes(j, "list_wait")
    <3>1. job' = [job EXCEPT ![j] = [job[j] EXCEPT !.pc = "list_wait"]]
      BY <2>2 DEF Goes, Inv, TypeOK
    <3>2. /\ [job[j] EXCEPT !.pc = "list_wait"] \in JobType
          /\ [job[j] EXCEPT !.pc = "list_wait"].pc = "list_wait"
          /\ [job[j] EXCEPT !.pc = "list_wait"].kind = job[j].kind
      BY <1>2 DEF JobType
    <3> QED  BY <3>1, <3>2
  <2> QED  BY <2>1, <2>2 DEF FetchStatic
<1>4. Requests' \subseteq Requests /\ Renders' \subseteq Renders
  BY <1>3, NoRequest DEF InUse
<1>5. Used' <= SolverSlots /\ Cardinality(Renders') <= ChromiumSlots
  BY <1>1, <1>4, SlotsEnough
<1>6. /\ ~AsksSolver(r)
      /\ AsksChromium(r) => AsksChromium(job[j])
      /\ StaticKind(r)
  <2>1. ~UsesSolver(r.kind) /\ r.pc \in {"listed", "list_wait"}
    BY <1>2, <1>3
  <2>2. AsksChromium(r) => AsksChromium(job[j])
    BY <1>1, <1>3 DEF At, AsksChromium
  <2> QED  BY <2>1, <2>2 DEF AsksSolver, StaticKind
<1> QED  BY <1>1, <1>2, <1>3, <1>5, <1>6, OnlyJob

\* A job that asks for no more pages, and one that has none.
LEMMA FetchedRow ==
  /\ Idle \in JobType /\ Idle.pc = "idle"
  /\ [Idle EXCEPT !.pc = "fetched"] \in JobType
  /\ [Idle EXCEPT !.pc = "fetched"].pc = "fetched"
<1>1. 0 \in 0..MaxArticles
  BY AdmissionAssumption
<1>2. Idle \in JobType /\ Idle.pc = "idle"
  BY <1>1 DEF JobType, Idle, AllKinds
<1> QED  BY <1>2 DEF JobType

\* What a request that is over leaves of its job's row.
AskedBefore(j, r) ==
  /\ job' = [job EXCEPT ![j] = r]
  /\ r.pc \in {"listed", "article_wait", "fetched"}
  /\ AsksSolver(r) => AsksSolver(job[j])
  /\ AsksChromium(r) => AsksChromium(job[j])

LEMMA OverRow ==
  ASSUME Inv, NEW j \in Waiting \union Using, NEW S \in SUBSET BOOLEAN,
         Over(j, S)
  PROVE  \E r \in JobType : AskedBefore(j, r)
<1>1. /\ j \in Jobs /\ job[j].pc # "idle"
      /\ job[j].pc \in {"list_wait", "list_use", "article_wait", "article_use"}
  BY DEF Waiting, Using
<1>2. job[j] \in JobType /\ job \in [Jobs -> JobType]
  BY <1>1 DEF Inv, TypeOK, JobType
<1>3. CASE job[j].pc \in {"list_wait", "list_use"}
  <2>1. PICK ok \in S :
          job' = [job EXCEPT ![j].pc = "listed", ![j].ok = ok]
    BY <1>3 DEF Over
  <2> DEFINE r == [job[j] EXCEPT !.pc = "listed", !.ok = ok]
  <2>2. r \in JobType /\ r.pc = "listed" /\ r.kind = job[j].kind
    BY <1>2 DEF JobType
  <2>3. job' = [job EXCEPT ![j] = r]
    BY <1>2, <2>1
  <2> HIDE DEF r
  <2>4. /\ AsksSolver(r) => AsksSolver(job[j])
        /\ AsksChromium(r) => AsksChromium(job[j])
    BY <1>3, <2>2 DEF AsksSolver, AsksChromium
  <2> QED  BY <2>2, <2>3, <2>4 DEF AskedBefore
<1>4. CASE job[j].pc \notin {"list_wait", "list_use"}
  <2>1. CASE /\ job[j].left > 1
             /\ job' = [job EXCEPT ![j].pc = "article_wait", ![j].left = @ - 1]
    <3> DEFINE r == [job[j] EXCEPT !.pc = "article_wait", !.left = @ - 1]
    <3>1. job[j].left - 1 \in 0..MaxArticles
      BY <1>2, <2>1, AdmissionAssumption DEF JobType
    <3>2. r \in JobType /\ r.pc = "article_wait" /\ r.kind = job[j].kind
      BY <1>2, <3>1 DEF JobType
    <3>3. job' = [job EXCEPT ![j] = r]
      BY <1>2, <2>1
    <3> HIDE DEF r
    <3>4. /\ AsksSolver(r) => AsksSolver(job[j])
          /\ AsksChromium(r) => AsksChromium(job[j])
      BY <1>1, <1>4, <3>2 DEF AsksSolver, AsksChromium
    <3> QED  BY <3>2, <3>3, <3>4 DEF AskedBefore
  <2>2. CASE Fetched(j)
    <3> DEFINE r == [Idle EXCEPT !.pc = "fetched"]
    <3>1. r \in JobType /\ r.pc = "fetched"
      BY FetchedRow
    <3>2. job' = [job EXCEPT ![j] = r]
      BY <2>2 DEF Fetched
    <3> HIDE DEF r
    <3>3. ~AsksSolver(r) /\ ~AsksChromium(r)
      BY <3>1 DEF AsksSolver, AsksChromium
    <3> QED  BY <3>1, <3>2, <3>3 DEF AskedBefore
  <2> QED  BY <1>4, <2>1, <2>2 DEF Over
<1> QED  BY <1>3, <1>4

\* A request that is over, and nothing else.
LEMMA OverOK ==
  ASSUME Inv, NEW j \in Waiting \union Using, NEW S \in SUBSET BOOLEAN,
         Over(j, S),
         UNCHANGED <<solving, rendering, mu, cooling, leaving, due, list,
                     finished, arrivals, excused>>
  PROVE  Inv'
<1>1. j \in Jobs /\ job[j].pc # "idle"
  BY DEF Waiting, Using
<1>2. PICK r \in JobType : AskedBefore(j, r)
  BY OverRow
<1>3. /\ job' = [job EXCEPT ![j] = r] /\ r.pc # "idle" /\ ~InUse(r)
      /\ StaticKind(r)
  BY <1>2 DEF AskedBefore, InUse, StaticKind
<1>4. Requests' \subseteq Requests /\ Renders' \subseteq Renders
  BY <1>1, <1>3, NoRequest
<1>5. Used' <= SolverSlots /\ Cardinality(Renders') <= ChromiumSlots
  BY <1>4, SlotsEnough
<1>6. /\ j \in Active /\ (AsksSolver(r) => j \in solving)
      /\ AsksChromium(r) /\ j \in Feeds => j \in rendering
  BY <1>1, <1>2, Rows DEF AskedBefore
<1> QED  BY <1>3, <1>5, <1>6, OnlyJob

LEMMA GiveUpOK ==
  ASSUME Inv, NEW j \in Jobs, GiveUp(j)
  PROVE  Inv'
BY OverOK DEF GiveUp

LEMMA AnswerOK ==
  ASSUME Inv, NEW j \in Jobs, Answer(j)
  PROVE  Inv'
BY OverOK DEF Answer

\* The slot of an interrupted request is kept: as many are taken as before.
LEMMA InterruptOK ==
  ASSUME Inv, NEW j \in Jobs, Interrupt(j)
  PROVE  Inv'
<1>1. /\ j \in Requests /\ j \in Using /\ job[j].pc # "idle"
      /\ Over(j, {FALSE}) /\ cooling' = cooling + 1 /\ excused' = solving
      /\ UNCHANGED <<solving, rendering, mu, leaving, due, list, finished,
                     arrivals>>
  BY DEF Interrupt, Requests, Using
<1>2. PICK r \in JobType : AskedBefore(j, r)
  BY <1>1, OverRow
<1>3. /\ job' = [job EXCEPT ![j] = r] /\ r.pc # "idle" /\ ~InUse(r)
      /\ StaticKind(r)
  BY <1>2 DEF AskedBefore, InUse, StaticKind
<1>4. Requests' = Requests \ {j} /\ Renders' = Renders \ {j}
  BY <1>3, NoRequest
<1>5. Used' <= SolverSlots
  <2>1. /\ IsFiniteSet(Requests) /\ Cardinality(Requests) \in Nat
        /\ cooling \in Nat /\ leaving \in Nat /\ Used <= SolverSlots
    BY JobSetsFinite DEF Inv, TypeOK
  <2>2. Cardinality(Requests \ {j}) = Cardinality(Requests) - 1
    BY <1>1, <2>1, FS_RemoveElement
  <2>3. Used' = Cardinality(Requests \ {j}) + (cooling + 1) + leaving
    BY <1>1, <1>4 DEF Used
  <2> QED  BY <2>1, <2>2, <2>3, AdmissionAssumption DEF Used
<1>6. Cardinality(Renders') <= ChromiumSlots
  <2>1. /\ IsFiniteSet(Renders) /\ Cardinality(Renders) <= ChromiumSlots
        /\ Cardinality(Renders) \in Nat
    BY JobSetsFinite DEF Inv, TypeOK
  <2>2. /\ IsFiniteSet(Renders')
        /\ Cardinality(Renders') <= Cardinality(Renders)
    BY <1>4, <2>1, FS_Subset
  <2>3. Cardinality(Renders') \in Nat
    BY <2>2, FS_CardinalityType
  <2> QED  BY <2>1, <2>2, <2>3, AdmissionAssumption
<1>7. /\ j \in Active /\ (AsksSolver(r) => j \in solving)
      /\ AsksChromium(r) /\ j \in Feeds => j \in rendering
  BY <1>1, <1>2, Rows DEF AskedBefore
<1>8. /\ excused' \subseteq solving' /\ cooling' \in Nat /\ leaving' \in Nat
      /\ due' \in Seq(DueType) /\ list' \in Seq(DueType)
      /\ finished' \subseteq Feeds /\ arrivals' \in 0..MaxArrivals
  BY <1>1 DEF Inv, TypeOK, DueType
<1>9. SolverRoom'
  BY <1>1 DEF SolverRoom
<1> QED  BY <1>1, <1>3, <1>5, <1>6, <1>7, <1>8, <1>9, RunStep

\* A request starts only when a slot is free.
LEMMA AcquireOK ==
  ASSUME Inv, NEW j \in Jobs, Acquire(j)
  PROVE  Inv'
<1> DEFINE r == [job[j] EXCEPT !.pc =
                   IF At(j, "list_wait") THEN "list_use" ELSE "article_use"]
<1>1. /\ j \in Waiting /\ job[j].pc \in {"list_wait", "article_wait"}
      /\ IF UsesSolver(job[j].kind) THEN Used < SolverSlots
         ELSE Cardinality(Renders) < ChromiumSlots
      /\ Goes(j, IF At(j, "list_wait") THEN "list_use" ELSE "article_use")
      /\ UNCHANGED <<solving, rendering, mu, cooling, leaving, due, list,
                     finished, arrivals, excused>>
  BY DEF Acquire, Waiting
<1>2. /\ j \in Active /\ job[j] \in JobType /\ job \in [Jobs -> JobType]
      /\ AsksSolver(job[j]) => j \in solving
      /\ AsksChromium(job[j]) /\ j \in Feeds => j \in rendering
  BY <1>1, Rows DEF Inv, TypeOK, JobType
<1>3. /\ r \in JobType /\ r.pc \in {"list_use", "article_use"}
      /\ r.kind = job[j].kind
  BY <1>2 DEF JobType
<1>4. job' = [job EXCEPT ![j] = r]
  BY <1>1, <1>2 DEF Goes
<1> HIDE DEF r
<1>5. /\ AsksSolver(r) => AsksSolver(job[j])
      /\ AsksChromium(r) => AsksChromium(job[j])
      /\ StaticKind(r) /\ r.pc # "idle" /\ InUse(r)
  BY <1>1, <1>3 DEF AsksSolver, AsksChromium, StaticKind, InUse
<1>6. /\ Requests' = IF UsesSolver(r.kind)
                     THEN Requests \union {j} ELSE Requests \ {j}
      /\ Renders' = IF ~UsesSolver(r.kind)
                    THEN Renders \union {j} ELSE Renders \ {j}
  BY <1>2, <1>3, <1>4, <1>5, JobMoves
<1>7. j \notin Requests /\ j \notin Renders
  BY <1>1 DEF Requests, Renders, Using
<1>8. /\ IsFiniteSet(Requests) /\ Cardinality(Requests) \in Nat
      /\ IsFiniteSet(Renders) /\ Cardinality(Renders) \in Nat
      /\ cooling \in Nat /\ leaving \in Nat /\ Used <= SolverSlots
      /\ Cardinality(Renders) <= ChromiumSlots
  BY JobSetsFinite DEF Inv, TypeOK
<1>9. Used' = Cardinality(Requests') + cooling + leaving
  BY <1>1 DEF Used
<1>10. Used' <= SolverSlots /\ Cardinality(Renders') <= ChromiumSlots
  <2>1. CASE UsesSolver(job[j].kind)
    <3>1. Requests' = Requests \union {j} /\ Renders' = Renders
      BY <1>3, <1>6, <1>7, <2>1
    <3>2. Cardinality(Requests') = Cardinality(Requests) + 1
      BY <1>7, <1>8, <3>1, FS_AddElement
    <3>3. Used < SolverSlots /\ Used = Cardinality(Requests) + cooling + leaving
      BY <1>1, <2>1 DEF Used
    <3> QED  BY <1>8, <1>9, <3>1, <3>2, <3>3, AdmissionAssumption
  <2>2. CASE ~UsesSolver(job[j].kind)
    <3>1. Requests' = Requests /\ Renders' = Renders \union {j}
      BY <1>3, <1>6, <1>7, <2>2
    <3>2. Cardinality(Renders') = Cardinality(Renders) + 1
      BY <1>7, <1>8, <3>1, FS_AddElement
    <3>3. /\ Cardinality(Renders) < ChromiumSlots
          /\ Used = Cardinality(Requests) + cooling + leaving
      BY <1>1, <2>2 DEF Used
    <3> QED  BY <1>8, <1>9, <3>1, <3>2, <3>3, AdmissionAssumption
  <2> QED  BY <2>1, <2>2
<1>11. /\ AsksSolver(r) => j \in solving
       /\ AsksChromium(r) /\ j \in Feeds => j \in rendering
       /\ UNCHANGED <<solving, rendering, mu, cooling, leaving, due, list,
                      finished, arrivals, excused>>
  BY <1>1, <1>2, <1>5
<1>12. r.pc # "idle" /\ StaticKind(r) /\ j \in Active
  BY <1>2, <1>5
<1> QED  BY <1>3, <1>4, <1>10, <1>11, <1>12, OnlyJob

----------------------------------------------------------------------------
(* The rest of a job. *)

\* A step of a job that makes no request after it: what is left to show.
LEMMA IdleStep ==
  ASSUME Inv, NEW j \in Jobs, job[j].pc # "idle",
         NEW r \in JobType, r.pc # "idle", ~InUse(r),
         job' = [job EXCEPT ![j] = r],
         solving' \in {solving, solving \ {j}},
         rendering' \in {rendering, rendering \ {j}},
         excused' = excused \intersect solving',
         UNCHANGED <<mu, cooling, leaving, list>>,
         due' \in Seq(DueType),
         finished' \subseteq Feeds, arrivals' \in 0..MaxArrivals,
         AsksSolver(r) => j \in solving',
         AsksChromium(r) /\ j \in Feeds => j \in rendering', StaticKind(r)
  PROVE  Inv'
<1>1. /\ excused \subseteq solving /\ cooling \in Nat /\ leaving \in Nat
      /\ list \in Seq(DueType) /\ j \in Active
  BY Rows DEF Inv, TypeOK, DueType
<1>2. Requests' \subseteq Requests /\ Renders' \subseteq Renders
  BY NoRequest
<1>3. Used' <= SolverSlots /\ Cardinality(Renders') <= ChromiumSlots
  BY <1>2, SlotsEnough
<1>4. SolverRoom'
  BY <1>1, RoomStays
<1>5. /\ cooling' \in Nat /\ leaving' \in Nat /\ list' \in Seq(DueType)
      /\ excused' \subseteq solving'
  BY <1>1
<1> QED  BY <1>1, <1>3, <1>4, <1>5, RunStep

\* A job goes on to another step and keeps its row.
LEMMA GoesRow ==
  ASSUME Inv, NEW j \in Jobs, job[j].pc # "idle",
         NEW pc \in {"solved", "save", "saved", "finished"}, Goes(j, pc)
  PROVE  \E r \in JobType :
           /\ job' = [job EXCEPT ![j] = r] /\ r.pc = pc
           /\ r.kind = job[j].kind /\ r.ok = job[j].ok
<1>1. job[j] \in JobType /\ job \in [Jobs -> JobType]
  BY DEF Inv, TypeOK, JobType
<1>2. job' = [job EXCEPT ![j] = [job[j] EXCEPT !.pc = pc]]
  BY <1>1 DEF Goes
<1>3. /\ [job[j] EXCEPT !.pc = pc] \in JobType
      /\ [job[j] EXCEPT !.pc = pc].pc = pc
      /\ [job[j] EXCEPT !.pc = pc].kind = job[j].kind
      /\ [job[j] EXCEPT !.pc = pc].ok = job[j].ok
  BY <1>1 DEF JobType
<1> QED  BY <1>2, <1>3

LEMMA DoneWithSolverOK ==
  ASSUME Inv, NEW j \in Jobs, DoneWithSolver(j)
  PROVE  Inv'
<1>1. /\ job[j].pc = "listed" /\ Goes(j, "solved")
      /\ IF KeepsSolver(j) THEN UNCHANGED <<solving, excused>>
         ELSE solving' = solving \ {j} /\ excused' = excused \ {j}
      /\ UNCHANGED <<rendering, mu, cooling, leaving, due, list, finished,
                     arrivals>>
  BY DEF DoneWithSolver, At
<1>2. PICK r \in JobType :
        /\ job' = [job EXCEPT ![j] = r] /\ r.pc = "solved"
        /\ r.kind = job[j].kind /\ r.ok = job[j].ok
  BY <1>1, GoesRow
<1>3. /\ job[j] \in JobType /\ (AsksSolver(job[j]) => j \in solving)
      /\ AsksChromium(job[j]) /\ j \in Feeds => j \in rendering
  BY <1>1, Rows
<1>4. /\ r.pc # "idle" /\ ~InUse(r) /\ StaticKind(r)
      /\ AsksChromium(r) => AsksChromium(job[j])
      /\ AsksSolver(r) => KeepsSolver(j) /\ AsksSolver(job[j])
  BY <1>1, <1>2 DEF InUse, StaticKind, AsksChromium, AsksSolver, KeepsSolver,
                    ArticlesUseSolver, UsesSolver
<1>5. /\ excused \subseteq solving /\ due' \in Seq(DueType)
      /\ finished' \subseteq Feeds /\ arrivals' \in 0..MaxArrivals
  BY <1>1 DEF Inv, TypeOK, DueType
<1>6. /\ solving' \in {solving, solving \ {j}}
      /\ excused' = excused \intersect solving'
      /\ AsksSolver(r) => j \in solving'
      /\ rendering' \in {rendering, rendering \ {j}}
      /\ AsksChromium(r) /\ j \in Feeds => j \in rendering'
  BY <1>1, <1>3, <1>4, <1>5
<1> QED  BY <1>1, <1>2, <1>4, <1>5, <1>6, IdleStep

LEMMA DoneWithChromiumOK ==
  ASSUME Inv, NEW j \in Jobs, DoneWithChromium(j)
  PROVE  Inv'
<1>1. /\ job[j].pc = "solved"
      /\ rendering' = IF KeepsChromium(j) THEN rendering ELSE rendering \ {j}
      /\ UNCHANGED <<solving, mu, cooling, leaving, due, list, finished,
                     arrivals, excused>>
  BY DEF DoneWithChromium, At
<1>2. /\ job[j] \in JobType /\ job \in [Jobs -> JobType]
      /\ AsksSolver(job[j]) => j \in solving
      /\ AsksChromium(job[j]) /\ j \in Feeds => j \in rendering
  BY <1>1, Rows DEF Inv, TypeOK, JobType
<1>3. /\ excused' = excused \intersect solving' /\ due' \in Seq(DueType)
      /\ finished' \subseteq Feeds /\ arrivals' \in 0..MaxArrivals
      /\ solving' \in {solving, solving \ {j}}
      /\ rendering' \in {rendering, rendering \ {j}}
  BY <1>1 DEF Inv, TypeOK, DueType
<1>4. CASE Fetched(j)
  <2> DEFINE r == [Idle EXCEPT !.pc = "fetched"]
  <2>1. r \in JobType /\ r.pc = "fetched"
    BY FetchedRow
  <2>2. job' = [job EXCEPT ![j] = r]
    BY <1>4 DEF Fetched
  <2> HIDE DEF r
  <2>3. /\ r.pc # "idle" /\ ~InUse(r) /\ StaticKind(r)
        /\ ~AsksSolver(r) /\ ~AsksChromium(r)
    BY <2>1 DEF InUse, StaticKind, AsksSolver, AsksChromium
  <2> QED  BY <1>1, <1>3, <2>1, <2>2, <2>3, IdleStep
<1>5. CASE /\ job[j].ok
           /\ ArticlesUseSolver(job[j].kind) \/ ArticlesUseChromium(job[j].kind)
           /\ \E left \in 1..MaxArticles :
                job' = [job EXCEPT ![j].pc = "article_wait", ![j].left = left]
  <2>1. PICK left \in 1..MaxArticles :
          job' = [job EXCEPT ![j].pc = "article_wait", ![j].left = left]
    BY <1>5
  <2> DEFINE r == [job[j] EXCEPT !.pc = "article_wait", !.left = left]
  <2>2. left \in 0..MaxArticles
    BY AdmissionAssumption
  <2>3. r \in JobType /\ r.pc = "article_wait" /\ r.kind = job[j].kind
    BY <1>2, <2>2 DEF JobType
  <2>4. job' = [job EXCEPT ![j] = r]
    BY <1>2, <2>1
  <2> HIDE DEF r
  <2>5. AsksSolver(r) => AsksSolver(job[j])
    BY <1>1, <1>5, <2>3 DEF AsksSolver, UsesSolver, ArticlesUseSolver,
                            ArticlesUseChromium
  <2>6. AsksChromium(r) => AsksChromium(job[j]) /\ KeepsChromium(j)
    BY <1>1, <1>5, <2>3 DEF AsksChromium, KeepsChromium, RendersPages,
                            ArticlesUseChromium, ArticlesUseSolver
  <2>7. r.pc # "idle" /\ ~InUse(r) /\ StaticKind(r)
    BY <2>3 DEF InUse, StaticKind
  <2>8. /\ AsksSolver(r) => j \in solving'
        /\ AsksChromium(r) /\ j \in Feeds => j \in rendering'
    BY <1>1, <1>2, <2>5, <2>6
  <2> QED  BY <1>1, <1>3, <2>3, <2>4, <2>7, <2>8, IdleStep
<1> QED
  <2>1. \/ Fetched(j)
        \/ /\ job[j].ok
           /\ ArticlesUseSolver(job[j].kind) \/ ArticlesUseChromium(job[j].kind)
           /\ \E left \in 1..MaxArticles :
                job' = [job EXCEPT ![j].pc = "article_wait", ![j].left = left]
    BY Zenon DEF DoneWithChromium
  <2> QED  BY <2>1, <1>4, <1>5

LEMMA ArticlesFetchedOK ==
  ASSUME Inv, NEW f \in Feeds, ArticlesFetched(f)
  PROVE  Inv'
<1>1. /\ f \in Jobs /\ job[f].pc = "fetched" /\ Goes(f, "save")
      /\ rendering' = rendering \ {f}
      /\ UNCHANGED <<solving, mu, cooling, leaving, due, list, finished,
                     arrivals, excused>>
  BY DEF ArticlesFetched, At, Jobs
<1>2. PICK r \in JobType : job' = [job EXCEPT ![f] = r] /\ r.pc = "save"
  BY <1>1, GoesRow
<1>3. /\ r.pc # "idle" /\ ~InUse(r) /\ StaticKind(r)
      /\ ~AsksSolver(r) /\ ~AsksChromium(r)
  BY <1>2 DEF InUse, StaticKind, AsksSolver, AsksChromium
<1>4. /\ excused' = excused \intersect solving' /\ due' \in Seq(DueType)
      /\ finished' \subseteq Feeds /\ arrivals' \in 0..MaxArrivals
      /\ solving' \in {solving, solving \ {f}}
      /\ rendering' \in {rendering, rendering \ {f}}
  BY <1>1 DEF Inv, TypeOK, DueType
<1> QED  BY <1>1, <1>2, <1>3, <1>4, IdleStep

\* A feed taken out of the due ones leaves them a list of due feeds.
LEMMA NotDueType ==
  ASSUME Inv, NEW f \in Feeds
  PROVE  NotDue(f) \in Seq(DueType)
<1>1. due \in Seq(DueType)
  BY DEF Inv, TypeOK, DueType
<1>2. CASE f \in DueFeeds
  <2> DEFINE n == CHOOSE i \in DOMAIN due : due[i].feed = f
  <2>1. n \in 1..Len(due)
    <3>1. \E i \in DOMAIN due : due[i].feed = f
      BY <1>1, <1>2 DEF DueFeeds, Range
    <3> QED  BY <1>1, <3>1
  <2>2. NotDue(f) = SubSeq(due, 1, n - 1) \o SubSeq(due, n + 1, Len(due))
    BY <1>2, Zenon DEF NotDue, RemoveAt
  <2> HIDE DEF n
  <2>3. SubSeq(due, 1, n - 1) \in Seq(DueType)
    BY <1>1, <2>1, SubSeqProperties
  <2>4. SubSeq(due, n + 1, Len(due)) \in Seq(DueType)
    BY <1>1, <2>1, SubSeqProperties
  <2> QED  BY <2>2, <2>3, <2>4, ConcatProperties
<1>3. CASE f \notin DueFeeds
  BY <1>1, <1>3 DEF NotDue
<1> QED  BY <1>2, <1>3

LEMMA SaveOK ==
  ASSUME Inv, NEW f \in Feeds, Save(f)
  PROVE  Inv'
<1>1. /\ f \in Jobs /\ job[f].pc = "save" /\ Goes(f, "saved")
      /\ UNCHANGED <<solving, rendering, mu, cooling, leaving, list, finished,
                     excused>>
  BY DEF Save, At, Jobs
<1>2. due' \in Seq(DueType) /\ arrivals' \in 0..MaxArrivals
  <2>1. CASE due' = NotDue(f) /\ UNCHANGED arrivals
    BY <2>1, NotDueType DEF Inv, TypeOK
  <2>2. CASE /\ arrivals < MaxArrivals /\ arrivals' = arrivals + 1
             /\ \E kind \in Kinds :
                  due' = Append(NotDue(f), [feed |-> f, kind |-> kind])
    <3>1. arrivals' \in 0..MaxArrivals
      BY <2>2, AdmissionAssumption DEF Inv, TypeOK
    <3>2. PICK kind \in Kinds :
            due' = Append(NotDue(f), [feed |-> f, kind |-> kind])
      BY <2>2
    <3>3. [feed |-> f, kind |-> kind] \in DueType
      BY DEF DueType
    <3> QED  BY <3>1, <3>2, <3>3, NotDueType, AppendProperties
  <2> QED  BY <2>1, <2>2 DEF Save
<1>3. PICK r \in JobType : job' = [job EXCEPT ![f] = r] /\ r.pc = "saved"
  BY <1>1, GoesRow
<1>4. /\ r.pc # "idle" /\ ~InUse(r) /\ StaticKind(r)
      /\ ~AsksSolver(r) /\ ~AsksChromium(r)
  BY <1>3 DEF InUse, StaticKind, AsksSolver, AsksChromium
<1>5. /\ excused' = excused \intersect solving' /\ finished' \subseteq Feeds
      /\ solving' \in {solving, solving \ {f}}
      /\ rendering' \in {rendering, rendering \ {f}}
  BY <1>1 DEF Inv, TypeOK
<1> QED  BY <1>1, <1>2, <1>3, <1>4, <1>5, IdleStep

LEMMA FinishOK ==
  ASSUME Inv, NEW f \in Feeds, Finish(f)
  PROVE  Inv'
<1>1. /\ f \in Jobs /\ job[f].pc = "saved" /\ Goes(f, "finished")
      /\ finished' = finished \union {f}
      /\ UNCHANGED <<solving, rendering, mu, cooling, leaving, due, list,
                     arrivals, excused>>
  BY DEF Finish, At, Jobs
<1>2. PICK r \in JobType : job' = [job EXCEPT ![f] = r] /\ r.pc = "finished"
  BY <1>1, GoesRow
<1>3. /\ r.pc # "idle" /\ ~InUse(r) /\ StaticKind(r)
      /\ ~AsksSolver(r) /\ ~AsksChromium(r)
  BY <1>2 DEF InUse, StaticKind, AsksSolver, AsksChromium
<1>4. /\ excused' = excused \intersect solving' /\ due' \in Seq(DueType)
      /\ finished' \subseteq Feeds /\ arrivals' \in 0..MaxArrivals
      /\ solving' \in {solving, solving \ {f}}
      /\ rendering' \in {rendering, rendering \ {f}}
  BY <1>1 DEF Inv, TypeOK, DueType
<1> QED  BY <1>1, <1>2, <1>3, <1>4, IdleStep

\* A job that ends gives back what it was admitted to.
LEMMA ReleaseOK ==
  ASSUME Inv, NEW j \in Jobs, Release(j)
  PROVE  Inv'
<1>1. /\ job[j].pc \in {"finished", "fetched"}
      /\ job' = [job EXCEPT ![j] = Idle]
      /\ solving' = solving \ {j} /\ rendering' = rendering \ {j}
      /\ excused' = excused \ {j}
      /\ UNCHANGED <<mu, cooling, leaving, due, list, finished, arrivals>>
  BY DEF Release, At, Released
<1>2. /\ TypeOK /\ IsFiniteSet(Active) /\ Deciding /\ j \in Active
      /\ Cardinality(rendering) <= ChromiumSlots
      /\ job \in [Jobs -> JobType]
      /\ \A i \in Jobs : Admitted(i) /\ StaticKind(job[i])
  BY <1>1 DEF Inv, TypeOK, JobType, Active
<1>3. Idle \in JobType /\ Idle.pc = "idle" /\ ~InUse(Idle)
  BY FetchedRow DEF InUse
<1>4. /\ job' \in [Jobs -> JobType] /\ job'[j] = Idle
      /\ \A i \in Jobs \ {j} : job'[i] = job[i]
      /\ Active' = Active \ {j}
      /\ Requests' = Requests \ {j} /\ Renders' = Renders \ {j}
  BY <1>1, <1>2, <1>3, JobMoves
<1>5. Used' <= SolverSlots /\ Cardinality(Renders') <= ChromiumSlots
  BY <1>1, <1>4, SlotsEnough
<1>6. /\ IsFiniteSet(Active') /\ Cardinality(Active') <= Cardinality(Active)
      /\ Cardinality(Active') \in Nat
      /\ Cardinality(rendering') <= Cardinality(rendering)
      /\ Cardinality(rendering') \in Nat
  <2>1. IsFiniteSet(rendering) /\ rendering' \subseteq rendering
    BY <1>1, JobSetsFinite
  <2>2. /\ IsFiniteSet(rendering')
        /\ Cardinality(rendering') <= Cardinality(rendering)
    BY <2>1, FS_Subset
  <2>3. IsFiniteSet(Active') /\ Cardinality(Active') <= Cardinality(Active)
    BY <1>2, <1>4, FS_Subset
  <2> QED  BY <2>2, <2>3, FS_CardinalityType
<1>7. /\ Cardinality(Active) \in Nat /\ Cardinality(rendering) \in Nat
      /\ Cardinality(Active) <= Workers
  BY JobSetsFinite DEF Inv, TypeOK
<1>8. TypeOK'
  <2>1. Cardinality(Active') <= Workers
    BY <1>6, <1>7, AdmissionAssumption
  <2>2. /\ solving' \subseteq Active' /\ rendering' \subseteq Active'
        /\ excused' \subseteq solving'
    BY <1>1, <1>2, <1>4 DEF TypeOK
  <2>3. Held(mu')
    BY <1>1, <1>2 DEF TypeOK, Held
  <2>4. /\ cooling' \in Nat /\ leaving' \in Nat
        /\ due' \in Seq([feed: Feeds, kind: Kinds])
        /\ list' \in Seq([feed: Feeds, kind: Kinds])
        /\ finished' \subseteq Feeds /\ arrivals' \in 0..MaxArrivals
    BY <1>1, <1>2 DEF TypeOK
  <2>5. job' \in [Jobs -> JobType]
    BY <1>4
  <2> QED
    BY <1>5, <2>1, <2>2, <2>3, <2>4, <2>5 DEF TypeOK, JobType, NoHolder, Held
<1>9. Deciding'
  <2>1. CASE mu = NoHolder
    BY <1>1, <2>1 DEF Deciding, NoHolder
  <2>2. CASE mu # NoHolder
    <3>1. /\ UsesSolver(mu.kind) /\ mu.job \notin Active
          /\ Cardinality(Active) < Workers
      BY <1>2, <2>2 DEF Deciding
    <3>2. Cardinality(Active') < Workers
      BY <1>6, <1>7, <3>1, AdmissionAssumption
    <3>3. UsesSolver(mu'.kind) /\ mu'.job \notin Active'
      BY <1>1, <1>4, <3>1
    <3> QED  BY <3>2, <3>3 DEF Deciding, UsesSolver
  <2> QED  BY <2>1, <2>2
<1>10. SolverRoom'
  <2>1. solving' # excused' => solving # excused
    BY <1>1
  <2>2. cooling' \in Nat /\ cooling' <= cooling
    BY <1>1, <1>2 DEF TypeOK
  <2> QED  BY <1>1, <2>1, <2>2, RoomStays
<1>11. ASSUME NEW i \in Jobs
       PROVE  Admitted(i)' /\ StaticKind(job[i])'
  <2>1. CASE i = j
    BY <1>3, <1>4, <2>1
       DEF Admitted, StaticKind, AsksSolver, AsksChromium, UsesSolver,
           ArticlesUseSolver, RendersPages, ArticlesUseChromium
  <2>2. CASE i # j
    <3>1. /\ job'[i] = job[i] /\ (i \in solving' <=> i \in solving)
          /\ (i \in rendering' <=> i \in rendering)
      BY <1>1, <1>4, <2>2
    <3> QED
      BY <1>2, <3>1
         DEF Admitted, StaticKind, AsksSolver, AsksChromium, UsesSolver,
             ArticlesUseSolver, RendersPages, ArticlesUseChromium
  <2> QED  BY <2>1, <2>2
<1>12. Cardinality(rendering') <= ChromiumSlots
  BY <1>2, <1>6, <1>7, AdmissionAssumption
<1> QED  BY <1>6, <1>8, <1>9, <1>10, <1>11, <1>12 DEF Inv

----------------------------------------------------------------------------
(* The slots that are kept, the due feeds and the tick. *)

\* What no change of the jobs and the admissions disturbs.
LEMMA NoJobMoves ==
  ASSUME Inv, UNCHANGED <<job, solving, rendering, excused>>,
         Deciding', SolverRoom', Used' <= SolverSlots,
         cooling' \in Nat, leaving' \in Nat,
         Held(mu'),
         due' \in Seq(DueType), list' \in Seq(DueType),
         finished' \subseteq Feeds, arrivals' \in 0..MaxArrivals
  PROVE  Inv'
<1>1. /\ TypeOK /\ IsFiniteSet(Active)
      /\ Cardinality(rendering) <= ChromiumSlots
      /\ \A i \in Jobs : Admitted(i) /\ StaticKind(job[i])
  BY DEF Inv
<1>2. Active' = Active /\ Renders' = Renders
  <2>1. Active' = Active
    BY DEF Active
  <2>2. Using' = Using
    BY DEF Using
  <2>3. Requests' = Requests
    BY <2>2 DEF Requests, UsesSolver
  <2> QED  BY <2>1, <2>2, <2>3 DEF Renders
<1>3. TypeOK'
  BY <1>1, <1>2 DEF TypeOK, DueType, NoHolder, Held
<1>4. \A i \in Jobs : Admitted(i)' /\ StaticKind(job[i])'
  BY <1>1 DEF Admitted, StaticKind, AsksSolver, AsksChromium, UsesSolver,
              ArticlesUseSolver, RendersPages, ArticlesUseChromium
<1> QED  BY <1>1, <1>2, <1>3, <1>4 DEF Inv

LEMMA SameRequests ==
  ASSUME Inv, job' = job
  PROVE  Requests' = Requests /\ Cardinality(Requests) \in Nat
<1>1. Requests' = Requests
  BY DEF Requests, Using, UsesSolver
<1> QED  BY <1>1, JobSetsFinite

LEMMA CoolingOverOK ==
  ASSUME Inv, CoolingOver
  PROVE  Inv'
<1>1. /\ cooling > 0 /\ cooling' = cooling - 1 /\ leaving' = leaving + 1
      /\ UNCHANGED <<job, solving, rendering, mu, due, list, finished, arrivals,
                     excused>>
  BY DEF CoolingOver
<1>2. /\ cooling \in Nat /\ leaving \in Nat /\ Used <= SolverSlots
      /\ due \in Seq(DueType) /\ list \in Seq(DueType)
      /\ finished \subseteq Feeds /\ arrivals \in 0..MaxArrivals
      /\ Held(mu)
  BY DEF Inv, TypeOK, DueType, Held
<1>3. cooling' \in Nat /\ leaving' \in Nat /\ cooling' <= cooling
  BY <1>1, <1>2
<1>4. Used' <= SolverSlots
  BY <1>1, <1>2, SameRequests, AdmissionAssumption DEF Used
<1>5. SolverRoom'
  BY <1>1, <1>3, RoomStays
<1>6. Deciding'
  BY <1>1 DEF Inv, Deciding, Active, NoHolder, UsesSolver
<1> QED  BY <1>1, <1>2, <1>3, <1>4, <1>5, <1>6, NoJobMoves

\* A step that touches neither the jobs nor the slots.
LEMMA ListStep ==
  ASSUME Inv, UNCHANGED <<job, solving, rendering, excused, cooling, leaving>>,
         Deciding',
         Held(mu'),
         due' \in Seq(DueType), list' \in Seq(DueType),
         finished' \subseteq Feeds, arrivals' \in 0..MaxArrivals
  PROVE  Inv'
<1>1. /\ cooling \in Nat /\ leaving \in Nat /\ Used <= SolverSlots
      /\ SolverRoom
  BY DEF Inv, TypeOK
<1>2. Used' <= SolverSlots
  BY <1>1, SameRequests DEF Used
<1>3. SolverRoom'
  BY <1>1 DEF SolverRoom
<1> QED  BY <1>1, <1>2, <1>3, NoJobMoves

LEMMA LetGoOK ==
  ASSUME Inv, LetGo
  PROVE  Inv'
<1>1. /\ leaving > 0 /\ leaving' = leaving - 1
      /\ UNCHANGED <<job, solving, rendering, mu, cooling, due, list, finished,
                     arrivals, excused>>
  BY DEF LetGo
<1>2. /\ cooling \in Nat /\ leaving \in Nat /\ Used <= SolverSlots
      /\ due \in Seq(DueType) /\ list \in Seq(DueType)
      /\ finished \subseteq Feeds /\ arrivals \in 0..MaxArrivals
      /\ Held(mu)
  BY DEF Inv, TypeOK, DueType, Held
<1>3. cooling' \in Nat /\ leaving' \in Nat
  BY <1>1, <1>2
<1>4. Used' <= SolverSlots
  BY <1>1, <1>2, SameRequests, AdmissionAssumption DEF Used
<1>5. SolverRoom'
  BY <1>1 DEF Inv, SolverRoom
<1>6. Deciding'
  BY <1>1 DEF Inv, Deciding, Active, NoHolder, UsesSolver
<1> QED  BY <1>1, <1>2, <1>3, <1>4, <1>5, <1>6, NoJobMoves

LEMMA FeedDueOK ==
  ASSUME Inv, NEW f \in Feeds, NEW kind \in Kinds, FeedDue(f, kind)
  PROVE  Inv'
<1>1. /\ arrivals < MaxArrivals /\ arrivals' = arrivals + 1
      /\ due' = Append(due, [feed |-> f, kind |-> kind])
      /\ UNCHANGED <<job, solving, rendering, mu, cooling, leaving, list,
                     finished, excused>>
  BY DEF FeedDue
<1>2. /\ due \in Seq(DueType) /\ list \in Seq(DueType)
      /\ finished \subseteq Feeds /\ arrivals \in 0..MaxArrivals
      /\ Held(mu)
  BY DEF Inv, TypeOK, DueType, Held
<1>3. arrivals' \in 0..MaxArrivals
  BY <1>1, <1>2, AdmissionAssumption
<1>4. due' \in Seq(DueType)
  <2>1. [feed |-> f, kind |-> kind] \in DueType
    BY DEF DueType
  <2> QED  BY <1>1, <1>2, <2>1, AppendProperties
<1>5. Deciding'
  BY <1>1 DEF Inv, Deciding, Active, NoHolder, UsesSolver
<1> QED  BY <1>1, <1>2, <1>3, <1>4, <1>5, ListStep

LEMMA TickOK ==
  ASSUME Inv, Tick
  PROVE  Inv'
<1>1. /\ list' = due /\ finished' = {}
      /\ UNCHANGED <<job, solving, rendering, mu, cooling, leaving, due,
                     arrivals, excused>>
  BY DEF Tick
<1>2. /\ due \in Seq(DueType) /\ arrivals \in 0..MaxArrivals
      /\ Held(mu)
  BY DEF Inv, TypeOK, DueType, Held
<1>3. Deciding'
  BY <1>1 DEF Inv, Deciding, Active, NoHolder, UsesSolver
<1> QED  BY <1>1, <1>2, <1>3, ListStep

----------------------------------------------------------------------------
(* reserve. *)

\* A job that starts was admitted to whatever its first page asks for.
LEMMA StartOK ==
  ASSUME Inv, NEW j \in Jobs, NEW kind \in Kinds, j \notin Active,
         Cardinality(Active) < Workers,
         Start(j, kind), mu' = NoHolder,
         UsesSolver(kind) => Cardinality(solving) + cooling < SolverSlots,
         NeedsChromium(j, kind) => ChromiumFree,
         UNCHANGED <<cooling, leaving, due, finished, excused>>,
         list' \in Seq(DueType), arrivals' \in 0..MaxArrivals
  PROVE  Inv'
<1> DEFINE r == Started(kind)
<1>1. /\ TypeOK /\ IsFiniteSet(Active) /\ SolverRoom
      /\ Cardinality(rendering) <= ChromiumSlots
      /\ job \in [Jobs -> JobType]
      /\ \A i \in Jobs : Admitted(i) /\ StaticKind(job[i])
  BY DEF Inv, TypeOK, JobType
<1>2. /\ r \in JobType /\ r.pc \in {"static", "list_wait"} /\ r.kind = kind
      /\ r.pc = "static" => ~UsesSolver(kind)
  <2>1. kind \in AllKinds /\ 0 \in 0..MaxArticles
    BY AdmissionAssumption
  <2>2. r.pc \in {"static", "list_wait"} /\ r.kind = kind /\ r \in JobType
    BY <2>1 DEF Started, JobType
  <2>3. r.pc = "static" => ~UsesSolver(kind)
    BY DEF Started, IsAuto, UsesSolver
  <2> QED  BY <2>1, <2>2, <2>3
<1>3. /\ job' = [job EXCEPT ![j] = r]
      /\ solving' = IF UsesSolver(kind) THEN solving \union {j} ELSE solving
      /\ rendering' = IF RendersPages(kind) /\ ChromiumFree
                      THEN rendering \union {j} ELSE rendering
  BY DEF Start
<1> HIDE DEF r
<1>4. /\ r.pc # "idle" /\ ~InUse(r) /\ StaticKind(r)
  BY <1>2 DEF InUse, StaticKind
<1>5. /\ job' \in [Jobs -> JobType] /\ job'[j] = r
      /\ \A i \in Jobs \ {j} : job'[i] = job[i]
      /\ Active' = Active \union {j}
      /\ Requests' = Requests \ {j} /\ Renders' = Renders \ {j}
  BY <1>1, <1>2, <1>3, <1>4, JobMoves
<1>6. Used' <= SolverSlots /\ Cardinality(Renders') <= ChromiumSlots
  BY <1>5, SlotsEnough
<1>7. /\ IsFiniteSet(Active') /\ Cardinality(Active') <= Workers
  <2>1. IsFiniteSet(Active') /\ Cardinality(Active') = Cardinality(Active) + 1
    BY <1>1, <1>5, FS_AddElement
  <2> QED  BY <2>1, JobSetsFinite, AdmissionAssumption
<1>8. j \notin solving /\ j \notin rendering
  BY <1>1 DEF TypeOK
<1>9. SolverRoom'
  <2>1. CASE UsesSolver(kind)
    <3>1. Cardinality(solving') = Cardinality(solving) + 1
      BY <1>3, <1>8, <2>1, JobSetsFinite, FS_AddElement
    <3>2. Cardinality(solving) \in Nat /\ cooling \in Nat /\ cooling' = cooling
      BY <1>1, JobSetsFinite DEF TypeOK
    <3> QED  BY <2>1, <3>1, <3>2, AdmissionAssumption DEF SolverRoom
  <2>2. CASE ~UsesSolver(kind)
    BY <1>1, <1>3, <2>2 DEF SolverRoom
  <2> QED  BY <2>1, <2>2
<1>10. Cardinality(rendering') <= ChromiumSlots
  <2>1. CASE RendersPages(kind) /\ ChromiumFree
    <3>1. Cardinality(rendering') = Cardinality(rendering) + 1
      BY <1>3, <1>8, <2>1, JobSetsFinite, FS_AddElement
    <3>2. Cardinality(rendering) \in Nat /\ Cardinality(rendering) < ChromiumSlots
      BY <2>1, JobSetsFinite DEF ChromiumFree
    <3> QED  BY <3>1, <3>2, AdmissionAssumption
  <2>2. CASE ~(RendersPages(kind) /\ ChromiumFree)
    BY <1>1, <1>3, <2>2
  <2> QED  BY <2>1, <2>2
<1>11. TypeOK'
  <2>1. /\ solving' \subseteq Active' /\ rendering' \subseteq Active'
        /\ excused' \subseteq solving'
    BY <1>1, <1>3, <1>5 DEF TypeOK
  <2>2. /\ cooling' \in Nat /\ leaving' \in Nat
        /\ due' \in Seq(DueType) /\ finished' \subseteq Feeds
    BY <1>1 DEF TypeOK, DueType
  <2>3. mu' = NoHolder
    OBVIOUS
  <2>4. job' \in [Jobs -> JobType]
    BY <1>5
  <2> QED
    BY <1>6, <1>7, <2>1, <2>2, <2>3, <2>4 DEF TypeOK, JobType, DueType, NoHolder, Held
<1>12. Deciding'
  BY DEF Deciding, NoHolder
<1>13. ASSUME NEW i \in Jobs
       PROVE  Admitted(i)' /\ StaticKind(job[i])'
  <2>1. CASE i = j
    <3>1. AsksSolver(r) => j \in solving'
      BY <1>2, <1>3 DEF AsksSolver
    <3>2. AsksChromium(r) /\ j \in Feeds => j \in rendering'
      BY <1>2, <1>3 DEF AsksChromium, NeedsChromium
    <3> QED
      BY <1>4, <1>5, <2>1, <3>1, <3>2
         DEF Admitted, StaticKind, AsksSolver, AsksChromium, UsesSolver,
             ArticlesUseSolver, RendersPages, ArticlesUseChromium
  <2>2. CASE i # j
    <3>1. /\ job'[i] = job[i] /\ (i \in solving' <=> i \in solving)
          /\ (i \in rendering' <=> i \in rendering)
      BY <1>3, <1>5, <2>2
    <3> QED
      BY <1>1, <3>1
         DEF Admitted, StaticKind, AsksSolver, AsksChromium, UsesSolver,
             ArticlesUseSolver, RendersPages, ArticlesUseChromium
  <2> QED  BY <2>1, <2>2
<1> QED  BY <1>7, <1>9, <1>10, <1>11, <1>12, <1>13 DEF Inv

\* What reserve has decided on when it reads the client.
LEMMA ReadsOK ==
  ASSUME Inv, NEW j \in Jobs, NEW kind \in Kinds, ReadStats(j, kind),
         UNCHANGED <<job, solving, rendering, cooling, leaving, due, list,
                     finished, excused>>,
         arrivals' \in 0..MaxArrivals
  PROVE  Inv'
<1>1. /\ UsesSolver(kind) /\ j \notin Active /\ Cardinality(Active) < Workers
      /\ mu' = [job |-> j, kind |-> kind, active |-> Used]
  BY DEF ReadStats, HasWorker
<1>2. /\ due \in Seq(DueType) /\ list \in Seq(DueType)
      /\ finished \subseteq Feeds /\ Used <= SolverSlots
      /\ cooling \in Nat /\ leaving \in Nat
  BY DEF Inv, TypeOK, DueType
<1>3. mu' \in [job: Jobs, kind: Kinds, active: 0..SolverSlots]
  <2>1. Used \in 0..SolverSlots
    BY <1>2, JobSetsFinite, AdmissionAssumption DEF Used
  <2> QED  BY <1>1, <2>1
<1>4. Deciding'
  <2>1. Active' = Active
    BY DEF Active
  <2>2. mu'.kind = kind /\ mu'.job = j
    BY <1>1
  <2> QED  BY <1>1, <2>1, <2>2 DEF Deciding, UsesSolver
<1> QED  BY <1>2, <1>3, <1>4, ListStep DEF Held

\* The end of reserve for the job it decides on.
LEMMA DecideOK ==
  ASSUME Inv, NEW j \in Jobs, Decide(j),
         UNCHANGED <<cooling, leaving, due, finished, arrivals, excused>>,
         list' \in Seq(DueType)
  PROVE  Inv'
<1>1. /\ mu.job = j /\ mu' = NoHolder
      /\ IF SolverFree(mu.active) THEN Start(j, mu.kind) ELSE Refuse
  BY DEF Decide
<1>2. /\ due \in Seq(DueType) /\ finished \subseteq Feeds
      /\ arrivals \in 0..MaxArrivals /\ cooling \in Nat
      /\ Held(mu)
  BY DEF Inv, TypeOK, DueType, Held
<1>3. mu # NoHolder
  BY <1>1, AdmissionAssumption DEF NoHolder, Jobs
<1>4. /\ mu.kind \in Kinds /\ UsesSolver(mu.kind) /\ j \notin Active
      /\ Cardinality(Active) < Workers /\ mu.active \in 0..SolverSlots
  BY <1>1, <1>2, <1>3 DEF Inv, Deciding, Held
<1>5. CASE SolverFree(mu.active)
  <2>1. Start(j, mu.kind)
    BY <1>1, <1>5
  <2>2. Cardinality(solving) + cooling < SolverSlots
    <3>1. /\ Cardinality(solving) \in Nat /\ mu.active \in Nat
          /\ SolverSlots \in Nat
      BY <1>4, JobSetsFinite, AdmissionAssumption
    <3>2. IF mu.active >= Cardinality(solving) + cooling
          THEN mu.active < SolverSlots
          ELSE Cardinality(solving) + cooling < SolverSlots
      BY <1>5 DEF SolverFree, Greater
    <3> QED  BY <1>2, <3>1, <3>2
  <2>3. ~RendersPages(mu.kind)
    BY <1>4 DEF UsesSolver, RendersPages, ArticlesUseChromium
  <2>4. NeedsChromium(j, mu.kind) => ChromiumFree
    BY <2>3 DEF NeedsChromium
  <2>5. arrivals' \in 0..MaxArrivals
    BY <1>2
  <2> QED  BY <1>1, <1>4, <2>1, <2>2, <2>4, <2>5, StartOK
<1>6. CASE ~SolverFree(mu.active)
  <2>1. UNCHANGED <<job, solving, rendering>>
    BY <1>1, <1>6 DEF Refuse
  <2>2. Deciding'
    BY <1>1 DEF Deciding, NoHolder
  <2>3. /\ due' \in Seq(DueType) /\ finished' \subseteq Feeds
        /\ arrivals' \in 0..MaxArrivals
    BY <1>2
  <2> QED  BY <1>1, <2>1, <2>2, <2>3, ListStep DEF Held
<1> QED  BY <1>5, <1>6

\* The whole of reserve for a job that needs no FlareSolverr slot.
LEMMA ReserveOK ==
  ASSUME Inv, NEW j \in Jobs, NEW kind \in Kinds, Reserve(j, kind),
         UNCHANGED <<cooling, leaving, due, finished, excused>>,
         list' \in Seq(DueType), arrivals' \in 0..MaxArrivals
  PROVE  Inv'
<1>1. /\ mu = NoHolder /\ mu' = NoHolder
      /\ IF HasWorker(j) /\ ~(NeedsChromium(j, kind) /\ ~ChromiumFree)
         THEN ~UsesSolver(kind) /\ Start(j, kind)
         ELSE Refuse
  BY DEF Reserve, Free
<1>2. CASE HasWorker(j) /\ ~(NeedsChromium(j, kind) /\ ~ChromiumFree)
  <2>1. /\ j \notin Active /\ Cardinality(Active) < Workers
        /\ NeedsChromium(j, kind) => ChromiumFree
        /\ ~UsesSolver(kind) /\ Start(j, kind)
    BY <1>1, <1>2 DEF HasWorker
  <2> QED  BY <1>1, <2>1, StartOK
<1>3. CASE ~(HasWorker(j) /\ ~(NeedsChromium(j, kind) /\ ~ChromiumFree))
  <2>1. UNCHANGED <<job, solving, rendering>>
    BY <1>1, <1>3 DEF Refuse
  <2>2. Deciding'
    BY <1>1 DEF Deciding, NoHolder
  <2>3. due' \in Seq(DueType) /\ finished' \subseteq Feeds
    BY DEF Inv, TypeOK, DueType
  <2> QED  BY <1>1, <2>1, <2>2, <2>3, ListStep DEF Held
<1> QED  BY <1>2, <1>3

\* The feed dispatch looks at next.
LEMMA HeadOfList ==
  ASSUME Inv, list # <<>>
  PROVE  /\ Head(list).feed \in Jobs /\ Head(list).kind \in Kinds
         /\ list \in Seq(DueType) /\ Tail(list) \in Seq(DueType)
<1>1. list \in Seq(DueType)
  BY DEF Inv, TypeOK, DueType
<1>2. Head(list) \in DueType /\ Tail(list) \in Seq(DueType)
  BY <1>1, HeadTailProperties
<1> QED  BY <1>1, <1>2 DEF DueType, Jobs

LEMMA DispatchReadsOK ==
  ASSUME Inv, DispatchReads
  PROVE  Inv'
<1>1. /\ list # <<>> /\ ReadStats(Head(list).feed, Head(list).kind)
      /\ UNCHANGED <<job, solving, rendering, cooling, leaving, due, list,
                     finished, arrivals, excused>>
  BY DEF DispatchReads
<1>2. arrivals' \in 0..MaxArrivals
  BY <1>1 DEF Inv, TypeOK
<1> QED  BY <1>1, <1>2, HeadOfList, ReadsOK

LEMMA DispatchOK ==
  ASSUME Inv, Dispatch
  PROVE  Inv'
<1>1. /\ list # <<>> /\ list' = Tail(list)
      /\ \/ Decide(Head(list).feed)
         \/ Reserve(Head(list).feed, Head(list).kind)
      /\ UNCHANGED <<cooling, leaving, due, finished, arrivals, excused>>
  BY DEF Dispatch
<1>2. /\ Head(list).feed \in Jobs /\ Head(list).kind \in Kinds
      /\ list' \in Seq(DueType) /\ arrivals' \in 0..MaxArrivals
  BY <1>1, HeadOfList DEF Inv, TypeOK
<1>3. CASE Decide(Head(list).feed)
  BY <1>1, <1>2, <1>3, DecideOK
<1>4. CASE Reserve(Head(list).feed, Head(list).kind)
  BY <1>1, <1>2, <1>4, ReserveOK
<1> QED  BY <1>1, <1>3, <1>4

LEMMA PreviewReadsOK ==
  ASSUME Inv, NEW j \in Previews, NEW kind \in Kinds, PreviewReads(j, kind)
  PROVE  Inv'
<1>1. /\ arrivals < MaxArrivals /\ arrivals' = arrivals + 1
      /\ ReadStats(j, kind)
      /\ UNCHANGED <<job, solving, rendering, cooling, leaving, due, list,
                     finished, excused>>
  BY DEF PreviewReads
<1>2. j \in Jobs /\ arrivals' \in 0..MaxArrivals
  BY <1>1, AdmissionAssumption DEF Inv, TypeOK, Jobs
<1> QED  BY <1>1, <1>2, ReadsOK

LEMMA PreviewDecidesOK ==
  ASSUME Inv, NEW j \in Previews, PreviewDecides(j)
  PROVE  Inv'
<1>1. /\ Decide(j)
      /\ UNCHANGED <<cooling, leaving, due, list, finished, arrivals, excused>>
  BY DEF PreviewDecides
<1>2. j \in Jobs /\ list' \in Seq(DueType)
  BY <1>1 DEF Inv, TypeOK, DueType, Jobs
<1> QED  BY <1>1, <1>2, DecideOK

LEMMA PreviewOK ==
  ASSUME Inv, NEW j \in Previews, NEW kind \in Kinds, Preview(j, kind)
  PROVE  Inv'
<1>1. /\ arrivals < MaxArrivals /\ arrivals' = arrivals + 1
      /\ Reserve(j, kind)
      /\ UNCHANGED <<cooling, leaving, due, list, finished, excused>>
  BY DEF Preview
<1>2. /\ j \in Jobs /\ arrivals' \in 0..MaxArrivals
      /\ list' \in Seq(DueType)
  BY <1>1, AdmissionAssumption DEF Inv, TypeOK, DueType, Jobs
<1> QED  BY <1>1, <1>2, ReserveOK

----------------------------------------------------------------------------
(* The theorems. *)

LEMMA InitOK ==
  ASSUME Init
  PROVE  Inv
<1>1. /\ Idle \in JobType /\ Idle.pc = "idle"
      /\ job = [j \in Jobs |-> Idle] /\ solving = {} /\ rendering = {}
      /\ mu = NoHolder /\ cooling = 0 /\ leaving = 0
      /\ due = <<>> /\ list = <<>> /\ finished = {} /\ arrivals = 0
      /\ excused = {}
  BY FetchedRow DEF Init
<1>2. /\ Active = {} /\ Using = {}
  BY <1>1 DEF Active, Using
<1>3. Requests = {} /\ Renders = {}
  BY <1>2 DEF Requests, Renders
<1>4. Cardinality({}) = 0 /\ IsFiniteSet({})
  BY FS_EmptySet
<1>5. TypeOK
  <2>1. /\ Cardinality(Active) <= Workers /\ Used <= SolverSlots
        /\ Cardinality(Renders) <= ChromiumSlots /\ arrivals \in 0..MaxArrivals
    BY <1>1, <1>2, <1>3, <1>4, AdmissionAssumption DEF Used
  <2>2. job \in [Jobs -> JobType]
    BY <1>1
  <2>3. <<>> \in Seq([feed: Feeds, kind: Kinds])
    OBVIOUS
  <2> QED  BY <1>1, <2>1, <2>2, <2>3 DEF TypeOK, JobType
<1>6. SolverRoom /\ Deciding /\ IsFiniteSet(Active)
      /\ Cardinality(rendering) <= ChromiumSlots
  BY <1>1, <1>2, <1>4, AdmissionAssumption DEF SolverRoom, Deciding
<1>7. \A j \in Jobs : Admitted(j) /\ StaticKind(job[j])
  BY <1>1 DEF Admitted, StaticKind, AsksSolver, AsksChromium
<1> QED  BY <1>5, <1>6, <1>7 DEF Inv

LEMMA RunOK ==
  ASSUME Inv, NEW j \in Jobs, Run(j)
  PROVE  Inv'
BY FetchStaticOK, AcquireOK, GiveUpOK, AnswerOK, InterruptOK, DoneWithSolverOK,
   DoneWithChromiumOK, ReleaseOK, ArticlesFetchedOK, SaveOK, FinishOK,
   PreviewDecidesOK DEF Run

LEMMA NextOK ==
  ASSUME Inv, [Next]_vars
  PROVE  Inv'
<1>1. ASSUME NEW f \in Feeds, NEW kind \in Kinds, FeedDue(f, kind)
      PROVE  Inv'
  BY <1>1, FeedDueOK
<1>2. CASE Scheduling
  BY <1>2, TickOK, DispatchReadsOK, DispatchOK DEF Scheduling
<1>3. CASE Handlers
  BY <1>3, PreviewReadsOK, PreviewOK DEF Handlers
<1>4. ASSUME NEW j \in Jobs, Run(j)
      PROVE  Inv'
  BY <1>4, RunOK
<1>5. CASE CoolingOver \/ LetGo
  BY <1>5, CoolingOverOK, LetGoOK
<1>6. CASE UNCHANGED vars
  <2>1. /\ due' \in Seq(DueType) /\ list' \in Seq(DueType)
        /\ finished' \subseteq Feeds /\ arrivals' \in 0..MaxArrivals
        /\ Held(mu')
    BY <1>6 DEF Inv, TypeOK, DueType, vars, Held
  <2>2. /\ UNCHANGED <<job, solving, rendering, excused, cooling, leaving>>
        /\ mu' = mu
    BY <1>6 DEF vars
  <2>3. Deciding'
    BY <2>2 DEF Inv, Deciding, Active, NoHolder, UsesSolver
  <2> QED  BY <2>1, <2>2, <2>3, ListStep
<1> QED
  BY <1>1, <1>2, <1>3, <1>4, <1>5, <1>6 DEF Next, Quiet

LEMMA Invariant == Spec => []Inv
<1>1. Init => Inv
  BY InitOK
<1>2. Inv /\ [Next]_vars => Inv'
  BY NextOK
<1> QED  BY <1>1, <1>2, PTL DEF Spec

\* The workers and the slots of both pools are never overdrawn, and only a
\* running job holds an admission.
THEOREM SlotsKept == Spec => []TypeOK
<1>1. Inv => TypeOK
  BY DEF Inv
<1> QED  BY <1>1, Invariant, PTL

\* No job makes a FlareSolverr request, and no refresh that renders a render,
\* after its admission was given back.
THEOREM AdmittedRequests == Spec => []RequestsAdmitted
<1>1. Inv => RequestsAdmitted
  <2> SUFFICES ASSUME Inv, NEW j \in Waiting \union Using
               PROVE  /\ UsesSolver(job[j].kind) => j \in solving
                      /\ j \in Feeds /\ RendersPages(job[j].kind)
                           => j \in rendering
    BY DEF RequestsAdmitted
  <2>1. /\ j \in Jobs
        /\ job[j].pc \in {"list_wait", "list_use", "article_wait", "article_use"}
    BY DEF Waiting, Using
  <2>2. Admitted(j)
    BY <2>1 DEF Inv
  <2> QED  BY <2>1, <2>2 DEF Admitted, AsksSolver, AsksChromium
<1> QED  BY <1>1, Invariant, PTL

\* An admitted job finds its slots taken only behind a request that was
\* interrupted since, or a render that needed no admission.
THEOREM ExcusedWaits == Spec => []WaitsExcused
<1>1. Inv => WaitsExcused
  <2> SUFFICES ASSUME Inv, NEW j \in Waiting
               PROVE  SolverWaitExcused(j) /\ ChromiumWaitExcused(j)
    BY DEF WaitsExcused
  <2>1. /\ j \in Jobs /\ job[j].pc \in {"list_wait", "article_wait"}
        /\ j \notin Using
    BY DEF Waiting, Using
  <2>2. \A i \in Jobs : Admitted(i)
    BY DEF Inv
  <2>3. SolverWaitExcused(j)
    <3> SUFFICES ASSUME UsesSolver(job[j].kind), j \notin excused,
                        Cardinality(Requests) + cooling >= SolverSlots
                 PROVE  FALSE
      BY DEF SolverWaitExcused
    <3>1. j \in solving
      BY <2>1, <2>2 DEF Admitted, AsksSolver
    <3>2. Requests \subseteq solving \ {j}
      <4>1. ASSUME NEW i \in Requests
            PROVE  i \in solving
        BY <2>2 DEF Requests, Using, Admitted, AsksSolver
      <4> QED  BY <2>1, <4>1 DEF Requests
    <3>3. /\ IsFiniteSet(solving \ {j})
          /\ Cardinality(solving \ {j}) = Cardinality(solving) - 1
      BY <3>1, JobSetsFinite, FS_RemoveElement
    <3>4. Cardinality(Requests) <= Cardinality(solving) - 1
      BY <3>2, <3>3, FS_Subset
    <3>5. Cardinality(solving) + cooling <= SolverSlots
      BY <3>1 DEF Inv, SolverRoom
    <3>6. /\ Cardinality(solving) \in Nat /\ Cardinality(Requests) \in Nat
          /\ cooling \in Nat
      BY JobSetsFinite DEF Inv, TypeOK
    <3> QED  BY <3>4, <3>5, <3>6, AdmissionAssumption
  <2>4. ChromiumWaitExcused(j)
    <3> SUFFICES ASSUME j \in rendering, Cardinality(Renders) >= ChromiumSlots,
                        \A r \in Renders \ rendering :
                          ~(r \in Previews \/ ~RendersPages(job[r].kind))
                 PROVE  FALSE
      BY DEF ChromiumWaitExcused
    <3>1. Renders \subseteq rendering \ {j}
      <4>1. ASSUME NEW i \in Renders, i \notin rendering
            PROVE  FALSE
        <5>1. /\ i \in Jobs /\ job[i].pc \in {"list_use", "article_use"}
          BY DEF Renders, Using
        <5>2. i \in Feeds /\ RendersPages(job[i].kind)
          BY <4>1, <5>1 DEF Jobs
        <5> QED  BY <4>1, <5>1, <5>2, <2>2 DEF Admitted, AsksChromium
      <4> QED  BY <2>1, <4>1 DEF Renders
    <3>2. /\ IsFiniteSet(rendering \ {j})
          /\ Cardinality(rendering \ {j}) = Cardinality(rendering) - 1
      BY JobSetsFinite, FS_RemoveElement
    <3>3. Cardinality(Renders) <= Cardinality(rendering) - 1
      BY <3>1, <3>2, FS_Subset
    <3>4. /\ Cardinality(rendering) \in Nat /\ Cardinality(Renders) \in Nat
          /\ Cardinality(rendering) <= ChromiumSlots
      BY JobSetsFinite DEF Inv
    <3> QED  BY <3>3, <3>4, AdmissionAssumption
  <2> QED  BY <2>3, <2>4
<1> QED  BY <1>1, Invariant, PTL
============================================================================
