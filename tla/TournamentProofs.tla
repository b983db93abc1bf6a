--------------------------- MODULE TournamentProofs ---------------------------
(***************************************************************************)
(* Theorems of Tournament, for any shape of the run, any number of workers *)
(* and any number of failures, lapses and kills. WorkerLoopProofs says     *)
(* what the loop keeps; what remains is what the database of a run looks   *)
(* like (Shape) and how an old reading of it compares with it (Behind).    *)
(***************************************************************************)
EXTENDS Tournament, WorkerLoopProofs, FiniteSetTheorems, WellFoundedInduction

\* Agents that have a row.
Here(d) == {a \in Agents : d.agents[a] # "ABSENT"}

JudgedIn(d, g) ==
  \A s \in Researchers(g), i \in 1..JudgeCount :
    \E c \in Copies : <<s, Agent(g, "judge", i, c)>> \in d.evals

JudgesFollow(d, g) ==
  \A i \in 1..JudgeCount : \E c \in Copies : Agent(g, "judge", i, c) \in Here(d)

\* The rows of a run, its status and its candidates apart: agents of the
\* generations there are, judges and critics only of whole populations, judges
\* in both roles, and evaluations that are complete of what was left behind.
Shape(d) ==
  /\ \A a \in Here(d) : a.gen < d.gens
  /\ \A a \in Submissions : a.gen < d.gens => a \in Here(d)
  /\ \A e \in d.evals : e[1] \in d.subs
  /\ \A f \in d.finds : f.sub \in d.subs
  /\ \A a \in Here(d) : a.role = "judge" =>
       Researchers(a.gen) \subseteq d.subs /\ JudgesFollow(d, a.gen)
  /\ \A a \in Here(d) : a.role = "critic" =>
       /\ Researchers(a.gen) \subseteq d.subs
       /\ \A c \in 1..a.copy : CriticSet(a.gen, c) \subseteq Here(d)
  /\ \A g \in Generations : g + 1 < d.gens => JudgedIn(d, g) /\ JudgesFollow(d, g)

\* What its status says of the run.
StatusFits(d) ==
  /\ d.status \in {"NONE", "CREATED"} => d.gens = 0
  /\ d.status \in {"RESEARCHING", "JUDGING"} => d.gens > 0
  /\ d.status = "COMPLETED" =>
       d.gens = MaxGenerations /\ JudgedIn(d, MaxGenerations - 1)
         /\ JudgesFollow(d, MaxGenerations - 1)

\* A reading of the database that others have written to since.
Behind(v, d) ==
  /\ v.gens <= d.gens /\ Here(v) \subseteq Here(d)
  /\ v.subs \subseteq d.subs /\ v.evals \subseteq d.evals /\ v.finds \subseteq d.finds
  /\ v.status # "NONE" => d.status # "NONE"

\* Jobs are of generations and agents that have rows.
JobFits(j, d) ==
  /\ d.status # "NONE"
  /\ j # CreateJob => j.gen < d.gens
  /\ j.agent # None => j.agent \in Here(d)

\* Which units of work a worker goes through with a job of some type.
UnitsOf(type) ==
  CASE type = "CREATE_GENERATION" -> {"create"}
    [] type = "START_JUDGING" -> {"judging"}
    [] type = "FINALIZE_RUN" -> {"finalize"}
    [] OTHER -> {"start", "calling", "result", "schedule", "opened", "failrun"}
Anywhere == {"enqueue", "settle", "raised", "terminal"}

Loop == LoopInv(Jobs, Database, UnitsOfWork)

\* The critic stage of g has been opened.
HasCritics(d, g) == CriticCount # 0 /\ FirstCritics(g) \subseteq Here(d)

\* Of a worker: where it is fits its job, what it has read is an earlier state
\* of the run, from after the job was enqueued, and after the stage was opened
\* if it has opened it.
WorkerFits(w) ==
  /\ job[w] # None => pc[w] \in UnitsOf(job[w].type) \union Anywhere
  /\ pc[w] = "opened" => HasCritics(db, job[w].gen)
  /\ (pc[w] = "opened" /\ view[w] # None) => HasCritics(view[w], job[w].gen)
  /\ view[w] # None =>
       /\ Shape(view[w]) /\ StatusFits(view[w]) /\ Behind(view[w], db)
       /\ JobFits(job[w], view[w])
  /\ \A j \in todo[w] : JobFits(j, db)

RunInv ==
  /\ Loop
  /\ db \in Database /\ Shape(db) /\ StatusFits(db)
  /\ api \in {"new", "committed", "done", "dead"} /\ (api = "new" <=> db.status = "NONE")
  /\ \A j \in Jobs : jobs[j].status # "absent" => JobFits(j, db)
  /\ \A w \in Workers : WorkerFits(w)

-----------------------------------------------------------------------------
(* Agents, jobs and the elite.                                             *)

LEMMA ResearcherParts ==
  ASSUME NEW g, NEW a \in Researchers(g)
  PROVE  a.gen = g /\ a.role = "researcher" /\ a.index \in 1..Population /\ a.copy = 1
BY DEF Researchers, Agent

LEMMA JudgeParts ==
  ASSUME NEW g, NEW a \in JudgesOf(g)
  PROVE  /\ a.gen = g /\ a.role = "judge" /\ a.index \in 1..JudgeCount /\ a.copy \in Copies
         /\ a = Agent(g, "judge", a.index, a.copy)
BY DEF JudgesOf, Agent

LEMMA CriticParts ==
  ASSUME NEW g, NEW a \in CriticsOf(g)
  PROVE  /\ a.gen = g /\ a.role = "critic" /\ a.index \in 1..CriticCount /\ a.copy \in CriticCopies
         /\ a = Agent(g, "critic", a.index, a.copy)
         /\ a.copy = 1 => a \in FirstCritics(g)
BY DEF CriticsOf, CriticSet, FirstCritics, Agent

LEMMA FirstCriticParts ==
  ASSUME NEW g
  PROVE  /\ FirstCritics(g) \subseteq CriticsOf(g)
         /\ \A a \in FirstCritics(g) : a.copy = 1
         /\ CriticCount # 0 => Agent(g, "critic", 1, 1) \in FirstCritics(g)
<1>1. 1 \in CriticCopies BY LoopAssumption DEF CriticCopies, JudgeCount
<1> QED BY <1>1, RunCreateAssumption DEF CriticsOf, CriticSet, FirstCritics, Agent

LEMMA AgentSets ==
  ASSUME NEW g \in Generations
  PROVE  /\ Researchers(g) \subseteq Agents /\ Researchers(g) \subseteq Submissions
         /\ JudgesOf(g) \subseteq Agents /\ CriticsOf(g) \subseteq Agents
BY DEF Agents, Submissions

LEMMA AgentParts ==
  ASSUME NEW a \in Agents
  PROVE  /\ a.gen \in Generations
         /\ a.role = "judge" <=> a \in JudgesOf(a.gen)
         /\ a.role = "critic" <=> a \in CriticsOf(a.gen)
         /\ a.role = "researcher" <=> a \in Researchers(a.gen)
<1>1. PICK g \in Generations : a \in Researchers(g) \union JudgesOf(g) \union CriticsOf(g)
    BY DEF Agents
<1> QED BY <1>1, ResearcherParts, JudgeParts, CriticParts

LEMMA SubmissionParts ==
  ASSUME NEW a \in Submissions
  PROVE  a.gen \in Generations /\ a \in Researchers(a.gen) /\ a \in Agents
<1>1. PICK g \in Generations : a \in Researchers(g) BY DEF Submissions
<1> QED BY <1>1, ResearcherParts, AgentSets

LEMMA GenerationsType == 0 \in Generations /\ Generations \subseteq Nat
BY RunCreateAssumption DEF Generations

LEMMA JobSets ==
  ASSUME NEW g \in Generations
  PROVE  /\ \A a \in Researchers(g) : ResearchJob(a) \in Jobs
         /\ \A a \in JudgesOf(g) : JudgeJob(a) \in Jobs
         /\ \A a \in CriticsOf(g) : CriticJob(a) \in Jobs
         /\ StartJudgingJob(g) \in Jobs /\ FinalizeJob(g) \in Jobs /\ CreateJob \in Jobs
BY DEF Jobs

\* What a job of each type is made of.
JobShape(j) ==
  \/ j = CreateJob
  \/ j.type = "RUN_RESEARCH_AGENT" /\ j.agent \in Researchers(j.gen)
  \/ j.type = "RUN_JUDGE" /\ j.agent \in JudgesOf(j.gen)
  \/ j.type = "RUN_CRITIC" /\ j.agent \in CriticsOf(j.gen)
  \/ j = StartJudgingJob(j.gen)
  \/ j = FinalizeJob(j.gen)

LEMMA JobParts ==
  ASSUME NEW j \in Jobs
  PROVE  j.gen \in Generations /\ JobShape(j)
<1>1. CASE j = CreateJob BY <1>1, GenerationsType DEF CreateJob, Job, JobShape
<1>2. ASSUME j # CreateJob
      PROVE  \E g \in Generations :
               \/ \E a \in Researchers(g) : j = ResearchJob(a)
               \/ \E a \in JudgesOf(g) : j = JudgeJob(a)
               \/ \E a \in CriticsOf(g) : j = CriticJob(a)
               \/ j = StartJudgingJob(g)
               \/ j = FinalizeJob(g)
    BY <1>2 DEF Jobs
<1>3. ASSUME NEW g \in Generations, NEW a \in Researchers(g), j = ResearchJob(a) PROVE j.gen = g /\ JobShape(j)
    BY <1>3, ResearcherParts DEF ResearchJob, Job, JobShape
<1>4. ASSUME NEW g \in Generations, NEW a \in JudgesOf(g), j = JudgeJob(a) PROVE j.gen = g /\ JobShape(j)
    BY <1>4, JudgeParts DEF JudgeJob, Job, JobShape
<1>5. ASSUME NEW g \in Generations, NEW a \in CriticsOf(g), j = CriticJob(a) PROVE j.gen = g /\ JobShape(j)
    BY <1>5, CriticParts DEF CriticJob, Job, JobShape
<1>6. ASSUME NEW g \in Generations, j = StartJudgingJob(g) \/ j = FinalizeJob(g) PROVE j.gen = g /\ JobShape(j)
    BY <1>6 DEF StartJudgingJob, FinalizeJob, Job, JobShape
<1> QED BY <1>1, <1>2, <1>3, <1>4, <1>5, <1>6

\* What a type says of a job.
LEMMA TypeSays ==
  ASSUME NEW j \in Jobs
  PROVE  /\ j.type \in {"CREATE_GENERATION", "START_JUDGING", "FINALIZE_RUN"} \union AgentJobs
         /\ j.type = "CREATE_GENERATION" <=> j = CreateJob
         /\ j.type = "RUN_RESEARCH_AGENT" => j.agent \in Researchers(j.gen)
         /\ j.type = "RUN_JUDGE" => j.agent \in JudgesOf(j.gen)
         /\ j.type = "RUN_CRITIC" => j.agent \in CriticsOf(j.gen)
         /\ j.type = "START_JUDGING" => j = StartJudgingJob(j.gen)
         /\ j.type = "FINALIZE_RUN" => j = FinalizeJob(j.gen)
         /\ j.type \in AgentJobs => j.agent \in Agents /\ j.agent.gen = j.gen
         /\ j.agent # None => j.agent \in Agents
<1>1. j.gen \in Generations /\ JobShape(j) BY JobParts
<1>2. CASE j = CreateJob BY <1>2 DEF CreateJob, Job, AgentJobs
<1>3. CASE j = StartJudgingJob(j.gen) \/ j = FinalizeJob(j.gen)
    BY <1>3 DEF CreateJob, StartJudgingJob, FinalizeJob, Job, AgentJobs
<1>4. CASE j.type = "RUN_RESEARCH_AGENT" /\ j.agent \in Researchers(j.gen)
    BY <1>1, <1>4, AgentSets, ResearcherParts DEF CreateJob, StartJudgingJob, FinalizeJob, Job, AgentJobs
<1>5. CASE j.type = "RUN_JUDGE" /\ j.agent \in JudgesOf(j.gen)
    BY <1>1, <1>5, AgentSets, JudgeParts DEF CreateJob, StartJudgingJob, FinalizeJob, Job, AgentJobs
<1>6. CASE j.type = "RUN_CRITIC" /\ j.agent \in CriticsOf(j.gen)
    BY <1>1, <1>6, AgentSets, CriticParts DEF CreateJob, StartJudgingJob, FinalizeJob, Job, AgentJobs
<1> QED BY <1>1, <1>2, <1>3, <1>4, <1>5, <1>6 DEF JobShape

\* A set of naturals has a least element.
LEMMA LeastNatural ==
  ASSUME NEW S \in SUBSET Nat, S # {}
  PROVE  \E n \in S : \A m \in S : n <= m
<1>1. IsWellFoundedOn({ss \in Nat \X Nat : ss[1] < ss[2]}, Nat)
    BY Zenon, NatLessThanWellFounded DEF OpToRel
<1>2. PICK n \in S : \A m \in S : <<m, n>> \notin {ss \in Nat \X Nat : ss[1] < ss[2]}
    BY <1>1, WFMin, Zenon
<1>3. ASSUME NEW m \in S PROVE n <= m
  <2>1. m \in Nat /\ n \in Nat /\ ~(m < n) BY <1>2
  <2> QED BY <2>1
<1> QED BY <1>3

\* Among the viable of a generation one is better than all others.
LEMMA EliteIsBest ==
  ASSUME NEW g, NEW refuted
  PROVE  /\ Elite(g, refuted) \in Viable(g, refuted)
         /\ Elite(g, refuted) \in Researchers(g)
         /\ Viable(g, refuted) \subseteq Researchers(g)
<1> DEFINE V == Viable(g, refuted)
<1>1. V \subseteq Researchers(g) BY DEF Viable
<1>2. V # {}
  <2>1. Agent(g, "researcher", 1, 1) \in Researchers(g) BY RunCreateAssumption DEF Researchers
  <2> QED BY <2>1 DEF Viable
<1>3. \A s, t \in V : Fatal(s, refuted) <=> Fatal(t, refuted) BY DEF Viable
<1> DEFINE I == {s.index : s \in V}
<1>4. I \in SUBSET Nat /\ I # {} BY <1>1, <1>2, ResearcherParts, RunCreateAssumption
<1>5. PICK n \in I : \A m \in I : n <= m
  <2> HIDE DEF I
  <2> QED BY <1>4, LeastNatural
<1>6. PICK s \in V : s.index = n BY <1>5
<1>7. \A t \in V \ {s} : s.index < t.index
  <2> SUFFICES ASSUME NEW t \in V \ {s} PROVE s.index < t.index OBVIOUS
  <2>1. t.index \in I /\ s.index <= t.index BY <1>5, <1>6
  <2>2. s.index # t.index BY <1>1 DEF Researchers, Agent
  <2>3. s.index \in Int /\ t.index \in Int BY <1>1, ResearcherParts
  <2> QED BY <2>1, <2>2, <2>3
<1>8. \A t \in V \ {s} : Better(refuted, s, t) BY <1>3, <1>7 DEF Better
<1> QED BY <1>1, <1>8 DEF Elite

LEMMA SelectedAreViable ==
  ASSUME NEW g, NEW refuted
  PROVE  /\ Selected(g, refuted) \subseteq Viable(g, refuted)
         /\ Selected(g, refuted) \subseteq Researchers(g)
         /\ Elite(g, refuted) \in Selected(g, refuted)
BY EliteIsBest DEF Selected

LEMMA ResearchersAreFinite ==
  ASSUME NEW g
  PROVE  IsFiniteSet(Researchers(g))
<1>1. IsFiniteSet(1..Population) BY FS_Interval, RunCreateAssumption
<1> DEFINE f == [i \in 1..Population |-> Agent(g, "researcher", i, 1)]
<1>2. f \in Surjection(1..Population, Researchers(g)) BY DEF Surjection, Researchers
<1> QED BY <1>1, <1>2, FS_Surjection

\* What finalize_run selects, new or recorded, is a sequence of branches.
LEMMA RankingType ==
  ASSUME NEW g \in Generations, NEW refuted, NEW q \in ByRank(Selected(g, refuted), refuted)
  PROVE  /\ q \in Seq(Submissions) /\ Len(q) > 0
         /\ \A i \in 1..Len(q) : q[i] \in Selected(g, refuted)
<1> DEFINE S == Selected(g, refuted)
<1>1. IsFiniteSet(S) /\ S # {} /\ S \subseteq Submissions
    BY SelectedAreViable, ResearchersAreFinite, FS_Subset, AgentSets
<1>2. Cardinality(S) \in Nat /\ Cardinality(S) # 0 BY <1>1, FS_CardinalityType, FS_EmptySet
<1> HIDE DEF S
<1>3. q \in [1..Cardinality(S) -> S] BY DEF ByRank, S
<1>4. q \in Seq(S) /\ Len(q) = Cardinality(S) BY <1>2, <1>3
<1>5. \A i \in 1..Len(q) : q[i] \in S BY <1>4
<1> QED BY <1>1, <1>2, <1>4, <1>5 DEF S

-----------------------------------------------------------------------------
(* The ways in which the rows of a run grow, and that Shape survives them.  *)

Keeps(d, e) ==
  /\ e.gens = d.gens /\ Here(e) = Here(d)
  /\ e.subs = d.subs /\ e.evals = d.evals /\ e.finds = d.finds

AddsSubmission(d, e) ==
  /\ e.gens = d.gens /\ Here(e) = Here(d) /\ e.evals = d.evals /\ e.finds = d.finds
  /\ d.subs \subseteq e.subs

AddsEvaluations(d, e) ==
  /\ e.gens = d.gens /\ Here(e) = Here(d) /\ e.subs = d.subs /\ e.finds = d.finds
  /\ \E new : e.evals = d.evals \union new /\ \A n \in new : n[1] \in d.subs

AddsFinding(d, e) ==
  /\ e.gens = d.gens /\ Here(e) = Here(d) /\ e.subs = d.subs /\ e.evals = d.evals
  /\ \E new : e.finds = d.finds \union {new} /\ new.sub \in d.subs

SpawnsJudges(d, e) ==
  /\ e.gens = d.gens /\ e.subs = d.subs /\ e.evals = d.evals /\ e.finds = d.finds
  /\ \E g \in Generations : \E added :
       /\ Here(e) = Here(d) \union added /\ added \subseteq JudgesOf(g)
       /\ g < d.gens /\ Researchers(g) \subseteq d.subs /\ JudgesFollow(e, g)

SpawnsCritics(d, e) ==
  /\ e.gens = d.gens /\ e.subs = d.subs /\ e.evals = d.evals /\ e.finds = d.finds
  /\ \E g \in Generations, n \in CriticCopies :
       /\ Here(e) = Here(d) \union CriticSet(g, n)
       /\ \A c \in 1..n : CriticSet(g, c) \subseteq Here(e)
       /\ g < d.gens /\ Researchers(g) \subseteq d.subs

Breeds(d, e) ==
  /\ e.gens = d.gens + 1 /\ e.subs = d.subs /\ e.evals = d.evals /\ e.finds = d.finds
  /\ Here(e) = Here(d) \union Researchers(d.gens)
  /\ d.gens > 0 => JudgedIn(d, d.gens - 1) /\ JudgesFollow(d, d.gens - 1)

Grows(d, e) ==
  \/ Keeps(d, e) \/ AddsSubmission(d, e) \/ AddsEvaluations(d, e) \/ AddsFinding(d, e)
  \/ SpawnsJudges(d, e) \/ SpawnsCritics(d, e) \/ Breeds(d, e)

LEMMA GrowsAhead ==
  ASSUME NEW d \in Database, NEW e \in Database, Grows(d, e),
         d.status # "NONE" => e.status # "NONE"
  PROVE  Behind(d, e)
<1>1. d.gens \in Nat BY RunCreateAssumption DEF Database
<1> QED BY <1>1 DEF Grows, Keeps, AddsSubmission, AddsEvaluations, AddsFinding, SpawnsJudges,
                    SpawnsCritics, Breeds, Behind

LEMMA BehindStill ==
  ASSUME NEW v \in Database, NEW d \in Database, NEW e \in Database, Behind(v, d), Behind(d, e)
  PROVE  Behind(v, e)
<1>1. v.gens \in Nat /\ d.gens \in Nat /\ e.gens \in Nat BY RunCreateAssumption DEF Database
<1>2. v.gens <= e.gens BY <1>1 DEF Behind
<1> QED BY <1>2 DEF Behind

\* The parts of Shape that only look at more rows stay true of more rows.
LEMMA FollowStill ==
  ASSUME NEW d, NEW e, NEW g, Here(d) \subseteq Here(e), d.evals \subseteq e.evals
  PROVE  /\ JudgesFollow(d, g) => JudgesFollow(e, g)
         /\ JudgedIn(d, g) => JudgedIn(e, g)
BY DEF JudgesFollow, JudgedIn

LEMMA GrowsInShape ==
  ASSUME NEW d \in Database, NEW e \in Database, Shape(d), Grows(d, e)
  PROVE  Shape(e)
<1> USE RunCreateAssumption
<1>1. /\ d.gens \in Nat /\ Here(d) \subseteq Here(e)
      /\ d.subs \subseteq e.subs /\ d.evals \subseteq e.evals
    BY DEF Database, Grows, Keeps, AddsSubmission, AddsEvaluations, AddsFinding, SpawnsJudges,
           SpawnsCritics, Breeds
<1>2. \A g : /\ JudgesFollow(d, g) => JudgesFollow(e, g)
             /\ JudgedIn(d, g) => JudgedIn(e, g)
    BY <1>1, FollowStill
<1>3. \A x \in e.evals : x[1] \in e.subs
    BY <1>1 DEF Shape, Grows, Keeps, AddsSubmission, AddsEvaluations, AddsFinding, SpawnsJudges,
                SpawnsCritics, Breeds
<1>4. \A f \in e.finds : f.sub \in e.subs
    BY <1>1 DEF Shape, Grows, Keeps, AddsSubmission, AddsEvaluations, AddsFinding, SpawnsJudges,
                SpawnsCritics, Breeds
<1>5. ASSUME e.gens = d.gens, Here(e) = Here(d) PROVE Shape(e)
    BY <1>1, <1>2, <1>3, <1>4, <1>5 DEF Shape
<1>6. CASE SpawnsJudges(d, e)
  <2>0. PICK g \in Generations : \E added :
          /\ Here(e) = Here(d) \union added /\ added \subseteq JudgesOf(g)
          /\ g < d.gens /\ Researchers(g) \subseteq d.subs /\ JudgesFollow(e, g)
      BY <1>6 DEF SpawnsJudges
  <2>1. PICK added :
          /\ Here(e) = Here(d) \union added /\ added \subseteq JudgesOf(g)
          /\ g < d.gens /\ Researchers(g) \subseteq d.subs /\ JudgesFollow(e, g)
      BY <2>0
  <2>2. e.gens = d.gens BY <1>6 DEF SpawnsJudges
  <2>3. \A a \in added : a.gen = g /\ a.role = "judge" BY <2>1, JudgeParts
  <2> QED BY <1>1, <1>2, <1>3, <1>4, <2>1, <2>2, <2>3 DEF Shape
<1>7. CASE SpawnsCritics(d, e)
  <2>1. PICK g \in Generations, n \in CriticCopies :
          /\ Here(e) = Here(d) \union CriticSet(g, n)
          /\ \A c \in 1..n : CriticSet(g, c) \subseteq Here(e)
          /\ g < d.gens /\ Researchers(g) \subseteq d.subs
      BY <1>7 DEF SpawnsCritics
  <2>2. e.gens = d.gens BY <1>7 DEF SpawnsCritics
  <2>3. \A a \in CriticSet(g, n) : a.gen = g /\ a.role = "critic" /\ a.copy = n
      BY DEF CriticSet, Agent
  <2> QED BY <1>1, <1>2, <1>3, <1>4, <2>1, <2>2, <2>3 DEF Shape
<1>8. CASE Breeds(d, e)
  <2>1. /\ e.gens = d.gens + 1 /\ Here(e) = Here(d) \union Researchers(d.gens)
        /\ d.gens > 0 => JudgedIn(d, d.gens - 1) /\ JudgesFollow(d, d.gens - 1)
      BY <1>8 DEF Breeds
  <2>2. \A a \in Researchers(d.gens) : a.gen = d.gens /\ a.role = "researcher" BY ResearcherParts
  <2>3. \A a \in Here(e) : a.gen < e.gens
    <3>1. \A a \in Here(d) : a.gen \in Nat BY AgentParts, GenerationsType DEF Here
    <3> QED BY <1>1, <2>1, <2>2, <3>1 DEF Shape
  <2>4. \A a \in Submissions : a.gen < e.gens => a \in Here(e)
    <3>1. \A a \in Submissions : a.gen \in Nat /\ a \in Researchers(a.gen)
        BY SubmissionParts, GenerationsType
    <3>2. \A a \in Submissions : a.gen < e.gens => a.gen < d.gens \/ a.gen = d.gens
        BY <1>1, <2>1, <3>1
    <3> QED BY <2>1, <3>1, <3>2 DEF Shape
  <2>5. \A g \in Generations : g + 1 < e.gens => JudgedIn(e, g) /\ JudgesFollow(e, g)
    <3>1. \A g \in Generations : g + 1 < e.gens => g + 1 < d.gens \/ (g = d.gens - 1 /\ d.gens > 0)
        BY <1>1, <2>1, GenerationsType
    <3> QED BY <1>2, <2>1, <3>1 DEF Shape
  <2> QED BY <1>1, <1>2, <1>3, <1>4, <2>1, <2>2, <2>3, <2>4, <2>5 DEF Shape
<1>9. CASE Keeps(d, e) \/ AddsSubmission(d, e) \/ AddsEvaluations(d, e) \/ AddsFinding(d, e)
    BY <1>5, <1>9 DEF Keeps, AddsSubmission, AddsEvaluations, AddsFinding
<1> QED BY <1>6, <1>7, <1>8, <1>9 DEF Grows

LEMMA FitsStill ==
  ASSUME NEW d, NEW e, NEW j \in Jobs, d.gens \in Nat, e.gens \in Nat, Behind(d, e), JobFits(j, d)
  PROVE  JobFits(j, e)
<1>1. j.gen \in Nat BY JobParts, GenerationsType
<1>2. j # CreateJob => j.gen < e.gens BY <1>1 DEF Behind, JobFits
<1> QED BY <1>2 DEF Behind, JobFits

-----------------------------------------------------------------------------
(* What a unit of work knows, and what it does, whichever it is.            *)

LEMMA RunSetting == Setting(Jobs, Database, UnitsOfWork)
BY NoneAssumption DEF Setting, UnitsOfWork

\* Its status aside, a row's reading says the same.
LEMMA StatusApart ==
  ASSUME NEW d \in Database, NEW status \in RunStatus
  PROVE  LET e == [d EXCEPT !.status = status]
         IN  /\ e \in Database /\ e.status = status /\ Keeps(d, e)
             /\ Here(e) = Here(d) /\ (Shape(d) => Shape(e))
             /\ \A g : JudgedIn(e, g) = JudgedIn(d, g) /\ JudgesFollow(e, g) = JudgesFollow(d, g)
             /\ e.cands = d.cands /\ e.verdict = d.verdict /\ e.survivors = d.survivors
             /\ e.parent = d.parent /\ e.agents = d.agents
<1> DEFINE e == [d EXCEPT !.status = status]
<1>1. /\ e \in Database /\ e.status = status /\ e.gens = d.gens /\ e.agents = d.agents
      /\ e.subs = d.subs /\ e.evals = d.evals /\ e.finds = d.finds
      /\ e.cands = d.cands /\ e.verdict = d.verdict /\ e.survivors = d.survivors
      /\ e.parent = d.parent
    BY DEF Database
<1> HIDE DEF e
<1>2. Here(e) = Here(d) BY <1>1 DEF Here
<1>3. Keeps(d, e) BY <1>1, <1>2 DEF Keeps
<1>4. Shape(d) => Shape(e) BY <1>1, <1>3, GrowsInShape DEF Grows
<1>5. \A g : JudgedIn(e, g) = JudgedIn(d, g) /\ JudgesFollow(e, g) = JudgesFollow(d, g)
    BY <1>1, <1>2 DEF JudgedIn, JudgesFollow
<1> QED BY <1>1, <1>2, <1>3, <1>4, <1>5 DEF e

LEMMA GensType ==
  ASSUME NEW d \in Database
  PROVE  d.gens \in Nat /\ d.gens <= MaxGenerations /\ d.status \in RunStatus
BY RunCreateAssumption DEF Database

LEMMA ReadsFit ==
  ASSUME RunInv, NEW w \in Workers, view[w] # None, NEW v \in Reads(w)
  PROVE  /\ v \in Database /\ Shape(v) /\ Behind(view[w], v) /\ Behind(v, db)
         /\ JobFits(job[w], v) /\ v.status = view[w].status /\ v.status # "NONE"
         /\ job[w] \in Jobs /\ view[w] \in Database
<1>1. /\ view[w] \in Database /\ job[w] \in Jobs
      /\ Shape(view[w]) /\ Behind(view[w], db) /\ JobFits(job[w], view[w])
  <2>1. view[w] \in Database /\ job[w] \in Jobs
      BY DEF RunInv, Loop, LoopInv, LoopTyped, LoopOK, UnitsOfWork
  <2> QED BY <2>1 DEF RunInv, WorkerFits
<1>2. Behind(view[w], view[w]) BY <1>1, GensType DEF Behind
<1>3. CASE v = view[w] BY <1>1, <1>2, <1>3 DEF JobFits
<1>4. CASE v = [db EXCEPT !.status = view[w].status]
  <2>1. view[w].status \in RunStatus BY <1>1, GensType
  <2>2. v \in Database /\ v.status = view[w].status /\ Keeps(db, v) /\ Shape(v)
      BY <1>4, <2>1, StatusApart DEF RunInv
  <2>3. view[w].status # "NONE" BY <1>1 DEF JobFits
  <2>4. Behind(view[w], v) /\ Behind(v, db)
      BY <1>1, <2>2, <2>3, GensType DEF Keeps, Behind, RunInv
  <2>5. JobFits(job[w], v) BY <1>1, <2>2, <2>4, FitsStill, GensType
  <2> QED BY <1>1, <2>2, <2>3, <2>4, <2>5
<1> QED BY <1>3, <1>4 DEF Reads

\* The unit of work ends and the handler goes on.
Continues(w) ==
  /\ Works(w, Jobs, Database, UnitsOfWork)
  /\ db' \in Database /\ Grows(db, db') /\ StatusFits(db')
  /\ db.status # "NONE" => db'.status # "NONE"
  /\ view' = [view EXCEPT ![w] = None] /\ UNCHANGED api
  /\ pc'[w] \in UnitsOf(job[w].type) \union Anywhere
  /\ pc'[w] = "opened" => HasCritics(db', job[w].gen)
  /\ \A u \in Workers \ {w} : todo'[u] = todo[u] /\ pc'[u] = pc[u]
  /\ \A j \in todo'[w] : JobFits(j, db')

Inside(w) ==
  pc[w] \in {"create", "judging", "finalize", "start", "calling", "result", "schedule", "opened", "failrun"}

LEMMA GotoContinues ==
  ASSUME RunInv, NEW w \in Workers, Inside(w),
         NEW where \in UnitsOf(job[w].type) \union {"enqueue", "settle", "raised"},
         NEW keys \in SUBSET Jobs, where = "enqueue" <=> keys # {},
         where = "opened" => HasCritics(db', job[w].gen),
         Goto(w, where, keys), UNCHANGED <<jobs, api, job, budget>>,
         db' \in Database, Grows(db, db'), StatusFits(db'),
         db.status # "NONE" => db'.status # "NONE",
         \A j \in keys : JobFits(j, db')
  PROVE  Continues(w)
<1>1. UnitsOf(job[w].type) \subseteq UnitsOfWork \union {"calling"} BY DEF UnitsOf, UnitsOfWork
<1>2. where # "terminal" BY DEF UnitsOf
<1>3. Works(w, Jobs, Database, UnitsOfWork)
    BY <1>1, <1>2, RunSetting, GotoWorks DEF RunInv, Loop, Inside, UnitsOfWork, Between
<1>4. /\ pc'[w] = where /\ todo'[w] = keys
      /\ \A u \in Workers \ {w} : todo'[u] = todo[u] /\ pc'[u] = pc[u]
    BY DEF Goto, RunInv, Loop, LoopInv, LoopTyped
<1> QED BY <1>3, <1>4 DEF Continues, Goto, Anywhere

LEMMA ReturnContinues ==
  ASSUME RunInv, NEW w \in Workers, Inside(w),
         NEW where \in UnitsOf(job[w].type) \union {"enqueue", "settle", "raised"}, where # "opened",
         NEW keys \in SUBSET Jobs, where = "enqueue" <=> keys # {},
         \A j \in keys : JobFits(j, db), Return(w, where, keys)
  PROVE  Continues(w)
<1>1. db' = db /\ Goto(w, where, keys) /\ UNCHANGED <<jobs, api, job, budget>> BY DEF Return
<1>2. Grows(db, db') BY <1>1 DEF Grows, Keeps
<1>3. \A j \in keys : JobFits(j, db') BY <1>1
<1>4. db' \in Database /\ StatusFits(db') BY <1>1 DEF RunInv
<1> QED BY <1>1, <1>2, <1>3, <1>4, GotoContinues

LEMMA RaiseContinues ==
  ASSUME RunInv, NEW w \in Workers, Inside(w), Raise(w)
  PROVE  Continues(w)
<1>1. Return(w, "raised", {}) BY DEF Raise
<1>2. \A j \in {} : JobFits(j, db) OBVIOUS
<1>3. "raised" \in UnitsOf(job[w].type) \union {"enqueue", "settle", "raised"} OBVIOUS
<1> QED BY <1>1, <1>2, <1>3, ReturnContinues

LEMMA CommitContinues ==
  ASSUME RunInv, NEW w \in Workers, Inside(w),
         NEW where \in UnitsOf(job[w].type) \union {"enqueue", "settle", "raised"},
         NEW keys \in SUBSET Jobs, where = "enqueue" <=> keys # {},
         NEW new \in Database, Grows(db, new), StatusFits(new),
         db.status # "NONE" => new.status # "NONE",
         where = "opened" => HasCritics(new, job[w].gen),
         \A j \in keys : JobFits(j, new), Commit(w, new, where, keys)
  PROVE  Continues(w)
<1>1. db' = new /\ Goto(w, where, keys) /\ UNCHANGED <<jobs, api, job, budget>> BY DEF Commit
<1>2. db' \in Database /\ Grows(db, db') /\ StatusFits(db') /\ (db.status # "NONE" => db'.status # "NONE")
    BY <1>1
<1>3. \A j \in keys : JobFits(j, db') BY <1>1
<1> QED BY <1>1, <1>2, <1>3, GotoContinues

LEMMA CommitStatusContinues ==
  ASSUME RunInv, NEW w \in Workers, Inside(w),
         NEW where \in UnitsOf(job[w].type) \union {"enqueue", "settle", "raised"}, where # "opened",
         NEW keys \in SUBSET Jobs, where = "enqueue" <=> keys # {},
         NEW new \in Database, Grows(db, new),
         NEW target \in RunStatus, target # "NONE",
         StatusFits([new EXCEPT !.status = target]),
         \A j \in keys : JobFits(j, [new EXCEPT !.status = target]),
         CommitStatus(w, new, target, where, keys)
  PROVE  Continues(w)
<1> DEFINE e == [new EXCEPT !.status = target]
<1>1. e \in Database /\ e.status = target /\ Keeps(new, e) BY StatusApart
<1>2. Grows(db, e)
  <2>2. \A g : JudgesFollow(e, g) = JudgesFollow(new, g) BY StatusApart
  <2> HIDE DEF e
  <2> QED BY <1>1, <2>2 DEF Grows, Keeps, AddsSubmission, AddsEvaluations, AddsFinding, SpawnsJudges,
                     SpawnsCritics, Breeds
<1>3. Commit(w, e, where, keys) \/ Raise(w) BY DEF CommitStatus
<1> HIDE DEF e
<1>4. CASE Commit(w, e, where, keys)
  <2>1. StatusFits(e) /\ \A j \in keys : JobFits(j, e) BY DEF e
  <2> QED BY <1>1, <1>2, <1>4, <2>1, CommitContinues
<1> QED BY <1>3, <1>4, RaiseContinues

-----------------------------------------------------------------------------
(* The units of work, one by one.                                           *)

LEMMA HolderFits ==
  ASSUME RunInv, NEW w \in Workers, job[w] # None
  PROVE  job[w] \in Jobs /\ JobFits(job[w], db) /\ JobShape(job[w])
<1>1. job[w] \in Jobs /\ jobs[job[w]].status # "absent"
    BY DEF RunInv, Loop, LoopInv, LoopTyped, HoldsRow
<1> QED BY <1>1, JobParts DEF RunInv

\* Where a worker with an open unit of work is, and on which job.
LEMMA InsideFits ==
  ASSUME RunInv, NEW w \in Workers, Inside(w)
  PROVE  /\ job[w] # None /\ job[w] \in Jobs /\ JobFits(job[w], db) /\ job[w].gen \in Generations
         /\ pc[w] = "create" => job[w] = CreateJob
         /\ pc[w] = "judging" => job[w] = StartJudgingJob(job[w].gen)
         /\ pc[w] = "finalize" => job[w] = FinalizeJob(job[w].gen)
         /\ pc[w] \in {"start", "calling", "result", "schedule", "opened", "failrun"} =>
              job[w].type \in AgentJobs /\ job[w].agent \in Here(db)
         /\ pc[w] \in UnitsOf(job[w].type)
         /\ pc[w] # "create" => job[w].gen < db.gens
         /\ db.status # "NONE"
<1>1. job[w] # None BY DEF Inside, RunInv, Loop, LoopInv, LoopOK
<1>2. job[w] \in Jobs /\ JobFits(job[w], db) /\ job[w].gen \in Generations BY <1>1, HolderFits, JobParts
<1>3. pc[w] \in UnitsOf(job[w].type) BY <1>1 DEF Inside, RunInv, WorkerFits, Anywhere
<1>4. job[w].type \in {"CREATE_GENERATION", "START_JUDGING", "FINALIZE_RUN"} \union AgentJobs
    BY <1>2, TypeSays
<1>5. /\ pc[w] = "create" => job[w].type = "CREATE_GENERATION"
      /\ pc[w] = "judging" => job[w].type = "START_JUDGING"
      /\ pc[w] = "finalize" => job[w].type = "FINALIZE_RUN"
      /\ pc[w] \in {"start", "calling", "result", "schedule", "opened", "failrun"} => job[w].type \in AgentJobs
    BY <1>3, <1>4 DEF UnitsOf, AgentJobs
<1>6. job[w].type \in AgentJobs => job[w].agent \in Here(db)
    BY <1>2, TypeSays, NoneAssumption DEF JobFits
<1>7. pc[w] # "create" => job[w] # CreateJob BY <1>2, <1>3, TypeSays DEF UnitsOf
<1>8. (pc[w] # "create" => job[w].gen < db.gens) /\ db.status # "NONE" BY <1>2, <1>7 DEF JobFits
<1> QED BY <1>1, <1>2, <1>3, <1>5, <1>6, <1>8, TypeSays

LEMMA AgentUpdatesKeep ==
  ASSUME NEW d \in Database, NEW seen, NEW a \in Here(d), NEW status \in AgentStatus \ {"ABSENT"}
  PROVE  LET e == AgentUpdates(d, seen, a, status)
         IN  /\ e \in Database /\ Keeps(d, e) /\ Here(e) = Here(d) /\ e.status = d.status
             /\ e.gens = d.gens /\ e.subs = d.subs /\ e.evals = d.evals /\ e.finds = d.finds
             /\ e.cands = d.cands /\ e.verdict = d.verdict
             /\ e.survivors = d.survivors /\ e.parent = d.parent
             /\ \A b \in Agents : e.agents[b] = d.agents[b] \/ (b = a /\ e.agents[b] = status)
<1> DEFINE e == AgentUpdates(d, seen, a, status)
<1>1. e = d \/ e = [d EXCEPT !.agents[a] = status] BY DEF AgentUpdates
<1>2. a \in Agents BY DEF Here
<1> HIDE DEF e
<1>3. /\ e \in Database /\ e.status = d.status /\ e.gens = d.gens
      /\ e.subs = d.subs /\ e.evals = d.evals /\ e.finds = d.finds
      /\ e.cands = d.cands /\ e.verdict = d.verdict
      /\ e.survivors = d.survivors /\ e.parent = d.parent
      /\ \A b \in Agents : e.agents[b] = d.agents[b] \/ (b = a /\ e.agents[b] = status)
  <2>1. CASE e = d BY <2>1
  <2>2. CASE e = [d EXCEPT !.agents[a] = status] BY <1>2, <2>2 DEF Database
  <2> QED BY <1>1, <2>1, <2>2
<1>4. Here(e) = Here(d)
  <2>1. \A b \in Agents : e.agents[b] # "ABSENT" <=> d.agents[b] # "ABSENT" BY <1>3 DEF Here
  <2> QED BY <2>1 DEF Here
<1>5. Keeps(d, e) BY <1>3, <1>4 DEF Keeps
<1> QED BY <1>3, <1>4, <1>5 DEF e

LEMMA CandidateUpdatesKeep ==
  ASSUME NEW d \in Database, NEW seen, NEW s \in Submissions, NEW status \in CandidateStatus,
         NEW e, e = CandidateUpdates(d, seen, s, status)
  PROVE  /\ e \in Database /\ Keeps(d, e) /\ e.status = d.status /\ e.agents = d.agents
         /\ e.verdict = d.verdict /\ e.survivors = d.survivors /\ e.parent = d.parent
<1>1. CASE e = d BY <1>1 DEF Keeps
<1>2. CASE e = [d EXCEPT !.cands[s] = status]
  <2>1. [d.cands EXCEPT ![s] = status] \in [Submissions -> CandidateStatus] BY DEF Database
  <2>2. e = [d EXCEPT !.cands = [d.cands EXCEPT ![s] = status]] BY <1>2
  <2>3. /\ e \in Database /\ e.status = d.status /\ e.agents = d.agents /\ e.gens = d.gens
        /\ e.subs = d.subs /\ e.evals = d.evals /\ e.finds = d.finds
        /\ e.verdict = d.verdict /\ e.survivors = d.survivors /\ e.parent = d.parent
      BY <2>1, <2>2 DEF Database
  <2> QED BY <2>3 DEF Keeps, Here
<1> QED BY <1>1, <1>2 DEF CandidateUpdates

LEMMA CandidateUpdatesTo ==
  ASSUME NEW d \in Database, NEW seen, NEW s \in Submissions, NEW status \in CandidateStatus,
         NEW t \in Submissions
  PROVE  CandidateUpdates(d, seen, s, status).cands[t]
           = IF t = s /\ seen.cands[s] # status THEN status ELSE d.cands[t]
BY DEF CandidateUpdates, Database

\* Agents are spawned.
LEMMA SpawnedHere ==
  ASSUME NEW d \in Database, NEW new \in SUBSET Agents, NEW e \in Database,
         e.agents = Spawned(d.agents, new)
  PROVE  Here(e) = Here(d) \union new
BY DEF Spawned, Here

LEMMA StartRunContinues ==
  ASSUME RunInv, NEW w \in Workers, StartRun(w)
  PROVE  Continues(w)
<1>1. Inside(w) /\ view[w] # None /\ pc[w] = "create" BY DEF StartRun, At, Inside
<1> DEFINE New(v) == IF v.gens > 0 THEN db
                     ELSE [db EXCEPT !.gens = 1, !.agents = Spawned(db.agents, Researchers(0))]
           keys == {ResearchJob(a) : a \in Researchers(0)}
<1>2. PICK v \in Reads(w) :
        IF v.status = "FAILED" \/ (v.gens = 0 /\ db.gens > 0) THEN Raise(w)
        ELSE IF v.status = "CREATED" THEN CommitStatus(w, New(v), "RESEARCHING", "enqueue", keys)
        ELSE IF v.status = "COMPLETED" THEN Commit(w, New(v), "settle", {})
        ELSE Commit(w, New(v), "enqueue", keys)
    BY DEF StartRun
<1> DEFINE new == New(v)
<1>3. /\ v \in Database /\ Behind(view[w], v) /\ Behind(v, db) /\ view[w] \in Database
      /\ v.status = view[w].status /\ v.status # "NONE"
    BY <1>1, ReadsFit
<1>4. StatusFits(view[w]) BY <1>1 DEF RunInv, WorkerFits
<1>5. v.gens = 0 => v.status \in {"CREATED", "FAILED"}
    BY <1>3, <1>4, GensType, RunCreateAssumption DEF StatusFits, Behind, RunStatus
<1>6. keys \in SUBSET Jobs /\ keys # {}
  <2>1. Agent(0, "researcher", 1, 1) \in Researchers(0) BY RunCreateAssumption DEF Researchers
  <2> QED BY <2>1, JobSets, GenerationsType
<1>7. CASE v.status = "FAILED" \/ (v.gens = 0 /\ db.gens > 0)
    BY <1>1, <1>2, <1>7, RaiseContinues
<1>8. CASE ~(v.status = "FAILED" \/ (v.gens = 0 /\ db.gens > 0))
  <2>1. db \in Database /\ db.gens \in Nat /\ v.gens \in Nat BY <1>3, GensType DEF RunInv
  <2>2. new \in Database /\ Grows(db, new) /\ new.status = db.status /\ new.gens > 0
    <3>1. CASE v.gens > 0
      <4>1. new = db BY <3>1
      <4>2. db.gens > 0 BY <1>3, <2>1, <3>1 DEF Behind
      <4> QED BY <2>1, <4>1, <4>2 DEF Grows, Keeps
    <3>2. CASE v.gens = 0
      <4>1. db.gens = 0 BY <1>8, <2>1, <3>2
      <4>2. new = [db EXCEPT !.gens = 1, !.agents = Spawned(db.agents, Researchers(0))] BY <3>2
      <4>3. Spawned(db.agents, Researchers(0)) \in [Agents -> AgentStatus]
          BY <2>1 DEF Spawned, Database, AgentStatus
      <4> HIDE DEF New
      <4>4. /\ new \in Database /\ new.gens = 1 /\ new.status = db.status
            /\ new.subs = db.subs /\ new.evals = db.evals /\ new.finds = db.finds
            /\ new.agents = Spawned(db.agents, Researchers(0))
        <5>1. 1 \in 0..MaxGenerations BY RunCreateAssumption
        <5> QED BY <2>1, <4>2, <4>3, <5>1 DEF Database
      <4>5. Here(new) = Here(db) \union Researchers(0)
          BY <2>1, <4>4, SpawnedHere, AgentSets, GenerationsType
      <4>6. Breeds(db, new) BY <4>1, <4>4, <4>5 DEF Breeds
      <4> QED BY <4>4, <4>6 DEF Grows
    <3> QED BY <2>1, <3>1, <3>2
  <2> HIDE DEF New
  <2>3. Researchers(0) \subseteq Here(new)
    <3>1. Shape(new) BY <2>1, <2>2, GrowsInShape DEF RunInv
    <3>2. \A a \in Researchers(0) : a \in Submissions /\ a.gen = 0
        BY AgentSets, GenerationsType, ResearcherParts
    <3> QED BY <2>2, <3>1, <3>2 DEF Shape
  <2>4. \A j \in keys : j.gen = 0 /\ j.agent \in Researchers(0)
      BY ResearcherParts DEF ResearchJob, Job
  <2> HIDE DEF keys
  <2>5. CASE v.status = "CREATED"
    <3> DEFINE e == [new EXCEPT !.status = "RESEARCHING"]
    <3>1. e.status = "RESEARCHING" /\ Here(e) = Here(new) /\ e.gens = new.gens
        BY <2>2, StatusApart DEF Keeps, RunStatus
    <3> HIDE DEF e
    <3>2. StatusFits(e) BY <2>2, <3>1 DEF StatusFits
    <3>3. \A j \in keys : JobFits(j, e) BY <2>2, <2>3, <2>4, <3>1 DEF JobFits
    <3> USE DEF e
    <3> QED BY <1>1, <1>2, <1>6, <1>8, <2>2, <2>5, <3>2, <3>3, CommitStatusContinues DEF RunStatus
  <2>6. CASE v.status # "CREATED"
    <3>1. new = db BY <1>5, <1>8, <2>1, <2>6 DEF New
    <3>2. StatusFits(new) /\ new.status # "NONE" BY <1>3, <3>1 DEF RunInv, Behind
    <3>3. \A j \in keys : JobFits(j, new) BY <2>2, <2>3, <2>4, <3>2 DEF JobFits
    <3>4. CASE v.status = "COMPLETED"
      <4>1. Commit(w, new, "settle", {}) BY <1>2, <1>8, <3>4
      <4> QED BY <1>1, <2>2, <3>2, <4>1, CommitContinues
    <3>5. CASE v.status # "COMPLETED"
      <4>1. Commit(w, new, "enqueue", keys) BY <1>2, <1>8, <2>6, <3>5
      <4> QED BY <1>1, <1>6, <2>2, <3>2, <3>3, <4>1, CommitContinues
    <3> QED BY <3>4, <3>5
  <2> QED BY <2>5, <2>6
<1> QED BY <1>7, <1>8

LEMMA GrowsThenKeeps ==
  ASSUME NEW d, NEW e, NEW f, Grows(d, e), Keeps(e, f)
  PROVE  Grows(d, f)
<1>1. \A g : JudgesFollow(f, g) = JudgesFollow(e, g) BY DEF JudgesFollow, Keeps
<1> QED BY <1>1 DEF Grows, Keeps, AddsSubmission, AddsEvaluations, AddsFinding, SpawnsJudges,
                   SpawnsCritics, Breeds

LEMMA StatusStill ==
  ASSUME NEW d, NEW e, StatusFits(d), e.status = d.status, e.gens = d.gens, Behind(d, e)
  PROVE  StatusFits(e)
<1>1. \A g : /\ JudgesFollow(d, g) => JudgesFollow(e, g)
             /\ JudgedIn(d, g) => JudgedIn(e, g)
    BY FollowStill DEF Behind
<1> QED BY <1>1 DEF StatusFits

\* A generation whose judging is complete is judged, in both roles and of its
\* whole population.
LEMMA CompleteIsJudged ==
  ASSUME NEW v \in Database, Shape(v), NEW g \in Generations, JudgesPresent(v, g)
  PROVE  /\ JudgesFollow(v, g) /\ Researchers(g) \subseteq v.subs
         /\ JudgingComplete(v, g) => JudgedIn(v, g)
<1> DEFINE P == Present(v, JudgesOf(g))
<1>1. P # {} BY FS_EmptySet DEF JudgesPresent, JudgeCount
<1>2. PICK a \in P : a \in Here(v) /\ a.role = "judge" /\ a.gen = g
    BY <1>1, JudgeParts, AgentSets DEF Present, Here
<1>3. JudgesFollow(v, g) /\ Researchers(g) \subseteq v.subs BY <1>2 DEF Shape
<1>4. ASSUME JudgingComplete(v, g) PROVE JudgedIn(v, g)
  <2> SUFFICES ASSUME NEW s \in Researchers(g), NEW i \in 1..JudgeCount
               PROVE  \E c \in Copies : <<s, Agent(g, "judge", i, c)>> \in v.evals
      BY DEF JudgedIn
  <2>1. PICK c \in Copies : Agent(g, "judge", i, c) \in Here(v) BY <1>3 DEF JudgesFollow
  <2>2. Agent(g, "judge", i, c) \in P BY <2>1 DEF Present, Here, JudgesOf
  <2>3. s \in SubsOf(v, g) BY <1>3 DEF SubsOf
  <2>4. {e \in v.evals : e[1] \in Researchers(g)} = SubsOf(v, g) \X P
      BY <1>4 DEF JudgingComplete, EvaluationsComplete
  <2>5. <<s, Agent(g, "judge", i, c)>> \in SubsOf(v, g) \X P BY <2>2, <2>3
  <2> QED BY <2>4, <2>5
<1> QED BY <1>3, <1>4

LEMMA MaybeScheduleJudgingContinues ==
  ASSUME RunInv, NEW w \in Workers, MaybeScheduleJudging(w)
  PROVE  Continues(w)
<1> DEFINE g == job[w].gen
<1>1. Inside(w) /\ pc[w] = "schedule" BY DEF MaybeScheduleJudging, At, Inside
<1>2. /\ job[w] \in Jobs /\ JobFits(job[w], db) /\ g \in Generations /\ job[w].type \in AgentJobs
      /\ pc[w] \in UnitsOf(job[w].type)
    BY <1>1, InsideFits
<1>3. "failrun" \in UnitsOf(job[w].type) BY <1>2 DEF UnitsOf, AgentJobs
<1>4. g < db.gens /\ db.status # "NONE" BY <1>2 DEF JobFits, CreateJob, Job, AgentJobs
<1>5. \/ Return(w, "settle", {}) \/ Return(w, "failrun", {})
      \/ Return(w, "enqueue", {StartJudgingJob(g)})
    BY DEF MaybeScheduleJudging
<1>6. JobFits(StartJudgingJob(g), db) /\ StartJudgingJob(g) \in Jobs
    BY <1>2, <1>4, JobSets DEF JobFits, StartJudgingJob, Job
<1>7. CASE Return(w, "settle", {}) BY <1>1, <1>7, ReturnContinues
<1>8. CASE Return(w, "failrun", {}) BY <1>1, <1>3, <1>8, ReturnContinues
<1>9. CASE Return(w, "enqueue", {StartJudgingJob(g)}) BY <1>1, <1>6, <1>9, ReturnContinues
<1> QED BY <1>5, <1>7, <1>8, <1>9

\* What start_judging reads, and the judges it spawns.
Missing(w, v) == MissingJudges(v, job[w].gen)
Added(w, v) ==
  {Agent(job[w].gen, "judge", i, Cardinality(JudgeCopies(db, job[w].gen, i)) + 1) : i \in Missing(w, v)}
Kept(w, v) ==
  {Agent(job[w].gen, "judge", i, CHOOSE c \in JudgeCopies(v, job[w].gen, i) : TRUE) :
     i \in 1..JudgeCount \ Missing(w, v)}
Judging(w, v) == [db EXCEPT !.agents = Spawned(@, Added(w, v))]
ToJudge(w, v) == {JudgeJob(a) : a \in Added(w, v) \union Kept(w, v)}

LEMMA StartJudgingEffect ==
  ASSUME RunInv, NEW w \in Workers, StartJudging(w)
  PROVE  \/ Return(w, "settle", {}) \/ Raise(w)
         \/ \E v \in Reads(w) :
              /\ v.status \in {"RESEARCHING", "JUDGING"} /\ IsLatest(v, job[w].gen)
              /\ ResearchComplete(v, job[w].gen) /\ Added(w, v) \subseteq JudgesOf(job[w].gen)
              /\ IF v.status = "RESEARCHING"
                   THEN CommitStatus(w, Judging(w, v), "JUDGING", ThenEnqueue(ToJudge(w, v)), ToJudge(w, v))
                   ELSE Commit(w, Judging(w, v), ThenEnqueue(ToJudge(w, v)), ToJudge(w, v))
<1>1. PICK v \in Reads(w) :
        LET g == job[w].gen
            missing == MissingJudges(v, g)
            added == {Agent(g, "judge", i, Cardinality(JudgeCopies(db, g, i)) + 1) : i \in missing}
            kept == {Agent(g, "judge", i, CHOOSE c \in JudgeCopies(v, g, i) : TRUE) :
                       i \in 1..JudgeCount \ missing}
            new == [db EXCEPT !.agents = Spawned(@, added)]
            keys == {JudgeJob(a) : a \in JudgesToRun(added, kept)}
        IN  IF v.status = "COMPLETED" THEN Return(w, "settle", {})
            ELSE IF v.status \notin {"RESEARCHING", "JUDGING"} THEN Raise(w)
            ELSE IF ~IsLatest(v, g) THEN Return(w, "settle", {})
            ELSE IF ~ResearchComplete(v, g) THEN Raise(w)
            ELSE /\ added \subseteq JudgesOf(g)
                 /\ IF v.status = "RESEARCHING"
                      THEN CommitStatus(w, new, "JUDGING", ThenEnqueue(keys), keys)
                      ELSE Commit(w, new, ThenEnqueue(keys), keys)
    BY DEF StartJudging
<1>2. Missing(w, v) = MissingJudges(v, job[w].gen) BY DEF Missing
<1> QED BY <1>1, <1>2, Zenon DEF Added, Kept, Judging, ToJudge, JudgesToRun

LEMMA SpawnsTheJudges ==
  ASSUME RunInv, NEW w \in Workers, pc[w] = "judging", view[w] # None, NEW v \in Reads(w),
         ResearchComplete(v, job[w].gen), Added(w, v) \subseteq JudgesOf(job[w].gen)
  PROVE  /\ Judging(w, v) \in Database /\ SpawnsJudges(db, Judging(w, v))
         /\ Here(Judging(w, v)) = Here(db) \union Added(w, v)
         /\ Judging(w, v).status = db.status
         /\ Judging(w, v).cands = db.cands /\ Judging(w, v).verdict = db.verdict
         /\ Judging(w, v).survivors = db.survivors /\ Judging(w, v).parent = db.parent
         /\ ToJudge(w, v) \in SUBSET Jobs /\ JudgesFollow(Judging(w, v), job[w].gen)
         /\ \A j \in ToJudge(w, v) : j.gen = job[w].gen /\ j.agent \in Here(Judging(w, v))
<1> DEFINE g == job[w].gen
           e == Judging(w, v)
<1>1. /\ job[w] \in Jobs /\ JobFits(job[w], db) /\ g \in Generations /\ g < db.gens
      /\ v \in Database /\ Behind(v, db) /\ db \in Database
  <2>1. Inside(w) BY DEF Inside
  <2> QED BY <2>1, InsideFits, ReadsFit DEF RunInv
<1>2. Added(w, v) \subseteq Agents BY <1>1, AgentSets
<1>3. Spawned(db.agents, Added(w, v)) \in [Agents -> AgentStatus]
    BY <1>1 DEF Spawned, Database, AgentStatus
<1>4. /\ e \in Database /\ e.agents = Spawned(db.agents, Added(w, v)) /\ e.status = db.status
      /\ e.gens = db.gens /\ e.subs = db.subs /\ e.evals = db.evals /\ e.finds = db.finds
      /\ e.cands = db.cands /\ e.verdict = db.verdict
      /\ e.survivors = db.survivors /\ e.parent = db.parent
    BY <1>1, <1>3 DEF Judging, Database
<1> HIDE DEF e
<1>5. Here(e) = Here(db) \union Added(w, v) BY <1>1, <1>2, <1>4, SpawnedHere
<1>6. Researchers(g) \subseteq db.subs BY <1>1 DEF ResearchComplete, SubsOf, Behind
<1>7. ASSUME NEW i \in 1..JudgeCount, i \notin Missing(w, v)
      PROVE  /\ JudgeCopies(v, g, i) # {}
             /\ \A c \in JudgeCopies(v, g, i) :
                  Agent(g, "judge", i, c) \in JudgesOf(g) /\ Agent(g, "judge", i, c) \in Here(db)
  <2>1. JudgeCopies(v, g, i) # {} BY <1>7 DEF Missing, MissingJudges
  <2>2. ASSUME NEW c \in JudgeCopies(v, g, i)
        PROVE  Agent(g, "judge", i, c) \in JudgesOf(g) /\ Agent(g, "judge", i, c) \in Here(v)
      BY <1>1, AgentSets DEF JudgeCopies, JudgesOf, Here
  <2> QED BY <1>1, <2>1, <2>2 DEF Behind
<1>8. JudgesFollow(e, g)
  <2> SUFFICES ASSUME NEW i \in 1..JudgeCount
               PROVE  \E c \in Copies : Agent(g, "judge", i, c) \in Here(e)
      BY DEF JudgesFollow
  <2>1. CASE i \in Missing(w, v)
    <3> DEFINE a == Agent(g, "judge", i, Cardinality(JudgeCopies(db, g, i)) + 1)
    <3>1. a \in Added(w, v) BY <2>1 DEF Added
    <3>2. a.copy \in Copies BY <3>1, JudgeParts
    <3>3. a = Agent(g, "judge", i, a.copy) BY DEF Agent
    <3> HIDE DEF a
    <3> QED BY <1>5, <3>1, <3>2, <3>3
  <2>2. CASE i \notin Missing(w, v)
    <3>1. PICK c \in JudgeCopies(v, g, i) : Agent(g, "judge", i, c) \in Here(db) BY <1>7, <2>2
    <3> QED BY <1>5, <3>1 DEF JudgeCopies
  <2> QED BY <2>1, <2>2
<1>9. SpawnsJudges(db, e) BY <1>1, <1>4, <1>5, <1>6, <1>8 DEF SpawnsJudges
<1>10. Kept(w, v) \subseteq JudgesOf(g) \intersect Here(db)
  <2> SUFFICES ASSUME NEW i \in 1..JudgeCount \ Missing(w, v)
               PROVE  Agent(g, "judge", i, CHOOSE c \in JudgeCopies(v, g, i) : TRUE)
                        \in JudgesOf(g) \intersect Here(db)
      BY DEF Kept
  <2>1. (CHOOSE c \in JudgeCopies(v, g, i) : TRUE) \in JudgeCopies(v, g, i) BY <1>7
  <2> QED BY <1>7, <2>1
<1>11. ASSUME NEW a \in Added(w, v) \union Kept(w, v)
       PROVE  JudgeJob(a) \in Jobs /\ JudgeJob(a).gen = g /\ JudgeJob(a).agent \in Here(e)
  <2>1. a \in JudgesOf(g) /\ a \in Here(e) BY <1>5, <1>10
  <2> QED BY <1>1, <2>1, JobSets, JudgeParts DEF JudgeJob, Job
<1>12. ToJudge(w, v) \in SUBSET Jobs /\ \A j \in ToJudge(w, v) : j.gen = g /\ j.agent \in Here(e)
    BY <1>11 DEF ToJudge
<1> QED BY <1>4, <1>5, <1>8, <1>9, <1>12 DEF e

LEMMA StartJudgingContinues ==
  ASSUME RunInv, NEW w \in Workers, StartJudging(w)
  PROVE  Continues(w)
<1>1. Inside(w) /\ pc[w] = "judging" /\ view[w] # None BY DEF StartJudging, At, Inside
<1>2. CASE Return(w, "settle", {}) BY <1>1, <1>2, ReturnContinues
<1>3. CASE Raise(w) BY <1>1, <1>3, RaiseContinues
<1>4. ASSUME NEW v \in Reads(w), ResearchComplete(v, job[w].gen),
             Added(w, v) \subseteq JudgesOf(job[w].gen),
             \/ CommitStatus(w, Judging(w, v), "JUDGING", ThenEnqueue(ToJudge(w, v)), ToJudge(w, v))
             \/ Commit(w, Judging(w, v), ThenEnqueue(ToJudge(w, v)), ToJudge(w, v))
      PROVE  Continues(w)
  <2> DEFINE new == Judging(w, v)
             keys == ToJudge(w, v)
             where == ThenEnqueue(keys)
             e == [new EXCEPT !.status = "JUDGING"]
  <2>1. /\ new \in Database /\ SpawnsJudges(db, new) /\ new.status = db.status
        /\ keys \in SUBSET Jobs /\ \A j \in keys : j.gen = job[w].gen /\ j.agent \in Here(new)
      BY <1>1, <1>4, SpawnsTheJudges
  <2>2. db.status # "NONE" /\ job[w].gen < db.gens /\ db.gens \in Nat /\ job[w].gen \in Nat
      BY <1>1, InsideFits, GensType, GenerationsType DEF RunInv
  <2>3. Grows(db, new) /\ new.gens = db.gens BY <2>1 DEF Grows, SpawnsJudges
  <2>4. Behind(db, new) BY <2>1, <2>3, GrowsAhead DEF RunInv
  <2>5. StatusFits(new) BY <2>1, <2>3, <2>4, StatusStill DEF RunInv
  <2>6. e.status = "JUDGING" /\ Here(e) = Here(new) /\ e.gens = new.gens
      BY <2>1, StatusApart DEF Keeps, RunStatus
  <2>7. where \in {"settle", "enqueue"} /\ (where = "enqueue" <=> keys # {}) BY DEF ThenEnqueue
  <2> HIDE DEF new, keys, where, e
  <2>8. StatusFits(e) BY <2>2, <2>3, <2>6 DEF StatusFits
  <2>9. \A j \in keys : JobFits(j, new) /\ JobFits(j, e)
      BY <2>1, <2>2, <2>3, <2>6 DEF JobFits
  <2>10. CASE Commit(w, new, where, keys)
      BY <1>1, <2>1, <2>2, <2>3, <2>5, <2>7, <2>9, <2>10, CommitContinues
  <2>11. CASE CommitStatus(w, new, "JUDGING", where, keys)
      BY <1>1, <2>1, <2>3, <2>7, <2>8, <2>9, <2>11, CommitStatusContinues DEF e, RunStatus
  <2> QED BY <1>4, <2>10, <2>11 DEF new, keys, where
<1> QED BY <1>2, <1>3, <1>4, StartJudgingEffect

\* The database after the critic stage of g was opened, by a judge that read the
\* candidates in s.
Opening(g) ==
  [s \in Submissions |->
     IF s \notin Researchers(g) THEN db.cands[s]
     ELSE IF s = Elite(g, {}) THEN "UNDER_ATTACK"
     ELSE IF s \in Selected(g, {}) THEN "PROMISING" ELSE "PROPOSED"]
NewCritics(g) == CriticSet(g, TimesOpened(db, g) + 1)
Opened(s, g) == [db EXCEPT !.agents = Spawned(@, NewCritics(g)),
                           !.cands = IF Unattacked(s, g) THEN Opening(g) ELSE @]

\* A set that has with a number all those before it ends before the next one.
LEMMA InitialSegment ==
  ASSUME NEW k \in Nat, NEW S \in SUBSET (1..k), \A c \in S : 1..c \subseteq S
  PROVE  /\ Cardinality(S) \in Nat /\ 1..Cardinality(S) \subseteq S
         /\ Cardinality(S) + 1 \notin S
<1> DEFINE T == {n \in Nat : n >= 1 /\ n \notin S}
<1>1. k + 1 \in T OBVIOUS
<1>2. PICK n \in T : \A m \in T : n <= m
  <2>1. T \in SUBSET Nat /\ T # {} BY <1>1
  <2> HIDE DEF T
  <2> QED BY <2>1, LeastNatural
<1>3. S = 1..n - 1
  <2>1. ASSUME NEW m \in 1..n - 1 PROVE m \in S
    <3>1. m \in Nat /\ m >= 1 /\ ~(n <= m) OBVIOUS
    <3> QED BY <1>2, <3>1
  <2>2. ASSUME NEW m \in S PROVE m \in 1..n - 1
    <3>1. m \in Nat /\ m >= 1 OBVIOUS
    <3>2. n \in 1..m => n \in S BY <2>2
    <3> QED BY <1>2, <3>1, <3>2
  <2> QED BY <2>1, <2>2
<1>4. Cardinality(S) = n - 1
  <2>1. n - 1 \in Nat BY <1>2
  <2> QED BY <1>3, <2>1, FS_Interval
<1> QED BY <1>2, <1>3, <1>4

\* The critics that are spawned are new, and those of the first opening are
\* there afterwards.
LEMMA NewCriticsAreNew ==
  ASSUME NEW g \in Generations, db \in Database, Shape(db), CriticCount # 0,
         NewCritics(g) \subseteq CriticsOf(g)
  PROVE  \E n \in CriticCopies :
           /\ NewCritics(g) = CriticSet(g, n) /\ NewCritics(g) \intersect Here(db) = {}
           /\ \A c \in 1..n - 1 : CriticSet(g, c) \subseteq Here(db)
<1> DEFINE K == JudgeCount + MaxLapses
           S == {c \in CriticCopies : Present(db, CriticSet(g, c)) # {}}
           n == TimesOpened(db, g) + 1
<1>1. K \in Nat /\ CriticCopies = 1..K BY LoopAssumption DEF JudgeCount, CriticCopies
<1>2. ASSUME NEW c \in S PROVE \A e \in 1..c : e \in S /\ CriticSet(g, e) \subseteq Here(db)
  <2>1. PICK a \in CriticSet(g, c) : db.agents[a] # "ABSENT" BY DEF Present
  <2>2. a \in CriticsOf(g) BY <2>1 DEF CriticsOf
  <2>3. a \in Here(db) /\ a.role = "critic" /\ a.gen = g BY <2>1, <2>2, CriticParts, AgentSets DEF Here
  <2>4. a.copy = c BY <2>1 DEF CriticSet, Agent
  <2>5. \A e \in 1..c : CriticSet(g, e) \subseteq Here(db) BY <2>3, <2>4 DEF Shape
  <2>6. ASSUME NEW e \in 1..c PROVE e \in S
    <3>1. Agent(g, "critic", 1, e) \in CriticSet(g, e) BY RunCreateAssumption DEF CriticSet
    <3>2. Present(db, CriticSet(g, e)) # {} BY <2>5, <3>1 DEF Present, Here
    <3>3. e \in CriticCopies BY <1>1
    <3> QED BY <3>2, <3>3
  <2> QED BY <2>5, <2>6
<1>3. Cardinality(S) = TimesOpened(db, g) BY DEF TimesOpened
<1>4. S \in SUBSET (1..K) BY <1>1
<1> HIDE DEF S, K
<1>5. \A c \in S : 1..c \subseteq S BY <1>2
<1>6. n - 1 \in Nat /\ 1..n - 1 \subseteq S /\ n \notin S
  <2>1. /\ Cardinality(S) \in Nat /\ 1..Cardinality(S) \subseteq S
        /\ Cardinality(S) + 1 \notin S
      BY <1>1, <1>4, <1>5, InitialSegment
  <2>2. n - 1 = Cardinality(S) /\ n = Cardinality(S) + 1 BY <1>3, <2>1
  <2> QED BY <2>1, <2>2
<1>7. n \in CriticCopies
  <2>1. Agent(g, "critic", 1, n) \in NewCritics(g) BY RunCreateAssumption DEF NewCritics, CriticSet
  <2>2. Agent(g, "critic", 1, n).copy = n BY DEF Agent
  <2> QED BY <2>1, <2>2, CriticParts
<1>8. NewCritics(g) = CriticSet(g, n) BY DEF NewCritics
<1>9. CriticSet(g, n) \intersect Here(db) = {}
    BY <1>6, <1>7 DEF S, Present, Here
<1>10. \A c \in 1..n - 1 : CriticSet(g, c) \subseteq Here(db)
  <2> SUFFICES ASSUME NEW c \in 1..n - 1 PROVE CriticSet(g, c) \subseteq Here(db) OBVIOUS
  <2>1. c \in S /\ c \in 1..c BY <1>6
  <2> QED BY <1>2, <2>1
<1> HIDE DEF n
<1> QED BY <1>7, <1>8, <1>9, <1>10

LEMMA OpensTheStage ==
  ASSUME NEW s, NEW g \in Generations, db \in Database, Shape(db), CriticCount # 0,
         NewCritics(g) \subseteq CriticsOf(g)
  PROVE  LET e == Opened(s, g)
         IN  /\ e \in Database /\ e.status = db.status /\ e.gens = db.gens
             /\ e.subs = db.subs /\ e.evals = db.evals /\ e.finds = db.finds
             /\ e.verdict = db.verdict /\ e.survivors = db.survivors /\ e.parent = db.parent
             /\ e.agents = Spawned(db.agents, NewCritics(g))
             /\ Here(e) = Here(db) \union NewCritics(g) /\ NewCritics(g) \intersect Here(db) = {}
             /\ e.cands = IF Unattacked(s, g) THEN Opening(g) ELSE db.cands
             /\ FirstCritics(g) \subseteq Here(e)
             /\ (g < db.gens /\ Researchers(g) \subseteq db.subs) => SpawnsCritics(db, e)
<1> DEFINE e == Opened(s, g)
<1>1. Opening(g) \in [Submissions -> CandidateStatus] BY DEF Opening, Database, CandidateStatus
<1>2. Spawned(db.agents, NewCritics(g)) \in [Agents -> AgentStatus]
    BY DEF Spawned, Database, AgentStatus
<1>3. /\ e \in Database /\ e.status = db.status /\ e.gens = db.gens
      /\ e.subs = db.subs /\ e.evals = db.evals /\ e.finds = db.finds
      /\ e.verdict = db.verdict /\ e.survivors = db.survivors /\ e.parent = db.parent
      /\ e.agents = Spawned(db.agents, NewCritics(g))
      /\ e.cands = IF Unattacked(s, g) THEN Opening(g) ELSE db.cands
  <2>1. CASE Unattacked(s, g) BY <1>1, <1>2, <2>1 DEF Opened, Database
  <2>2. CASE ~Unattacked(s, g) BY <1>2, <2>2 DEF Opened, Database
  <2> QED BY <2>1, <2>2
<1> HIDE DEF e
<1>4. Here(e) = Here(db) \union NewCritics(g) BY <1>3, SpawnedHere, AgentSets
<1>5. PICK n \in CriticCopies :
        /\ NewCritics(g) = CriticSet(g, n) /\ NewCritics(g) \intersect Here(db) = {}
        /\ \A c \in 1..n - 1 : CriticSet(g, c) \subseteq Here(db)
    BY NewCriticsAreNew
<1>6. n \in Nat /\ n >= 1 BY <1>5 DEF CriticCopies
<1>7. \A c \in 1..n : CriticSet(g, c) \subseteq Here(e)
  <2> SUFFICES ASSUME NEW c \in 1..n PROVE CriticSet(g, c) \subseteq Here(e) OBVIOUS
  <2>1. c = n \/ c \in 1..n - 1 BY <1>6
  <2> QED BY <1>4, <1>5, <2>1
<1>8. FirstCritics(g) \subseteq Here(e)
  <2>1. 1 \in 1..n BY <1>6
  <2> QED BY <1>7, <2>1 DEF FirstCritics
<1>9. (g < db.gens /\ Researchers(g) \subseteq db.subs) => SpawnsCritics(db, e)
    BY <1>3, <1>4, <1>5, <1>7 DEF SpawnsCritics
<1> QED BY <1>3, <1>4, <1>5, <1>8, <1>9 DEF e

\* The later of the two readings a unit of work may have, and what it may come
\* to when it hears the critics in the reading r, and their findings in f.
Now(w) == [db EXCEPT !.status = view[w].status]

Outcome(v, g) ==
  IF \E f \in {x \in v.finds : x.critic \in CriticsOf(g)} : f.fatal THEN "REFUTED" ELSE "VERIFICATION"
Pending(v, g) == {a \in Present(v, CriticsOf(g)) : v.agents[a] # "COMPLETED"}
Answers(v, g) == {f \in v.finds : f.critic \in CriticsOf(g)}

Listens(w, r, f, g) ==
  \/ SomeFailed(r, CriticsOf(g)) /\ Return(w, "failrun", {})
  \/ /\ ~SomeFailed(r, CriticsOf(g))
     /\ \/ Pending(r, g) # {} /\ Return(w, "enqueue", {CriticJob(a) : a \in Pending(r, g)})
        \/ /\ Pending(r, g) = {}
           /\ \/ Cardinality(Answers(f, g)) # CriticCount /\ Return(w, "settle", {})
              \/ /\ Cardinality(Answers(f, g)) = CriticCount
                 /\ \E seen \in {f, db} :
                      Commit(w, CandidateUpdates(db, seen, Elite(g, {}), Outcome(f, g)),
                             "enqueue", {FinalizeJob(g)})

\* It opens the stage, or it finds it open: then there is nothing to do, or it
\* hears the critics.
OpensIt(w, v, g) == \E c \in {v, Now(w)} : \E s \in {c, Now(w)} :
  /\ Present(c, CriticsOf(g)) = {}
  /\ \/ Unattacked(s, g) /\ ~Unattacked(db, g) /\ Raise(w)
     \/ /\ Unattacked(s, g) => Unattacked(db, g)
        /\ NewCritics(g) \subseteq CriticsOf(g) /\ Commit(w, Opened(s, g), "opened", {})
FindsItOpen(w, v, g) == \E c \in {v, Now(w)} : \E s \in {c, Now(w)} : \E f \in {s, Now(w)} :
  /\ Present(c, CriticsOf(g)) # {}
  /\ \/ /\ \A t \in Researchers(g) : s.cands[t] # "UNDER_ATTACK"
        /\ ~(Cardinality(Answers(f, g)) >= CriticCount) \/ Pending(c, g) # {}
        /\ Return(w, "settle", {})
     \/ \E r \in {f, Now(w)} : \E h \in {r, Now(w)} : Listens(w, r, h, g)

\* What maybe_schedule_finalize may come to with the reading v.
Schedules(w, v, g) ==
  \/ /\ \/ v.status # "JUDGING" \/ ~IsLatest(v, g) \/ ~JudgesPresent(v, g)
        \/ ~SomeFailed(v, JudgesOf(g)) /\ ~JudgingComplete(v, g)
     /\ Return(w, "settle", {})
  \/ /\ v.status = "JUDGING" /\ IsLatest(v, g) /\ JudgesPresent(v, g)
     /\ \/ SomeFailed(v, JudgesOf(g)) /\ Return(w, "failrun", {})
        \/ /\ JudgingComplete(v, g)
           /\ \/ CriticCount = 0 /\ Return(w, "enqueue", {FinalizeJob(g)})
              \/ CriticCount # 0 /\ (OpensIt(w, v, g) \/ FindsItOpen(w, v, g))

\* The database as it is and the later reading differ in nothing that is read
\* after the run.
LEMMA NowIsNow ==
  ASSUME db \in Database, NEW w, NEW g, NEW S
  PROVE  /\ Now(w).gens = db.gens /\ Now(w).agents = db.agents /\ Now(w).subs = db.subs
         /\ Now(w).evals = db.evals /\ Now(w).finds = db.finds /\ Now(w).cands = db.cands
         /\ Present(Now(w), S) = Present(db, S) /\ (SomeFailed(Now(w), S) <=> SomeFailed(db, S))
         /\ AllCompleted(Now(w), S) <=> AllCompleted(db, S)
         /\ Pending(Now(w), g) = Pending(db, g) /\ Answers(Now(w), g) = Answers(db, g)
         /\ Outcome(Now(w), g) = Outcome(db, g) /\ (Unattacked(Now(w), g) <=> Unattacked(db, g))
         /\ Opened(Now(w), g) = Opened(db, g)
         /\ \A s, status : CandidateUpdates(db, Now(w), s, status) = CandidateUpdates(db, db, s, status)
<1>1. /\ Now(w).gens = db.gens /\ Now(w).agents = db.agents /\ Now(w).subs = db.subs
      /\ Now(w).evals = db.evals /\ Now(w).finds = db.finds /\ Now(w).cands = db.cands
    BY DEF Now, Database
<1>2. Present(Now(w), S) = Present(db, S) /\ Present(Now(w), CriticsOf(g)) = Present(db, CriticsOf(g))
    BY <1>1 DEF Present
<1>3. /\ SomeFailed(Now(w), S) <=> SomeFailed(db, S)
      /\ AllCompleted(Now(w), S) <=> AllCompleted(db, S)
      /\ Pending(Now(w), g) = Pending(db, g) /\ Answers(Now(w), g) = Answers(db, g)
      /\ Outcome(Now(w), g) = Outcome(db, g) /\ (Unattacked(Now(w), g) <=> Unattacked(db, g))
    BY <1>1, <1>2 DEF SomeFailed, AllCompleted, Pending, Answers, Outcome, Unattacked
<1>4. Opened(Now(w), g) = Opened(db, g) BY <1>3 DEF Opened
<1>5. \A s, status : CandidateUpdates(db, Now(w), s, status) = CandidateUpdates(db, db, s, status)
    BY <1>1 DEF CandidateUpdates
<1> QED BY <1>1, <1>2, <1>3, <1>4, <1>5

LEMMA HearingIs ==
  ASSUME NEW w, NEW v, NEW g, HearCritics(w, v, g)
  PROVE  \E f \in {v, db} : Listens(w, v, f, g)
<1>1. \/ SomeFailed(v, CriticsOf(g)) /\ Return(w, "failrun", {})
      \/ /\ ~SomeFailed(v, CriticsOf(g))
         /\ \/ Pending(v, g) # {} /\ Return(w, "enqueue", {CriticJob(a) : a \in Pending(v, g)})
            \/ /\ Pending(v, g) = {}
               /\ \E f \in {v, db} :
                    \/ Cardinality(Answers(f, g)) # CriticCount /\ Return(w, "settle", {})
                    \/ /\ Cardinality(Answers(f, g)) = CriticCount
                       /\ \E seen \in {f, db} :
                            Commit(w, CandidateUpdates(db, seen, Elite(g, {}), Outcome(f, g)),
                                   "enqueue", {FinalizeJob(g)})
    BY Zenon DEF HearCritics, Pending, Answers, FindingsOn, Outcome
<1>2. v \in {v, db} OBVIOUS
<1> QED BY <1>1, <1>2, Zenon DEF Listens

LEMMA ListensNow ==
  ASSUME db \in Database, NEW w, NEW r, NEW f, NEW g, Listens(w, r, f, g)
  PROVE  /\ r = db => Listens(w, Now(w), f, g)
         /\ f = db => Listens(w, r, Now(w), g)
<1>1. /\ SomeFailed(Now(w), CriticsOf(g)) <=> SomeFailed(db, CriticsOf(g))
      /\ Pending(Now(w), g) = Pending(db, g) /\ Answers(Now(w), g) = Answers(db, g)
      /\ Outcome(Now(w), g) = Outcome(db, g)
    BY NowIsNow
<1>2. r = db => Listens(w, Now(w), f, g) BY <1>1 DEF Listens
<1>3. f = db => Listens(w, r, Now(w), g)
  <2> HAVE f = db
  <2>1. (\E seen \in {f, db} :
           Commit(w, CandidateUpdates(db, seen, Elite(g, {}), Outcome(f, g)), "enqueue", {FinalizeJob(g)}))
        => \E seen \in {Now(w), db} :
             Commit(w, CandidateUpdates(db, seen, Elite(g, {}), Outcome(Now(w), g)),
                    "enqueue", {FinalizeJob(g)})
      BY <1>1
  <2> QED BY <1>1, <2>1, Zenon DEF Listens
<1> QED BY <1>2, <1>3

LEMMA HearingNow ==
  ASSUME db \in Database, NEW w, NEW v, NEW g, HearCritics(w, v, g)
  PROVE  /\ \E h \in {v, Now(w)} : Listens(w, v, h, g)
         /\ v = db => Listens(w, Now(w), Now(w), g)
<1>1. PICK f \in {v, db} : Listens(w, v, f, g) BY HearingIs
<1>2. f = db => Listens(w, v, Now(w), g) BY <1>1, ListensNow
<1>3. v = db => Listens(w, Now(w), Now(w), g)
  <2> HAVE v = db
  <2>1. Listens(w, v, Now(w), g) BY <1>1, <1>2
  <2> QED BY <2>1, ListensNow
<1> QED BY <1>1, <1>2, <1>3

LEMMA OpenCriticStageIs ==
  ASSUME NEW w, NEW s, NEW g, OpenCriticStage(w, s, g)
  PROVE  \/ Unattacked(s, g) /\ ~Unattacked(db, g) /\ Raise(w)
         \/ /\ Unattacked(s, g) => Unattacked(db, g)
            /\ NewCritics(g) \subseteq CriticsOf(g) /\ Commit(w, Opened(s, g), "opened", {})
BY Zenon DEF OpenCriticStage, Opened, Opening, NewCritics

LEMMA CloseCriticStageIs ==
  ASSUME db \in Database, NEW w, NEW v, NEW c \in {v, db}, NEW g, Present(c, CriticsOf(g)) # {},
         CloseCriticStage(w, c, g)
  PROVE  FindsItOpen(w, v, g)
<1>0. PICK s \in {c, db} : \E f \in {s, db} :
        \/ /\ ~(\E t \in Researchers(g) : s.cands[t] = "UNDER_ATTACK")
           /\ ~(/\ Cardinality(Answers(f, g)) >= CriticCount
                /\ AllCompleted(c, Present(c, CriticsOf(g))))
           /\ Return(w, "settle", {})
        \/ \E r \in {f, db} : HearCritics(w, r, g)
    BY Zenon DEF CloseCriticStage, Answers, FindingsOn
<1>1. PICK f \in {s, db} :
        \/ /\ ~(\E t \in Researchers(g) : s.cands[t] = "UNDER_ATTACK")
           /\ ~(/\ Cardinality(Answers(f, g)) >= CriticCount
                /\ AllCompleted(c, Present(c, CriticsOf(g))))
           /\ Return(w, "settle", {})
        \/ \E r \in {f, db} : HearCritics(w, r, g)
    BY <1>0
<1>2. AllCompleted(c, Present(c, CriticsOf(g))) <=> Pending(c, g) = {} BY DEF AllCompleted, Pending
<1>3. PICK k \in {v, Now(w)} : (k = c \/ (c = db /\ k = Now(w))) OBVIOUS
<1>4. PICK l \in {k, Now(w)} : (l = s \/ (s = db /\ l = Now(w))) BY <1>3
<1>5. PICK m \in {l, Now(w)} : (m = f \/ (f = db /\ m = Now(w))) BY <1>4
<1>6. /\ Present(k, CriticsOf(g)) = Present(c, CriticsOf(g)) /\ Pending(k, g) = Pending(c, g)
      /\ l.cands = s.cands /\ Answers(m, g) = Answers(f, g)
    BY <1>3, <1>4, <1>5, NowIsNow
<1>7. CASE /\ ~(\E t \in Researchers(g) : s.cands[t] = "UNDER_ATTACK")
           /\ ~(/\ Cardinality(Answers(f, g)) >= CriticCount
                /\ AllCompleted(c, Present(c, CriticsOf(g))))
           /\ Return(w, "settle", {})
  <2>1. /\ Present(k, CriticsOf(g)) # {} /\ \A t \in Researchers(g) : l.cands[t] # "UNDER_ATTACK"
        /\ ~(Cardinality(Answers(m, g)) >= CriticCount) \/ Pending(k, g) # {}
      BY <1>2, <1>6, <1>7
  <2> QED BY <1>3, <1>4, <1>5, <1>7, <2>1 DEF FindsItOpen
<1>8. ASSUME NEW r \in {f, db}, HearCritics(w, r, g) PROVE FindsItOpen(w, v, g)
  <2>1. \E i \in {m, Now(w)} : \E h \in {i, Now(w)} : Listens(w, i, h, g)
    <3>1. PICK h \in {r, Now(w)} : Listens(w, r, h, g) BY <1>8, HearingNow
    <3>2. r = db => Listens(w, Now(w), Now(w), g) BY <1>8, HearingNow
    <3> QED BY <1>5, <3>1, <3>2
  <2> QED BY <1>3, <1>4, <1>5, <1>6, <2>1 DEF FindsItOpen
<1> QED BY <1>1, <1>7, <1>8

LEMMA MaybeScheduleFinalizeEffect ==
  ASSUME db \in Database, NEW w \in Workers, MaybeScheduleFinalize(w)
  PROVE  \E v \in Reads(w) : Schedules(w, v, job[w].gen)
<1> DEFINE g == job[w].gen
<1>1. PICK v \in Reads(w) :
        IF v.status # "JUDGING" \/ ~IsLatest(v, g) \/ ~JudgesPresent(v, g)
          THEN Return(w, "settle", {})
        ELSE IF SomeFailed(v, JudgesOf(g)) THEN Return(w, "failrun", {})
        ELSE IF ~JudgingComplete(v, g) THEN Return(w, "settle", {})
        ELSE IF CriticCount = 0 THEN Return(w, "enqueue", {FinalizeJob(g)})
        ELSE \E c \in {v, db} :
               IF Present(c, CriticsOf(g)) = {} THEN \E s \in {c, db} : OpenCriticStage(w, s, g)
               ELSE CloseCriticStage(w, c, g)
    BY Zenon DEF MaybeScheduleFinalize
<1> HIDE DEF g
<1>2. ASSUME NEW c \in {v, db}, NEW s \in {c, db}, Present(c, CriticsOf(g)) = {}, OpenCriticStage(w, s, g)
      PROVE  OpensIt(w, v, g)
  <2>1. PICK k \in {v, Now(w)} : (k = c \/ (c = db /\ k = Now(w))) OBVIOUS
  <2>2. PICK l \in {k, Now(w)} : (l = s \/ (s = db /\ l = Now(w))) BY <2>1
  <2>3. /\ Present(k, CriticsOf(g)) = {} /\ (Unattacked(l, g) <=> Unattacked(s, g))
        /\ Opened(l, g) = Opened(s, g)
      BY <1>2, <2>1, <2>2, NowIsNow
  <2>4. \/ Unattacked(l, g) /\ ~Unattacked(db, g) /\ Raise(w)
        \/ /\ Unattacked(l, g) => Unattacked(db, g)
           /\ NewCritics(g) \subseteq CriticsOf(g) /\ Commit(w, Opened(l, g), "opened", {})
      BY <1>2, <2>3, OpenCriticStageIs
  <2> QED BY <2>1, <2>2, <2>3, <2>4 DEF OpensIt
<1>3. ASSUME NEW c \in {v, db}, Present(c, CriticsOf(g)) # {}, CloseCriticStage(w, c, g)
      PROVE  FindsItOpen(w, v, g)
    BY <1>3, CloseCriticStageIs
<1>4. \/ /\ v.status # "JUDGING" \/ ~IsLatest(v, g) \/ ~JudgesPresent(v, g)
         /\ Return(w, "settle", {})
      \/ /\ v.status = "JUDGING" /\ IsLatest(v, g) /\ JudgesPresent(v, g)
         /\ \/ SomeFailed(v, JudgesOf(g)) /\ Return(w, "failrun", {})
            \/ /\ ~SomeFailed(v, JudgesOf(g)) /\ ~JudgingComplete(v, g) /\ Return(w, "settle", {})
            \/ /\ JudgingComplete(v, g)
               /\ \/ CriticCount = 0 /\ Return(w, "enqueue", {FinalizeJob(g)})
                  \/ CriticCount # 0 /\ (OpensIt(w, v, g) \/ FindsItOpen(w, v, g))
    BY <1>1, <1>2, <1>3, Zenon
<1>5. Schedules(w, v, g) BY <1>4, Zenon DEF Schedules
<1> QED BY <1>5 DEF g

\* Where critics are, those of the first opening are.
LEMMA FirstAreHere ==
  ASSUME NEW d \in Database, Shape(d), NEW g \in Generations, Present(d, CriticsOf(g)) # {}
  PROVE  FirstCritics(g) \subseteq Here(d) /\ CriticCount # 0
<1>1. PICK a \in CriticsOf(g) : a \in Here(d) BY AgentSets DEF Present, Here
<1>2. a.gen = g /\ a.role = "critic" /\ 1 \in 1..a.copy /\ a.index \in 1..CriticCount
    BY <1>1, CriticParts DEF CriticCopies
<1>3. CriticSet(g, 1) \subseteq Here(d) BY <1>1, <1>2 DEF Shape
<1>4. CriticCount # 0 BY <1>2, RunCreateAssumption
<1> QED BY <1>3, <1>4 DEF FirstCritics

LEMMA PresentStill ==
  ASSUME NEW d, NEW e, NEW g \in Generations, Behind(d, e), Present(d, CriticsOf(g)) # {}
  PROVE  Present(e, CriticsOf(g)) # {}
BY AgentSets DEF Present, Here, Behind

LEMMA AfterOpeningEffect ==
  ASSUME RunInv, NEW w \in Workers, AfterOpening(w)
  PROVE  \E f \in {view[w], Now(w)} :
           /\ Listens(w, view[w], f, job[w].gen)
           /\ CriticCount # 0 /\ FirstCritics(job[w].gen) \subseteq Here(view[w])
<1>1. pc[w] = "opened" /\ view[w] # None /\ HearCritics(w, view[w], job[w].gen)
    BY DEF AfterOpening, At
<1>2. HasCritics(view[w], job[w].gen) BY <1>1 DEF RunInv, WorkerFits
<1>3. db \in Database BY DEF RunInv
<1> QED BY <1>1, <1>2, <1>3, HearingNow DEF HasCritics

LEMMA ListensContinues ==
  ASSUME RunInv, NEW w \in Workers, pc[w] \in {"schedule", "opened"}, view[w] # None,
         NEW r \in Reads(w), NEW f \in Reads(w), Listens(w, r, f, job[w].gen)
  PROVE  Continues(w)
<1> DEFINE g == job[w].gen
<1>1. Inside(w) BY DEF Inside
<1>2. /\ job[w] \in Jobs /\ g \in Generations /\ job[w].type \in AgentJobs
      /\ g < db.gens /\ db.status # "NONE" /\ db \in Database
    BY <1>1, InsideFits DEF RunInv
<1>3. "failrun" \in UnitsOf(job[w].type) BY <1>2 DEF UnitsOf, AgentJobs
<1>4. FinalizeJob(g) \in Jobs /\ FinalizeJob(g).gen = g /\ FinalizeJob(g).agent = None
    BY <1>2, JobSets DEF FinalizeJob, Job
<1>5. ASSUME NEW a \in CriticsOf(g)
      PROVE  CriticJob(a) \in Jobs /\ CriticJob(a).gen = g /\ CriticJob(a).agent = a
    BY <1>2, JobSets, CriticParts DEF CriticJob, Job
<1>6. CASE Return(w, "settle", {}) BY <1>1, <1>6, ReturnContinues
<1>7. CASE Return(w, "failrun", {}) BY <1>1, <1>3, <1>7, ReturnContinues
<1>8. ASSUME Pending(r, g) # {}, Return(w, "enqueue", {CriticJob(a) : a \in Pending(r, g)})
      PROVE  Continues(w)
  <2> DEFINE keys == {CriticJob(a) : a \in Pending(r, g)}
  <2>1. r \in Database /\ Behind(r, db) BY ReadsFit
  <2>2. Pending(r, g) \subseteq Here(db) /\ Pending(r, g) \subseteq CriticsOf(g)
      BY <1>2, <2>1, AgentSets DEF Pending, Present, Here, Behind
  <2>3. \A j \in keys : j \in Jobs /\ j.gen = g /\ j.agent \in Here(db) BY <1>5, <2>2
  <2>4. keys # {} /\ Return(w, "enqueue", keys) BY <1>8
  <2> HIDE DEF keys
  <2>5. \A j \in keys : JobFits(j, db) BY <1>2, <2>3 DEF JobFits
  <2>6. keys \in SUBSET Jobs BY <2>3
  <2> QED BY <1>1, <2>4, <2>5, <2>6, ReturnContinues
<1>9. ASSUME NEW seen,
             Commit(w, CandidateUpdates(db, seen, Elite(g, {}), Outcome(f, g)), "enqueue", {FinalizeJob(g)})
      PROVE  Continues(w)
  <2> DEFINE new == CandidateUpdates(db, seen, Elite(g, {}), Outcome(f, g))
  <2>1. Elite(g, {}) \in Submissions BY <1>2, EliteIsBest, AgentSets
  <2>2. Outcome(f, g) \in CandidateStatus BY DEF Outcome, CandidateStatus
  <2> HIDE DEF new
  <2>3. new \in Database /\ Keeps(db, new) /\ new.status = db.status
    <3>1. new = CandidateUpdates(db, seen, Elite(g, {}), Outcome(f, g)) BY DEF new
    <3> HIDE DEF g
    <3> QED BY <1>2, <2>1, <2>2, <3>1, CandidateUpdatesKeep
  <2>4. Commit(w, new, "enqueue", {FinalizeJob(g)}) BY <1>9 DEF new
  <2>5. Grows(db, new) /\ new.gens = db.gens BY <2>3 DEF Grows, Keeps
  <2>6. StatusFits(new) BY <1>2, <2>3, <2>5, GrowsAhead, StatusStill DEF RunInv
  <2>7. JobFits(FinalizeJob(g), new) BY <1>2, <1>4, <2>3, <2>5 DEF JobFits
  <2> QED BY <1>1, <1>2, <1>4, <2>3, <2>4, <2>5, <2>6, <2>7, CommitContinues
<1>10. Listens(w, r, f, g) OBVIOUS
<1> HIDE DEF g
<1> QED BY <1>6, <1>7, <1>8, <1>9, <1>10, Zenon DEF Listens

LEMMA AfterOpeningContinues ==
  ASSUME RunInv, NEW w \in Workers, AfterOpening(w)
  PROVE  Continues(w)
<1>1. PICK f \in {view[w], Now(w)} : Listens(w, view[w], f, job[w].gen) BY AfterOpeningEffect
<1>2. pc[w] = "opened" /\ view[w] # None BY DEF AfterOpening, At
<1>3. view[w] \in Reads(w) /\ f \in Reads(w) BY <1>1 DEF Reads, Now
<1> QED BY <1>1, <1>2, <1>3, ListensContinues

LEMMA MaybeScheduleFinalizeContinues ==
  ASSUME RunInv, NEW w \in Workers, MaybeScheduleFinalize(w)
  PROVE  Continues(w)
<1> DEFINE g == job[w].gen
<1>1. Inside(w) /\ pc[w] = "schedule" /\ view[w] # None BY DEF MaybeScheduleFinalize, At, Inside
<1>2. /\ job[w] \in Jobs /\ g \in Generations /\ job[w].type \in AgentJobs
      /\ g < db.gens /\ db.status # "NONE" /\ db \in Database /\ Shape(db)
    BY <1>1, InsideFits DEF RunInv
<1>3. "failrun" \in UnitsOf(job[w].type) /\ "opened" \in UnitsOf(job[w].type)
    BY <1>2 DEF UnitsOf, AgentJobs
<1>4. FinalizeJob(g) \in Jobs /\ FinalizeJob(g).gen = g /\ FinalizeJob(g).agent = None
    BY <1>2, JobSets DEF FinalizeJob, Job
<1>5. CASE Return(w, "settle", {}) BY <1>1, <1>5, ReturnContinues
<1>6. CASE Return(w, "failrun", {}) BY <1>1, <1>3, <1>6, ReturnContinues
<1>7. CASE Return(w, "enqueue", {FinalizeJob(g)})
  <2>1. JobFits(FinalizeJob(g), db) BY <1>2, <1>4 DEF JobFits
  <2> QED BY <1>1, <1>4, <1>7, <2>1, ReturnContinues
<1>8. CASE Raise(w) BY <1>1, <1>8, RaiseContinues
<1>9. ASSUME NEW v \in Reads(w), NEW s, JudgingComplete(v, g), CriticCount # 0,
             NewCritics(g) \subseteq CriticsOf(g), Commit(w, Opened(s, g), "opened", {})
      PROVE  Continues(w)
  <2> DEFINE new == Opened(s, g)
  <2>1. Researchers(g) \subseteq db.subs
    <3>1. v \in Database /\ Shape(v) /\ Behind(v, db) BY <1>1, <1>9, ReadsFit
    <3> QED BY <1>2, <1>9, <3>1, CompleteIsJudged DEF JudgingComplete, Behind
  <2>2. /\ new \in Database /\ new.status = db.status /\ new.gens = db.gens
        /\ FirstCritics(g) \subseteq Here(new) /\ SpawnsCritics(db, new)
      BY <1>2, <1>9, <2>1, OpensTheStage
  <2> HIDE DEF new
  <2>3. Grows(db, new) BY <2>2 DEF Grows
  <2>4. StatusFits(new) BY <1>2, <2>2, <2>3, GrowsAhead, StatusStill DEF RunInv
  <2>5. HasCritics(new, g) BY <1>9, <2>2 DEF HasCritics
  <2>6. Commit(w, new, "opened", {}) BY <1>9 DEF new
  <2>7. \A j \in {} : JobFits(j, new) OBVIOUS
  <2> QED BY <1>1, <1>2, <1>3, <2>2, <2>3, <2>4, <2>5, <2>6, <2>7, CommitContinues
<1>10. PICK v \in Reads(w) : Schedules(w, v, g) BY <1>2, MaybeScheduleFinalizeEffect
<1>11. ASSUME JudgingComplete(v, g), CriticCount # 0, OpensIt(w, v, g) PROVE Continues(w)
  <2>1. PICK s : \/ Raise(w)
                 \/ NewCritics(g) \subseteq CriticsOf(g) /\ Commit(w, Opened(s, g), "opened", {})
      BY <1>11 DEF OpensIt
  <2> QED BY <1>8, <1>9, <1>10, <1>11, <2>1
<1>12. ASSUME FindsItOpen(w, v, g) PROVE Continues(w)
  <2>1. Now(w) \in Reads(w) BY DEF Reads, Now
  <2>2. \/ Return(w, "settle", {})
        \/ \E r, h \in Reads(w) : Listens(w, r, h, g)
      BY <1>10, <1>12, <2>1 DEF FindsItOpen
  <2> QED BY <1>1, <1>5, <2>2, ListensContinues
<1> HIDE DEF g
<1> QED BY <1>5, <1>6, <1>7, <1>10, <1>11, <1>12, Zenon DEF Schedules

\* What finalize_run writes with the reading v: in an earlier generation, the
\* next one, bred from a selection; in the last, the verdict on the best.
Clones(g) == {a \in Researchers(g) : a.index <= Population - FreshCount}
Parents(g, selected) ==
  [a \in Submissions |->
     IF a \in Clones(g + 1) THEN selected[((a.index - 1) % Len(selected)) + 1] ELSE db.parent[a]]
Bred(g, selected) ==
  [db EXCEPT !.gens = g + 2, !.agents = Spawned(@, Researchers(g + 1)),
             !.parent = Parents(g, selected), !.survivors[g] = selected]

Target(v, g) == Elite(g, Refuted(v, g))
Proposed(v, g) == v.cands[Target(v, g)] \notin {"REFUTED", "VERIFIED", "VERIFICATION"}
Staged(v, g) ==
  IF Proposed(v, g) THEN [db EXCEPT !.cands[Target(v, g)] = "VERIFICATION"] ELSE db
Judgement(v, g, verdict, seen) ==
  CandidateUpdates([Staged(v, g) EXCEPT !.verdict[Target(v, g)] = verdict],
                   seen, Target(v, g), CandidateAfter[verdict])

Finalizes(w, v, g) ==
  \/ Return(w, "settle", {}) \/ Raise(w)
  \/ ~IsLatest(v, g) /\ Return(w, "enqueue", {ResearchJob(a) : a \in Researchers(Latest(v))})
  \/ /\ v.status = "JUDGING" /\ JudgingComplete(v, g) /\ IsLatest(v, g) /\ g + 1 = MaxGenerations
     /\ v.cands[Target(v, g)] = "ABSENT" => db.cands[Target(v, g)] = "ABSENT"
     /\ \/ CommitStatus(w, Staged(v, g), "COMPLETED", "settle", {})
        \/ /\ v.verdict[Target(v, g)] = "NONE" => db.verdict[Target(v, g)] = "NONE"
           /\ \E verdict \in IF v.verdict[Target(v, g)] = "NONE" THEN VerdictsOn(v, Target(v, g))
                             ELSE {v.verdict[Target(v, g)]},
                 seen \in IF Proposed(v, g) THEN {Staged(v, g)} ELSE {v, db} :
                CommitStatus(w, Judgement(v, g, verdict, seen), "COMPLETED", "settle", {})
  \/ /\ v.status = "JUDGING" /\ JudgingComplete(v, g) /\ IsLatest(v, g) /\ g + 1 # MaxGenerations
     /\ ~(v.gens < db.gens)
     /\ \E selected \in Selections(v, g) :
          CommitStatus(w, Bred(g, selected), "RESEARCHING", "enqueue",
                       {ResearchJob(a) : a \in Researchers(g + 1)})

LEMMA FinalizeRunEffect ==
  ASSUME NEW w \in Workers, FinalizeRun(w)
  PROVE  \E v \in Reads(w) : Finalizes(w, v, job[w].gen)
<1> DEFINE g == job[w].gen
<1>1. PICK v \in Reads(w) :
        IF v.status \in Over THEN Return(w, "settle", {})
        ELSE IF ~IsLatest(v, g)
          THEN Return(w, "enqueue", {ResearchJob(a) : a \in Researchers(Latest(v))})
        ELSE IF v.status # "JUDGING" \/ ~JudgingComplete(v, g) THEN Raise(w)
        ELSE IF g + 1 = MaxGenerations THEN CompleteRun(w, v, g)
        ELSE Advance(w, v, g)
    BY DEF FinalizeRun
<1>2. CompleteRun(w, v, g) =>
        \/ Raise(w)
        \/ /\ v.cands[Target(v, g)] = "ABSENT" => db.cands[Target(v, g)] = "ABSENT"
           /\ \/ CommitStatus(w, Staged(v, g), "COMPLETED", "settle", {})
              \/ /\ v.verdict[Target(v, g)] = "NONE" => db.verdict[Target(v, g)] = "NONE"
                 /\ \E verdict \in IF v.verdict[Target(v, g)] = "NONE" THEN VerdictsOn(v, Target(v, g))
                                   ELSE {v.verdict[Target(v, g)]},
                       seen \in IF Proposed(v, g) THEN {Staged(v, g)} ELSE {v, db} :
                      CommitStatus(w, Judgement(v, g, verdict, seen), "COMPLETED", "settle", {})
    BY Zenon DEF CompleteRun, Target, Proposed, Staged, Judgement
<1>3. Advance(w, v, g) =>
        \/ Raise(w)
        \/ /\ ~(v.gens < db.gens)
           /\ \E selected \in Selections(v, g) :
                CommitStatus(w, Bred(g, selected), "RESEARCHING", "enqueue",
                             {ResearchJob(a) : a \in Researchers(g + 1)})
    BY Zenon DEF Advance, Bred, Parents, Clones
<1> HIDE DEF g
<1>4. \/ Return(w, "settle", {}) \/ Raise(w)
      \/ ~IsLatest(v, g) /\ Return(w, "enqueue", {ResearchJob(a) : a \in Researchers(Latest(v))})
      \/ /\ v.status = "JUDGING" /\ JudgingComplete(v, g) /\ IsLatest(v, g)
         /\ IF g + 1 = MaxGenerations THEN CompleteRun(w, v, g) ELSE Advance(w, v, g)
    BY <1>1, Zenon
<1>5. Finalizes(w, v, g) BY <1>2, <1>3, <1>4, Zenon DEF Finalizes
<1> QED BY <1>5 DEF g

\* What a selection is made of.
LEMMA SelectionType ==
  ASSUME NEW v \in Database, NEW g \in Generations, NEW selected \in Selections(v, g)
  PROVE  selected \in Seq(Submissions) /\ Len(selected) > 0
<1>1. CASE v.survivors[g] # <<>>
  <2>1. selected = v.survivors[g] /\ v.survivors[g] \in Seq(Submissions)
      BY <1>1 DEF Selections, Database
  <2> QED BY <1>1, <2>1
<1>2. CASE v.survivors[g] = <<>> BY <1>2, RankingType DEF Selections
<1> QED BY <1>1, <1>2

LEMMA ParentsType ==
  ASSUME db \in Database, NEW g \in Generations,
         NEW selected \in Seq(Submissions), Len(selected) > 0
  PROVE  /\ Parents(g, selected) \in [Submissions -> Submissions \union {None}]
         /\ \A a \in Clones(g + 1) \intersect Submissions :
              \E i \in 1..Len(selected) : Parents(g, selected)[a] = selected[i]
<1>1. ASSUME NEW a \in Clones(g + 1)
      PROVE  ((a.index - 1) % Len(selected)) + 1 \in 1..Len(selected)
  <2>1. a.index - 1 \in Int /\ Len(selected) \in Nat \ {0}
      BY ResearcherParts DEF Clones
  <2>2. (a.index - 1) % Len(selected) \in 0..Len(selected) - 1 BY <2>1
  <2> QED BY <2>1, <2>2
<1>2. db.parent \in [Submissions -> Submissions \union {None}] BY DEF Database
<1>3. \A a \in Submissions : a \in Clones(g + 1) =>
        Parents(g, selected)[a] = selected[((a.index - 1) % Len(selected)) + 1]
    BY DEF Parents
<1>4. \A i \in 1..Len(selected) : selected[i] \in Submissions OBVIOUS
<1>5. \A a \in Submissions : a \notin Clones(g + 1) => Parents(g, selected)[a] = db.parent[a]
    BY DEF Parents
<1>6. ASSUME NEW a \in Submissions PROVE Parents(g, selected)[a] \in Submissions \union {None}
  <2>1. CASE a \in Clones(g + 1)
    <3> DEFINE i == ((a.index - 1) % Len(selected)) + 1
    <3>1. i \in 1..Len(selected) /\ Parents(g, selected)[a] = selected[i] BY <1>1, <1>3, <2>1
    <3> HIDE DEF i
    <3> QED BY <1>4, <3>1
  <2>2. CASE a \notin Clones(g + 1) BY <1>2, <1>5, <2>2
  <2> QED BY <2>1, <2>2
<1>7. Parents(g, selected) = [a \in Submissions |-> Parents(g, selected)[a]] BY DEF Parents
<1>8. Parents(g, selected) \in [Submissions -> Submissions \union {None}] BY <1>6, <1>7, Zenon
<1>9. ASSUME NEW a \in Clones(g + 1), a \in Submissions
      PROVE  \E i \in 1..Len(selected) : Parents(g, selected)[a] = selected[i]
    BY <1>1, <1>3, <1>9, Zenon
<1> QED BY <1>8, <1>9

LEMMA BreedsTheNext ==
  ASSUME db \in Database, NEW g \in Generations, g + 1 # MaxGenerations, g + 1 = db.gens,
         NEW selected \in Seq(Submissions), Len(selected) > 0
  PROVE  LET e == Bred(g, selected)
         IN  /\ e \in Database /\ e.status = db.status /\ e.gens = db.gens + 1
             /\ e.subs = db.subs /\ e.evals = db.evals /\ e.finds = db.finds
             /\ e.cands = db.cands /\ e.verdict = db.verdict
             /\ e.survivors = [db.survivors EXCEPT ![g] = selected]
             /\ e.parent = Parents(g, selected)
             /\ Here(e) = Here(db) \union Researchers(g + 1)
<1> DEFINE e == Bred(g, selected)
<1>1. g + 1 \in Generations /\ g + 2 \in 0..MaxGenerations /\ g + 2 = db.gens + 1
    BY GensType, RunCreateAssumption DEF Generations
<1>2. Parents(g, selected) \in [Submissions -> Submissions \union {None}] BY ParentsType
<1>3. Spawned(db.agents, Researchers(g + 1)) \in [Agents -> AgentStatus]
    BY DEF Spawned, Database, AgentStatus
<1>4. [db.survivors EXCEPT ![g] = selected] \in [Generations -> Seq(Submissions)] BY DEF Database
<1>5. e = [db EXCEPT !.gens = g + 2, !.agents = Spawned(db.agents, Researchers(g + 1)),
             !.parent = Parents(g, selected), !.survivors = [db.survivors EXCEPT ![g] = selected]]
    BY DEF Bred
<1> HIDE DEF e
<1>6. /\ e.status = db.status /\ e.gens = g + 2
      /\ e.subs = db.subs /\ e.evals = db.evals /\ e.finds = db.finds
      /\ e.cands = db.cands /\ e.verdict = db.verdict
      /\ e.survivors = [db.survivors EXCEPT ![g] = selected]
      /\ e.parent = Parents(g, selected) /\ e.agents = Spawned(db.agents, Researchers(g + 1))
    BY <1>5 DEF Database
<1>7. e \in Database BY <1>1, <1>2, <1>3, <1>4, <1>5 DEF Database
<1>8. Here(e) = Here(db) \union Researchers(g + 1) BY <1>1, <1>6, <1>7, SpawnedHere, AgentSets
<1> QED BY <1>1, <1>6, <1>7, <1>8 DEF e

\* The verdict on the best candidate touches no agent and no submission.
LEMMA JudgementKeeps ==
  ASSUME db \in Database, NEW v \in Database, NEW g \in Generations
  PROVE  /\ Target(v, g) \in Submissions /\ Target(v, g) \in Researchers(g)
         /\ Staged(v, g) \in Database /\ Keeps(db, Staged(v, g))
         /\ Staged(v, g).status = db.status /\ Staged(v, g).verdict = db.verdict
         /\ Staged(v, g).parent = db.parent /\ Staged(v, g).survivors = db.survivors
         /\ \A t \in Submissions :
              Staged(v, g).cands[t] = IF t = Target(v, g) /\ Proposed(v, g) THEN "VERIFICATION" ELSE db.cands[t]
         /\ \A verdict \in {"PASSED", "FAILED", "INCONCLUSIVE"} : \A seen :
              LET e == Judgement(v, g, verdict, seen)
              IN  /\ e \in Database /\ Keeps(db, e) /\ e.status = db.status
                  /\ e.parent = db.parent /\ e.survivors = db.survivors
                  /\ e.verdict = [db.verdict EXCEPT ![Target(v, g)] = verdict]
                  /\ \A t \in Submissions :
                       e.cands[t] = IF t = Target(v, g) /\ seen.cands[t] # CandidateAfter[verdict]
                                    THEN CandidateAfter[verdict] ELSE Staged(v, g).cands[t]
<1> DEFINE t0 == Target(v, g)
           staged == Staged(v, g)
<1>1. t0 \in Submissions /\ t0 \in Researchers(g) BY EliteIsBest, AgentSets DEF Target
<1>2. staged = IF Proposed(v, g) THEN [db EXCEPT !.cands[t0] = "VERIFICATION"] ELSE db BY DEF Staged
<1> HIDE DEF t0, staged
<1>3. /\ staged \in Database /\ Keeps(db, staged)
      /\ staged.status = db.status /\ staged.verdict = db.verdict
      /\ staged.parent = db.parent /\ staged.survivors = db.survivors
      /\ \A t \in Submissions :
           staged.cands[t] = IF t = t0 /\ Proposed(v, g) THEN "VERIFICATION" ELSE db.cands[t]
  <2>1. CASE Proposed(v, g) BY <1>1, <1>2, <2>1 DEF Database, CandidateStatus, Keeps, Here
  <2>2. CASE ~Proposed(v, g) BY <1>2, <2>2 DEF Keeps
  <2> QED BY <2>1, <2>2
<1>4. ASSUME NEW verdict \in {"PASSED", "FAILED", "INCONCLUSIVE"}, NEW seen
      PROVE  LET e == Judgement(v, g, verdict, seen)
             IN  /\ e \in Database /\ Keeps(db, e) /\ e.status = db.status
                 /\ e.parent = db.parent /\ e.survivors = db.survivors
                 /\ e.verdict = [db.verdict EXCEPT ![t0] = verdict]
                 /\ \A t \in Submissions :
                      e.cands[t] = IF t = t0 /\ seen.cands[t] # CandidateAfter[verdict]
                                   THEN CandidateAfter[verdict] ELSE staged.cands[t]
  <2> DEFINE noted == [staged EXCEPT !.verdict[t0] = verdict]
             judged == CandidateUpdates(noted, seen, t0, CandidateAfter[verdict])
  <2>1. /\ noted \in Database /\ Keeps(db, noted) /\ noted.status = db.status
        /\ noted.parent = db.parent /\ noted.survivors = db.survivors /\ noted.cands = staged.cands
        /\ noted.verdict = [db.verdict EXCEPT ![t0] = verdict]
    <3>1. verdict \in Verdicts /\ db.verdict \in [Submissions -> Verdicts] BY DEF Database, Verdicts
    <3>2. [db.verdict EXCEPT ![t0] = verdict] \in [Submissions -> Verdicts] BY <1>1, <3>1
    <3>3. noted = [staged EXCEPT !.verdict = [db.verdict EXCEPT ![t0] = verdict]] BY <1>3
    <3>4. /\ noted \in Database /\ noted.status = staged.status /\ noted.agents = staged.agents
          /\ noted.gens = staged.gens /\ noted.subs = staged.subs /\ noted.evals = staged.evals
          /\ noted.finds = staged.finds /\ noted.parent = staged.parent
          /\ noted.survivors = staged.survivors /\ noted.cands = staged.cands
          /\ noted.verdict = [db.verdict EXCEPT ![t0] = verdict]
      <4> HIDE DEF noted
      <4> QED BY <1>3, <3>2, <3>3 DEF Database
    <3> HIDE DEF noted
    <3>5. Keeps(db, noted) BY <1>3, <3>4 DEF Keeps, Here
    <3> QED BY <1>3, <3>4, <3>5
  <2>2. CandidateAfter[verdict] \in CandidateStatus BY DEF CandidateAfter, CandidateStatus
  <2> HIDE DEF noted, judged
  <2>3. /\ judged \in Database /\ Keeps(noted, judged) /\ judged.status = noted.status
        /\ judged.verdict = noted.verdict /\ judged.survivors = noted.survivors /\ judged.parent = noted.parent
    <3>1. judged = CandidateUpdates(noted, seen, t0, CandidateAfter[verdict]) BY DEF judged
    <3>2. noted \in Database BY <2>1
    <3> QED BY <1>1, <2>2, <3>1, <3>2, CandidateUpdatesKeep
  <2>7. \A t \in Submissions :
          judged.cands[t] = IF t = t0 /\ seen.cands[t0] # CandidateAfter[verdict]
                       THEN CandidateAfter[verdict] ELSE noted.cands[t]
    <3>1. IF seen.cands[t0] = CandidateAfter[verdict]
            THEN judged = noted ELSE judged = [noted EXCEPT !.cands[t0] = CandidateAfter[verdict]]
        BY DEF judged, CandidateUpdates
    <3> QED BY <1>1, <2>1, <3>1 DEF Database
  <2>4. judged = Judgement(v, g, verdict, seen) BY DEF Judgement, noted, judged, t0, staged
  <2>5. Keeps(db, judged) BY <2>1, <2>3 DEF Keeps
  <2>6. \A t \in Submissions :
          judged.cands[t] = IF t = t0 /\ seen.cands[t] # CandidateAfter[verdict]
                       THEN CandidateAfter[verdict] ELSE staged.cands[t]
      BY <2>1, <2>7
  <2> QED BY <2>1, <2>3, <2>4, <2>5, <2>6
<1> QED BY <1>1, <1>3, <1>4 DEF t0, staged

LEMMA VerdictsType ==
  ASSUME NEW v \in Database, NEW s \in Submissions,
         NEW verdict \in IF v.verdict[s] = "NONE" THEN VerdictsOn(v, s) ELSE {v.verdict[s]}
  PROVE  verdict \in {"PASSED", "FAILED", "INCONCLUSIVE"}
<1>1. v.verdict[s] \in Verdicts BY DEF Database
<1>2. CASE v.verdict[s] = "NONE" BY <1>2 DEF VerdictsOn, OverallStatus
<1>3. CASE v.verdict[s] # "NONE" BY <1>1, <1>3 DEF Verdicts
<1> QED BY <1>2, <1>3

LEMMA FinalizeRunContinues ==
  ASSUME RunInv, NEW w \in Workers, FinalizeRun(w)
  PROVE  Continues(w)
<1> DEFINE g == job[w].gen
<1>1. Inside(w) /\ pc[w] = "finalize" /\ view[w] # None BY DEF FinalizeRun, At, Inside
<1>2. g \in Generations /\ g < db.gens /\ db.status # "NONE" /\ db \in Database /\ g \in Nat
    BY <1>1, InsideFits, GenerationsType DEF RunInv
<1>3. PICK v \in Reads(w) : Finalizes(w, v, g) BY FinalizeRunEffect
<1>4. /\ v \in Database /\ Shape(v) /\ Behind(v, db) /\ JobFits(job[w], v)
      /\ v.gens \in Nat /\ db.gens \in Nat /\ v.gens <= MaxGenerations /\ db.gens <= MaxGenerations
      /\ v.gens <= db.gens
    BY <1>1, <1>2, ReadsFit, GensType DEF Behind
<1>5. g < v.gens
  <2>0. job[w] = FinalizeJob(g) BY <1>1, InsideFits
  <2> HIDE DEF g
  <2>1. job[w] # CreateJob BY <2>0 DEF CreateJob, FinalizeJob, Job
  <2> QED BY <1>4, <2>1 DEF JobFits, g
<1> HIDE DEF g
<1>6. CASE Return(w, "settle", {}) BY <1>1, <1>6, ReturnContinues
<1>7. CASE Raise(w) BY <1>1, <1>7, RaiseContinues
<1>8. ASSUME NEW h \in Generations
      PROVE  LET keys == {ResearchJob(a) : a \in Researchers(h)}
             IN  keys \in SUBSET Jobs /\ keys # {} /\ \A j \in keys : j.gen = h /\ j.agent \in Researchers(h)
  <2>1. Agent(h, "researcher", 1, 1) \in Researchers(h) BY RunCreateAssumption DEF Researchers
  <2>2. ASSUME NEW a \in Researchers(h)
        PROVE  ResearchJob(a) \in Jobs /\ ResearchJob(a).gen = h /\ ResearchJob(a).agent = a
    <3>1. ResearchJob(a) \in Jobs BY JobSets
    <3> QED BY <3>1, ResearcherParts DEF ResearchJob, Job
  <2> QED BY <2>1, <2>2
<1>9. CASE Return(w, "enqueue", {ResearchJob(a) : a \in Researchers(Latest(v))})
  <2> DEFINE h == Latest(v)
             keys == {ResearchJob(a) : a \in Researchers(h)}
  <2>1. h \in Generations /\ h < db.gens /\ h < v.gens
      BY <1>2, <1>4, <1>5, RunCreateAssumption DEF Latest, Generations
  <2>2. Return(w, "enqueue", keys) BY <1>9
  <2>3. keys \in SUBSET Jobs /\ keys # {} /\ \A j \in keys : j.gen = h /\ j.agent \in Researchers(h)
      BY <1>8, <2>1
  <2> HIDE DEF h
  <2>4. Researchers(h) \subseteq Here(db)
      BY <1>4, <2>1, AgentSets, ResearcherParts DEF Shape, Behind
  <2> HIDE DEF keys
  <2>5. \A j \in keys : JobFits(j, db) BY <1>2, <2>1, <2>3, <2>4 DEF JobFits
  <2> QED BY <1>1, <2>2, <2>3, <2>5, ReturnContinues
<1>10. ASSUME NEW new \in Database, Keeps(db, new), JudgingComplete(v, g), IsLatest(v, g),
              g + 1 = MaxGenerations, CommitStatus(w, new, "COMPLETED", "settle", {})
       PROVE  Continues(w)
  <2> DEFINE e == [new EXCEPT !.status = "COMPLETED"]
  <2>1. /\ e.status = "COMPLETED" /\ e.gens = db.gens /\ Here(e) = Here(db) /\ e.evals = db.evals
      BY <1>10, StatusApart DEF Keeps, RunStatus
  <2>2. JudgedIn(v, g) /\ JudgesFollow(v, g)
      BY <1>2, <1>4, <1>10, CompleteIsJudged DEF JudgingComplete
  <2> HIDE DEF e
  <2>3. JudgedIn(e, g) /\ JudgesFollow(e, g) BY <1>4, <2>1, <2>2, FollowStill DEF Behind
  <2>4. e.gens = MaxGenerations /\ g = MaxGenerations - 1
      BY <1>2, <1>4, <1>10, <2>1, RunCreateAssumption DEF IsLatest, Latest
  <2>5. StatusFits(e) BY <2>1, <2>3, <2>4 DEF StatusFits
  <2>6. Grows(db, new) BY <1>10 DEF Grows
  <2>7. StatusFits([new EXCEPT !.status = "COMPLETED"]) BY <2>5 DEF e
  <2>8. \A j \in {} : JobFits(j, [new EXCEPT !.status = "COMPLETED"]) OBVIOUS
  <2>9. "COMPLETED" \in RunStatus /\ "COMPLETED" # "NONE" /\ {} \in SUBSET Jobs BY DEF RunStatus
  <2>10. "settle" \in UnitsOf(job[w].type) \union {"enqueue", "settle", "raised"} OBVIOUS
  <2> QED BY <1>1, <1>10, <2>6, <2>7, <2>8, <2>9, <2>10, CommitStatusContinues
<1>11. ASSUME JudgingComplete(v, g), IsLatest(v, g), g + 1 # MaxGenerations, ~(v.gens < db.gens),
              NEW selected \in Selections(v, g),
              CommitStatus(w, Bred(g, selected), "RESEARCHING", "enqueue",
                           {ResearchJob(a) : a \in Researchers(g + 1)})
       PROVE  Continues(w)
  <2> DEFINE new == Bred(g, selected)
             keys == {ResearchJob(a) : a \in Researchers(g + 1)}
             e == [new EXCEPT !.status = "RESEARCHING"]
  <2>1. g + 1 = db.gens /\ g + 1 \in Generations
      BY <1>2, <1>4, <1>11, RunCreateAssumption DEF IsLatest, Latest, Generations
  <2>2. selected \in Seq(Submissions) /\ Len(selected) > 0 BY <1>2, <1>4, <1>11, SelectionType
  <2>3. /\ new \in Database /\ new.gens = db.gens + 1 /\ new.subs = db.subs /\ new.evals = db.evals
        /\ new.finds = db.finds /\ Here(new) = Here(db) \union Researchers(g + 1)
      BY <1>2, <1>11, <2>1, <2>2, BreedsTheNext
  <2>4. keys \in SUBSET Jobs /\ keys # {} /\ \A j \in keys : j.gen = g + 1 /\ j.agent \in Researchers(g + 1)
      BY <1>8, <2>1
  <2>5. CommitStatus(w, new, "RESEARCHING", "enqueue", keys) BY <1>11
  <2> HIDE DEF new, keys
  <2>6. JudgedIn(db, g) /\ JudgesFollow(db, g)
    <3>1. JudgedIn(v, g) /\ JudgesFollow(v, g)
        BY <1>2, <1>4, <1>11, CompleteIsJudged DEF JudgingComplete
    <3> QED BY <1>4, <3>1, FollowStill DEF Behind
  <2>7. Breeds(db, new)
    <3>1. db.gens - 1 = g BY <1>2, <1>4, <2>1
    <3> QED BY <2>1, <2>3, <2>6, <3>1 DEF Breeds
  <2>8. e.status = "RESEARCHING" /\ Here(e) = Here(new) /\ e.gens = new.gens
      BY <2>3, StatusApart DEF Keeps, RunStatus
  <2> HIDE DEF e
  <2>9. StatusFits(e) BY <1>4, <2>3, <2>8 DEF StatusFits
  <2>10. \A j \in keys : JobFits(j, e) BY <1>4, <2>1, <2>3, <2>4, <2>8 DEF JobFits
  <2>11. Grows(db, new) BY <2>7 DEF Grows
  <2> QED BY <1>1, <2>3, <2>4, <2>5, <2>9, <2>10, <2>11, CommitStatusContinues DEF e, RunStatus
<1>12. CASE \E verdict \in IF v.verdict[Target(v, g)] = "NONE" THEN VerdictsOn(v, Target(v, g))
                           ELSE {v.verdict[Target(v, g)]},
                seen \in IF Proposed(v, g) THEN {Staged(v, g)} ELSE {v, db} :
              /\ JudgingComplete(v, g) /\ IsLatest(v, g) /\ g + 1 = MaxGenerations
              /\ CommitStatus(w, Judgement(v, g, verdict, seen), "COMPLETED", "settle", {})
  <2>1. PICK verdict \in IF v.verdict[Target(v, g)] = "NONE" THEN VerdictsOn(v, Target(v, g))
                         ELSE {v.verdict[Target(v, g)]},
             seen \in IF Proposed(v, g) THEN {Staged(v, g)} ELSE {v, db} :
               /\ JudgingComplete(v, g) /\ IsLatest(v, g) /\ g + 1 = MaxGenerations
               /\ CommitStatus(w, Judgement(v, g, verdict, seen), "COMPLETED", "settle", {})
      BY <1>12, Zenon
  <2>2. Target(v, g) \in Submissions BY <1>2, <1>4, JudgementKeeps
  <2>3. verdict \in {"PASSED", "FAILED", "INCONCLUSIVE"} BY <1>4, <2>2, VerdictsType, Zenon
  <2>4. Judgement(v, g, verdict, seen) \in Database /\ Keeps(db, Judgement(v, g, verdict, seen))
      BY <1>2, <1>4, <2>3, JudgementKeeps, Zenon
  <2> QED BY <1>10, <2>1, <2>4
<1>13. CASE /\ JudgingComplete(v, g) /\ IsLatest(v, g) /\ g + 1 = MaxGenerations
            /\ CommitStatus(w, Staged(v, g), "COMPLETED", "settle", {})
    BY <1>2, <1>4, <1>10, <1>13, JudgementKeeps
<1>14. CASE /\ JudgingComplete(v, g) /\ IsLatest(v, g) /\ g + 1 # MaxGenerations /\ ~(v.gens < db.gens)
            /\ \E selected \in Selections(v, g) :
                 CommitStatus(w, Bred(g, selected), "RESEARCHING", "enqueue",
                              {ResearchJob(a) : a \in Researchers(g + 1)})
    BY <1>11, <1>14
<1> QED BY <1>3, <1>6, <1>7, <1>9, <1>12, <1>13, <1>14, Zenon DEF Finalizes

LEMMA FailRunContinues ==
  ASSUME RunInv, NEW w \in Workers, FailRun(w)
  PROVE  Continues(w)
<1>1. Inside(w) BY DEF FailRun, At, Inside
<1>2. Return(w, "settle", {}) \/ CommitStatus(w, db, "FAILED", "settle", {}) BY DEF FailRun
<1>3. CASE Return(w, "settle", {}) BY <1>1, <1>3, ReturnContinues
<1>4. CASE CommitStatus(w, db, "FAILED", "settle", {})
  <2>1. db \in Database /\ Grows(db, db) BY DEF RunInv, Grows, Keeps
  <2>2. "FAILED" \in RunStatus /\ "FAILED" # "NONE" /\ {} \in SUBSET Jobs BY DEF RunStatus
  <2>3. StatusFits([db EXCEPT !.status = "FAILED"])
    <3>1. [db EXCEPT !.status = "FAILED"].status = "FAILED" BY <2>1, <2>2, StatusApart
    <3> QED BY <3>1 DEF StatusFits
  <2>4. \A j \in {} : JobFits(j, [db EXCEPT !.status = "FAILED"]) OBVIOUS
  <2> QED BY <1>1, <1>4, <2>1, <2>2, <2>3, <2>4, CommitStatusContinues
<1> QED BY <1>2, <1>3, <1>4

\* A handler of an agent's job writes its agent's status, and with it the result.
LEMMA BecomesContinues ==
  ASSUME RunInv, NEW w \in Workers, pc[w] \in {"start", "result"},
         NEW new \in Database, Grows(db, new), new.status = db.status, new.gens = db.gens,
         Here(new) = Here(db),
         NEW status \in {"RUNNING", "COMPLETED"}, NEW where \in {"calling", "schedule"},
         Becomes(w, new, status, where)
  PROVE  Continues(w)
<1>1. Inside(w) BY DEF Inside
<1>2. job[w].agent \in Here(new) /\ job[w].type \in AgentJobs /\ db.status # "NONE"
    BY <1>1, InsideFits
<1>3. where \in UnitsOf(job[w].type) BY <1>2 DEF UnitsOf, AgentJobs
<1>4. PICK seen \in {view[w], db} :
        Commit(w, AgentUpdates(new, seen, job[w].agent, status), where, {})
    BY DEF Becomes
<1> DEFINE e == AgentUpdates(new, seen, job[w].agent, status)
<1>5. e \in Database /\ Keeps(new, e) /\ e.status = new.status
  <2>1. status \in AgentStatus \ {"ABSENT"} BY DEF AgentStatus
  <2> QED BY <1>2, <2>1, AgentUpdatesKeep
<1>6. Commit(w, e, where, {}) BY <1>4
<1> HIDE DEF e
<1>7. Grows(db, e) BY <1>5, GrowsThenKeeps
<1>8. StatusFits(e) BY <1>2, <1>5, <1>7, GrowsAhead, StatusStill DEF RunInv, Keeps
<1>9. \A j \in {} : JobFits(j, e) OBVIOUS
<1> QED BY <1>1, <1>2, <1>3, <1>5, <1>6, <1>7, <1>8, <1>9, CommitContinues

LEMMA ResumeContinues ==
  ASSUME RunInv, NEW w \in Workers, pc[w] = "start", Resume(w)
  PROVE  Continues(w)
<1>1. CASE Becomes(w, db, "COMPLETED", "schedule")
    BY <1>1, BecomesContinues DEF RunInv, Grows, Keeps
<1>2. CASE Return(w, "schedule", {})
  <2>1. Inside(w) BY DEF Inside
  <2>2. "schedule" \in UnitsOf(job[w].type) BY <2>1, InsideFits DEF UnitsOf, AgentJobs
  <2> QED BY <1>2, <2>1, <2>2, ReturnContinues
<1> QED BY <1>1, <1>2 DEF Resume

LEMMA StartContinues ==
  ASSUME RunInv, NEW w \in Workers, StartResearch(w) \/ StartJudge(w) \/ StartCritic(w)
  PROVE  Continues(w)
<1>1. pc[w] = "start" /\ Inside(w) BY DEF StartResearch, StartJudge, StartCritic, At, Inside
<1>2. Resume(w) \/ Return(w, "settle", {}) \/ Becomes(w, db, "RUNNING", "calling")
    BY DEF StartResearch, StartJudge, StartCritic
<1>3. CASE Resume(w) BY <1>1, <1>3, ResumeContinues
<1>4. CASE Return(w, "settle", {}) BY <1>1, <1>4, ReturnContinues
<1>5. CASE Becomes(w, db, "RUNNING", "calling")
    BY <1>1, <1>5, BecomesContinues DEF RunInv, Grows, Keeps
<1> QED BY <1>2, <1>3, <1>4, <1>5

LEMMA StoreSubmissionContinues ==
  ASSUME RunInv, NEW w \in Workers, StoreSubmission(w)
  PROVE  Continues(w)
<1> DEFINE a == job[w].agent
           new == [db EXCEPT !.subs = @ \union {a}]
<1>1. pc[w] = "result" /\ Inside(w) BY DEF StoreSubmission, At, Inside
<1>2. Raise(w) \/ Becomes(w, new, "COMPLETED", "schedule") BY DEF StoreSubmission
<1>3. CASE Raise(w) BY <1>1, <1>3, RaiseContinues
<1>4. CASE Becomes(w, new, "COMPLETED", "schedule")
  <2>1. a \in Submissions
    <3>1. job[w] \in Jobs /\ job[w].type = "RUN_RESEARCH_AGENT" /\ job[w].gen \in Generations
        BY <1>1, InsideFits DEF StoreSubmission
    <3> QED BY <3>1, TypeSays, AgentSets
  <2>2. db \in Database BY DEF RunInv
  <2>3. /\ new \in Database /\ new.subs = db.subs \union {a} /\ new.status = db.status
        /\ new.gens = db.gens /\ new.agents = db.agents /\ new.evals = db.evals /\ new.finds = db.finds
    <3>1. db.subs \union {a} \in SUBSET Submissions BY <2>1, <2>2 DEF Database
    <3> QED BY <2>2, <3>1 DEF Database
  <2> HIDE DEF new
  <2>4. Here(new) = Here(db) BY <2>3 DEF Here
  <2>5. AddsSubmission(db, new) BY <2>3, <2>4 DEF AddsSubmission
  <2> QED BY <1>1, <1>4, <2>3, <2>4, <2>5, BecomesContinues DEF Grows
<1> QED BY <1>2, <1>3, <1>4

LEMMA StoreEvaluationsContinues ==
  ASSUME RunInv, NEW w \in Workers, StoreEvaluations(w)
  PROVE  Continues(w)
<1> DEFINE a == job[w].agent
           fresh == Unjudged(view[w], a)
           new == [db EXCEPT !.evals = @ \union (fresh \X {a})]
<1>1. pc[w] = "result" /\ Inside(w) /\ view[w] # None BY DEF StoreEvaluations, At, Inside
<1>2. Raise(w) \/ Becomes(w, new, "COMPLETED", "schedule") BY DEF StoreEvaluations
<1>3. CASE Raise(w) BY <1>1, <1>3, RaiseContinues
<1>4. CASE Becomes(w, new, "COMPLETED", "schedule")
  <2>1. a \in JudgesOf(a.gen) /\ a.gen \in Generations
    <3>1. job[w] \in Jobs /\ job[w].type = "RUN_JUDGE" /\ job[w].gen \in Generations
        BY <1>1, InsideFits DEF StoreEvaluations
    <3> QED BY <3>1, TypeSays, JudgeParts
  <2>2. db \in Database /\ Behind(view[w], db) /\ view[w] \in Database
      BY <1>1, ReadsFit DEF RunInv, WorkerFits, Reads
  <2>3. fresh \subseteq db.subs /\ fresh \subseteq Submissions
      BY <2>2 DEF Unjudged, SubsOf, Behind, Database
  <2> DEFINE add == fresh \X {a}
  <2>4. add \subseteq Submissions \X UNION {JudgesOf(g) : g \in Generations} BY <2>1, <2>3
  <2>5. \A n \in add : n[1] \in db.subs BY <2>3
  <2>6. new = [db EXCEPT !.evals = db.evals \union add] OBVIOUS
  <2> HIDE DEF add, new
  <2>7. /\ new \in Database /\ new.evals = db.evals \union add /\ new.status = db.status
        /\ new.gens = db.gens /\ new.agents = db.agents /\ new.subs = db.subs /\ new.finds = db.finds
    <3>1. db.evals \union add \in SUBSET (Submissions \X UNION {JudgesOf(g) : g \in Generations})
        BY <2>2, <2>4 DEF Database
    <3> QED BY <2>2, <2>6, <3>1 DEF Database
  <2>8. Here(new) = Here(db) BY <2>7 DEF Here
  <2>9. AddsEvaluations(db, new) BY <2>5, <2>7, <2>8 DEF AddsEvaluations
  <2> QED BY <1>1, <1>4, <2>7, <2>8, <2>9, BecomesContinues DEF Grows
<1> QED BY <1>2, <1>3, <1>4

LEMMA StoreFindingContinues ==
  ASSUME RunInv, NEW w \in Workers, StoreFinding(w)
  PROVE  Continues(w)
<1> DEFINE a == job[w].agent
           finding(fatal) == [critic |-> a, sub |-> Elite(a.gen, {}), fatal |-> fatal]
           New(fatal) == [db EXCEPT !.finds = @ \union {finding(fatal)}]
<1>1. pc[w] = "result" /\ Inside(w) BY DEF StoreFinding, At, Inside
<1>2. \/ Raise(w) \/ Becomes(w, db, "COMPLETED", "schedule")
      \/ \E fatal \in BOOLEAN : Becomes(w, New(fatal), "COMPLETED", "schedule")
    BY DEF StoreFinding
<1>3. CASE Raise(w) BY <1>1, <1>3, RaiseContinues
<1>4. CASE Becomes(w, db, "COMPLETED", "schedule")
    BY <1>1, <1>4, BecomesContinues DEF RunInv, Grows, Keeps
<1>5. ASSUME NEW fatal \in BOOLEAN, Becomes(w, New(fatal), "COMPLETED", "schedule")
      PROVE  Continues(w)
  <2> DEFINE new == New(fatal)
             f == finding(fatal)
  <2>1. a \in Agents /\ a \in CriticsOf(a.gen) /\ a.gen \in Generations /\ a \in Here(db) /\ a.role = "critic"
    <3>1. /\ job[w] \in Jobs /\ job[w].type = "RUN_CRITIC" /\ job[w].gen \in Generations
          /\ job[w].agent \in Here(db)
        BY <1>1, InsideFits DEF StoreFinding
    <3> QED BY <3>1, TypeSays, CriticParts, AgentSets
  <2>2. db \in Database /\ Shape(db) BY DEF RunInv
  <2>3. Elite(a.gen, {}) \in Researchers(a.gen) /\ Elite(a.gen, {}) \in Submissions
      BY <2>1, EliteIsBest, AgentSets
  <2>4. Elite(a.gen, {}) \in db.subs BY <2>1, <2>2, <2>3 DEF Shape
  <2>5. f \in [critic : Agents, sub : Submissions, fatal : BOOLEAN] /\ f.sub \in db.subs
      BY <2>1, <2>3, <2>4
  <2>6. new = [db EXCEPT !.finds = db.finds \union {f}] OBVIOUS
  <2> HIDE DEF f, new
  <2>7. /\ new \in Database /\ new.finds = db.finds \union {f} /\ new.status = db.status
        /\ new.gens = db.gens /\ new.agents = db.agents /\ new.subs = db.subs /\ new.evals = db.evals
    <3>1. db.finds \union {f} \in SUBSET [critic : Agents, sub : Submissions, fatal : BOOLEAN]
        BY <2>2, <2>5 DEF Database
    <3> QED BY <2>2, <2>6, <3>1 DEF Database
  <2>8. Here(new) = Here(db) BY <2>7 DEF Here
  <2>9. AddsFinding(db, new) BY <2>5, <2>7, <2>8 DEF AddsFinding
  <2>10. Becomes(w, new, "COMPLETED", "schedule") BY <1>5 DEF new
  <2> QED BY <1>1, <2>7, <2>8, <2>9, <2>10, BecomesContinues DEF Grows
<1> QED BY <1>2, <1>3, <1>4, <1>5

\* The call of the provider.
LEMMA ProviderAnswersContinues ==
  ASSUME RunInv, NEW w \in Workers, ProviderAnswers(w)
  PROVE  Continues(w)
<1>1. Inside(w) /\ Return(w, "result", {}) BY DEF ProviderAnswers, Inside
<1>2. "result" \in UnitsOf(job[w].type) BY <1>1, InsideFits DEF ProviderAnswers, UnitsOf, AgentJobs
<1> QED BY <1>1, <1>2, ReturnContinues

LEMMA ProviderFailsContinues ==
  ASSUME RunInv, NEW w \in Workers, ProviderFails(w)
  PROVE  Continues(w)
<1>1. Works(w, Jobs, Database, UnitsOfWork) BY RunSetting, ProviderFailsWorks DEF RunInv, Loop
<1>2. Goto(w, "raised", {}) /\ UNCHANGED <<db, api>> BY DEF ProviderFails
<1>3. /\ pc'[w] = "raised" /\ todo'[w] = {}
      /\ \A u \in Workers \ {w} : todo'[u] = todo[u] /\ pc'[u] = pc[u]
    BY <1>2 DEF Goto, RunInv, Loop, LoopInv, LoopTyped
<1>4. db' \in Database /\ StatusFits(db') BY <1>2 DEF RunInv
<1>5. Grows(db, db') BY <1>2 DEF Grows, Keeps
<1> QED BY <1>1, <1>2, <1>3, <1>4, <1>5 DEF Continues, Goto, Anywhere

-----------------------------------------------------------------------------
(* Every step keeps the invariant, and moves rows of the queue only as the   *)
(* lifecycle of a job allows.                                               *)

\* What a step has to show: the rows it enqueues fit, and so does each worker it
\* moves. The other rows and workers fit what has grown.
Unmoved(u) == pc'[u] = pc[u] /\ job'[u] = job[u] /\ view'[u] = view[u] /\ todo'[u] = todo[u]

LEMMA RunKept ==
  ASSUME RunInv, Loop', db' \in Database, Grows(db, db'), StatusFits(db'),
         api' \in {"new", "committed", "done", "dead"}, api' = "new" <=> db'.status = "NONE",
         db.status # "NONE" => db'.status # "NONE",
         \A j \in Jobs : jobs'[j].status # "absent" =>
           jobs[j].status # "absent" \/ JobFits(j, db'),
         \A u \in Workers : WorkerFits(u)' \/ Unmoved(u)
  PROVE  RunInv'
<1>1. /\ db \in Database /\ Shape(db) /\ StatusFits(db)
      /\ \A j \in Jobs : jobs[j].status # "absent" => JobFits(j, db)
      /\ \A u \in Workers : WorkerFits(u)
    BY DEF RunInv
<1>2. Behind(db, db') /\ db.gens \in Nat /\ db'.gens \in Nat BY <1>1, GrowsAhead, GensType
<1>3. Shape(db') BY <1>1, GrowsInShape
<1>4. \A j \in Jobs : JobFits(j, db) => JobFits(j, db') BY <1>2, FitsStill
<1>5. ASSUME NEW u \in Workers, Unmoved(u) PROVE WorkerFits(u)'
  <2>1. todo[u] \in SUBSET Jobs /\ view[u] \in Database \union {None}
      BY DEF RunInv, Loop, LoopInv, LoopTyped
  <2>2. \A j \in todo[u] : JobFits(j, db') BY <1>1, <1>4, <2>1 DEF WorkerFits
  <2>3. view[u] # None => Behind(view[u], db')
    <3> SUFFICES ASSUME view[u] # None PROVE Behind(view[u], db') OBVIOUS
    <3>1. view[u] \in Database /\ Behind(view[u], db) BY <1>1, <2>1 DEF WorkerFits
    <3> QED BY <1>1, <1>2, <3>1, BehindStill
  <2>4. HasCritics(db, job[u].gen) => HasCritics(db', job[u].gen) BY <1>2 DEF HasCritics, Behind
  <2> QED BY <1>1, <1>5, <2>2, <2>3, <2>4 DEF WorkerFits, Unmoved
<1>6. \A u \in Workers : WorkerFits(u)' BY <1>5
<1>7. \A j \in Jobs : jobs'[j].status # "absent" => JobFits(j, db') BY <1>1, <1>4
<1> QED BY <1>3, <1>6, <1>7 DEF RunInv

LEMMA ContinuesKeeps ==
  ASSUME RunInv, NEW w \in Workers, Continues(w)
  PROVE  RunInv' /\ RowsMove(Jobs)
<1>1. Works(w, Jobs, Database, UnitsOfWork) BY DEF Continues
<1>2. Loop' /\ RowsMove(Jobs) BY <1>1, RunSetting, WorksKeepsLoop DEF RunInv, Loop
<1>3. pc[w] \in UnitsOfWork \union {"calling"} /\ UNCHANGED <<jobs, job>> BY <1>1 DEF Works
<1>4. job[w] # None BY <1>3 DEF RunInv, Loop, LoopInv, LoopOK, UnitsOfWork
<1>5. db.status # "NONE" BY <1>4, HolderFits DEF JobFits
<1>6. api' \in {"new", "committed", "done", "dead"} /\ (api' = "new" <=> db'.status = "NONE")
    BY <1>5 DEF Continues, RunInv
<1>7. WorkerFits(w)'
  <2>1. view'[w] = None BY DEF Continues, RunInv, Loop, LoopInv, LoopTyped
  <2> QED BY <1>3, <2>1 DEF Continues, WorkerFits
<1>8. ASSUME NEW u \in Workers, u # w PROVE Unmoved(u)
    BY <1>3, <1>8 DEF Continues, Unmoved, RunInv, Loop, LoopInv, LoopTyped
<1>9. \A u \in Workers : WorkerFits(u)' \/ Unmoved(u) BY <1>7, <1>8
<1>10. db' \in Database /\ Grows(db, db') /\ StatusFits(db') /\ db'.status # "NONE"
    BY <1>5 DEF Continues
<1>11. \A j \in Jobs : jobs'[j].status # "absent" => jobs[j].status # "absent" \/ JobFits(j, db')
    BY <1>3
<1> QED BY <1>2, <1>6, <1>9, <1>10, <1>11, RunKept

\* The worker lets go of its job, or takes a step that leaves the run alone.
LEMMA LetsGoKeeps ==
  ASSUME RunInv, NEW w \in Workers, LetsGo(w, Jobs), UNCHANGED api,
         db' \in Database, Grows(db, db'), StatusFits(db'), db'.status = "NONE" <=> db.status = "NONE"
  PROVE  RunInv' /\ RowsMove(Jobs)
<1>1. Loop' /\ RowsMove(Jobs) BY RunSetting, LetsGoKeepsLoop DEF RunInv, Loop
<1>2. PICK where \in {"idle", "dead"} : Drop(w, where) BY DEF LetsGo
<1>3. UNCHANGED jobs BY DEF LetsGo
<1>4. WorkerFits(w)' BY <1>2 DEF Drop, Goto, WorkerFits, RunInv, Loop, LoopInv, LoopTyped
<1>5. ASSUME NEW u \in Workers, u # w PROVE Unmoved(u)
    BY <1>2, <1>5 DEF Drop, Goto, Unmoved, RunInv, Loop, LoopInv, LoopTyped
<1>6. \A u \in Workers : WorkerFits(u)' \/ Unmoved(u) BY <1>4, <1>5
<1>7. \A j \in Jobs : jobs'[j].status # "absent" => jobs[j].status # "absent" \/ JobFits(j, db')
    BY <1>3
<1>8. api' \in {"new", "committed", "done", "dead"} /\ (api' = "new" <=> db'.status = "NONE")
    BY DEF RunInv
<1> QED BY <1>1, <1>6, <1>7, <1>8, RunKept

\* A step of the loop that leaves the database alone and moves one worker.
LEMMA LoopStepKeeps ==
  ASSUME RunInv, Loop', UNCHANGED <<db, api>>,
         \A j \in Jobs : jobs'[j].status # "absent" =>
           jobs[j].status # "absent" \/ JobFits(j, db),
         \A u \in Workers : WorkerFits(u)' \/ Unmoved(u)
  PROVE  RunInv'
<1>1. db' \in Database /\ Grows(db, db') /\ StatusFits(db') BY DEF RunInv, Grows, Keeps
<1>2. api' \in {"new", "committed", "done", "dead"} /\ (api' = "new" <=> db'.status = "NONE")
    BY DEF RunInv
<1>3. \A j \in Jobs : jobs'[j].status # "absent" => jobs[j].status # "absent" \/ JobFits(j, db')
    OBVIOUS
<1> QED BY <1>1, <1>2, <1>3, RunKept

LEMMA ReportFailureKeeps ==
  ASSUME RunInv, NEW w \in Workers, ReportFailure(w)
  PROVE  RunInv' /\ RowsMove(Jobs)
<1> DEFINE a == job[w].agent
<1>1. pc[w] = "terminal" /\ view[w] # None /\ UNCHANGED <<jobs, api, budget>> BY DEF ReportFailure, At
<1>2. job[w] # None BY <1>1 DEF RunInv, Loop, LoopInv, LoopOK
<1>3. JobFits(job[w], db) /\ db \in Database /\ StatusFits(db) BY <1>2, HolderFits DEF RunInv
<1>4. PICK v \in Reads(w) :
        \/ UNCHANGED db /\ \E where \in {"idle", "dead"} : Drop(w, where)
        \/ /\ db' = [IF a = None THEN db ELSE AgentUpdates(db, v, a, "FAILED")
                       EXCEPT !.status = "FAILED"]
           /\ Drop(w, "idle")
  <2>1. PICK v \in Reads(w) :
          IF v.status \in Over THEN UNCHANGED db /\ Drop(w, "idle")
          ELSE \E seen \in {v, db} :
            IF "FAILED" \notin Allowed[seen.status] THEN UNCHANGED db /\ Drop(w, "dead")
            ELSE /\ db' = [IF a = None THEN db ELSE AgentUpdates(db, v, a, "FAILED")
                             EXCEPT !.status = "FAILED"]
                 /\ Drop(w, "idle")
      BY DEF ReportFailure
  <2> QED BY <2>1
<1>5. \E where \in {"idle", "dead"} : Drop(w, where) BY <1>4
<1>6. LetsGo(w, Jobs) BY <1>1, <1>5, ReportLetsGo
<1>7. CASE UNCHANGED db
    BY <1>1, <1>3, <1>6, <1>7, LetsGoKeeps DEF Grows, Keeps
<1>8. CASE db' = [IF a = None THEN db ELSE AgentUpdates(db, v, a, "FAILED") EXCEPT !.status = "FAILED"]
  <2> DEFINE d == IF a = None THEN db ELSE AgentUpdates(db, v, a, "FAILED")
  <2>1. d \in Database /\ Keeps(db, d)
    <3>1. CASE a = None BY <1>3, <3>1 DEF Keeps
    <3>2. CASE a # None
      <4>1. a \in Here(db) BY <1>3, <3>2 DEF JobFits
      <4> QED BY <1>3, <3>2, <4>1, AgentUpdatesKeep DEF AgentStatus
    <3> QED BY <3>1, <3>2
  <2>2. db' = [d EXCEPT !.status = "FAILED"] BY <1>8
  <2> HIDE DEF d
  <2>3. db' \in Database /\ db'.status = "FAILED" /\ Keeps(d, db')
      BY <2>1, <2>2, StatusApart DEF RunStatus
  <2>4. Grows(db, db') BY <2>1, <2>3 DEF Grows, Keeps
  <2>5. StatusFits(db') BY <2>3 DEF StatusFits
  <2>6. db'.status = "NONE" <=> db.status = "NONE" BY <1>3, <2>3 DEF JobFits
  <2> QED BY <1>1, <1>6, <2>3, <2>4, <2>5, <2>6, LetsGoKeeps
<1> QED BY <1>4, <1>7, <1>8

LEMMA BeginKeeps ==
  ASSUME RunInv, NEW w \in Workers, Begin(w)
  PROVE  RunInv' /\ RowsMove(Jobs)
<1>1. BeginAt(w, UnitsOfWork) BY DEF Begin
<1>2. Loop' /\ RowsMove(Jobs) BY <1>1, RunSetting, BeginKeepsLoop DEF RunInv, Loop
<1>3. pc[w] \in UnitsOfWork /\ UNCHANGED <<db, jobs, api, pc, job, todo>> /\ view' = [view EXCEPT ![w] = db]
    BY <1>1 DEF BeginAt
<1>4. JobFits(job[w], db) /\ WorkerFits(w) /\ db \in Database /\ Shape(db) /\ StatusFits(db)
  <2>1. job[w] # None BY <1>3 DEF RunInv, Loop, LoopInv, LoopOK, UnitsOfWork
  <2> QED BY <2>1, HolderFits DEF RunInv
<1>5. WorkerFits(w)'
  <2>1. view'[w] = db BY <1>3 DEF RunInv, Loop, LoopInv, LoopTyped
  <2>2. Behind(db, db) BY <1>4, GensType DEF Behind
  <2> QED BY <1>3, <1>4, <2>1, <2>2 DEF WorkerFits
<1>6. ASSUME NEW u \in Workers, u # w PROVE Unmoved(u)
    BY <1>3, <1>6 DEF Unmoved, RunInv, Loop, LoopInv, LoopTyped
<1>7. \A u \in Workers : WorkerFits(u)' \/ Unmoved(u) BY <1>5, <1>6
<1>8. \A j \in Jobs : jobs'[j].status # "absent" => jobs[j].status # "absent" \/ JobFits(j, db)
    BY <1>3
<1> QED BY <1>2, <1>3, <1>7, <1>8, LoopStepKeeps

LEMMA EnqueueNextKeeps ==
  ASSUME RunInv, NEW w \in Workers, EnqueueNext(w)
  PROVE  RunInv' /\ RowsMove(Jobs)
<1>1. PICK j \in todo[w] : EnqueueOne(w, j) BY DEF EnqueueNext
<1>2. todo[w] \in SUBSET Jobs /\ WorkerFits(w) BY DEF RunInv, Loop, LoopInv, LoopTyped
<1>3. Loop' /\ RowsMove(Jobs)
    BY <1>1, RunSetting, EnqueueOneKeepsLoop DEF RunInv, Loop
<1>4. /\ jobs' = Enqueued(jobs, {j}) /\ UNCHANGED <<db, api, job>>
      /\ Goto(w, IF todo[w] = {j} THEN "settle" ELSE "enqueue", todo[w] \ {j})
    BY <1>1 DEF EnqueueOne
<1>5. WorkerFits(w)'
    BY <1>2, <1>4 DEF Goto, WorkerFits, Anywhere, RunInv, Loop, LoopInv, LoopTyped
<1>6. ASSUME NEW u \in Workers, u # w PROVE Unmoved(u)
    BY <1>4, <1>6 DEF Goto, Unmoved, RunInv, Loop, LoopInv, LoopTyped
<1>7. \A u \in Workers : WorkerFits(u)' \/ Unmoved(u) BY <1>5, <1>6
<1>8. ASSUME NEW k \in Jobs, jobs'[k].status # "absent"
      PROVE  jobs[k].status # "absent" \/ JobFits(k, db)
  <2>1. jobs[k].status # "absent" \/ k \in {j}
      BY <1>2, <1>4, <1>8, EnqueuedAdds DEF RunInv, Loop
  <2> QED BY <1>2, <2>1 DEF WorkerFits
<1> QED BY <1>3, <1>4, <1>7, <1>8, LoopStepKeeps

LEMMA SettleKeeps ==
  ASSUME RunInv, NEW w \in Workers, Settle(w) \/ Fail(w)
  PROVE  RunInv' /\ RowsMove(Jobs)
<1>1. Loop' /\ RowsMove(Jobs) BY RunSetting, SettleKeepsLoop, FailKeepsLoop DEF RunInv, Loop
<1>2. NoNewRows(Jobs) BY RunSetting, OnlyEnqueuesAdd DEF RunInv, Loop
<1>3. UNCHANGED <<db, api>> BY DEF Settle, Fail
<1>4. \/ \E where \in {"idle", "dead"} : Drop(w, where)
      \/ Goto(w, "terminal", {}) /\ UNCHANGED job
    BY DEF Settle, Fail
<1>5. WorkerFits(w)'
  <2>1. CASE \E where \in {"idle", "dead"} : Drop(w, where)
      BY <2>1 DEF Drop, Goto, WorkerFits, RunInv, Loop, LoopInv, LoopTyped
  <2>2. CASE Goto(w, "terminal", {}) /\ UNCHANGED job
      BY <2>2 DEF Goto, WorkerFits, Anywhere, RunInv, Loop, LoopInv, LoopTyped
  <2> QED BY <1>4, <2>1, <2>2
<1>6. ASSUME NEW u \in Workers, u # w PROVE Unmoved(u)
    BY <1>4, <1>6 DEF Drop, Goto, Unmoved, RunInv, Loop, LoopInv, LoopTyped
<1>7. \A u \in Workers : WorkerFits(u)' \/ Unmoved(u) BY <1>5, <1>6
<1>8. \A j \in Jobs : jobs'[j].status # "absent" => jobs[j].status # "absent" \/ JobFits(j, db)
    BY <1>2 DEF NoNewRows
<1> QED BY <1>1, <1>3, <1>7, <1>8, LoopStepKeeps

LEMMA CrashKeeps ==
  ASSUME RunInv, NEW w \in Workers, CrashWorker(w) \/ Restart(w)
  PROVE  RunInv' /\ RowsMove(Jobs)
<1>1. LetsGo(w, Jobs) BY CrashOrRestartLetsGo DEF RunInv, Loop
<1>2. UNCHANGED <<db, api>> BY DEF CrashWorker, Restart
<1>3. db' \in Database /\ Grows(db, db') /\ StatusFits(db') BY <1>2 DEF RunInv, Grows, Keeps
<1> QED BY <1>1, <1>2, <1>3, LetsGoKeeps

LEMMA ClaimKeeps ==
  ASSUME RunInv, NEW w \in Workers, NEW j \in Jobs, Claim(w, j)
  PROVE  RunInv' /\ RowsMove(Jobs)
<1> DEFINE unit == FirstUnit(j.type)
<1>1. unit \in UnitsOfWork \ {"terminal", "opened"} /\ unit \in UnitsOf(j.type)
    BY TypeSays DEF FirstUnit, UnitsOf, UnitsOfWork, AgentJobs
<1>2. ClaimFor(w, j, unit) BY DEF Claim
<1> HIDE DEF unit
<1>3. Loop' /\ RowsMove(Jobs) BY <1>1, <1>2, RunSetting, ClaimKeepsLoop DEF RunInv, Loop
<1>4. NoNewRows(Jobs) BY <1>1, <1>2, RunSetting, OnlyEnqueuesAdd DEF RunInv, Loop
<1>5. /\ pc[w] = "idle" /\ UNCHANGED <<db, api, view, todo>>
      /\ pc' = [pc EXCEPT ![w] = unit] /\ job' = [job EXCEPT ![w] = j]
    BY <1>2 DEF ClaimFor
<1>6. view[w] = None /\ todo[w] = {} BY <1>5 DEF RunInv, Loop, LoopInv, LoopOK, UnitsOfWork
<1>7. WorkerFits(w)' BY <1>1, <1>5, <1>6 DEF WorkerFits, RunInv, Loop, LoopInv, LoopTyped
<1>8. ASSUME NEW u \in Workers, u # w PROVE Unmoved(u)
    BY <1>5, <1>8 DEF Unmoved, RunInv, Loop, LoopInv, LoopTyped
<1>9. \A u \in Workers : WorkerFits(u)' \/ Unmoved(u) BY <1>7, <1>8
<1>10. \A k \in Jobs : jobs'[k].status # "absent" => jobs[k].status # "absent" \/ JobFits(k, db)
    BY <1>4 DEF NoNewRows
<1> QED BY <1>3, <1>5, <1>9, <1>10, LoopStepKeeps

LEMMA LapseKeeps ==
  ASSUME RunInv, NEW j \in Jobs, Lapse(j)
  PROVE  RunInv' /\ RowsMove(Jobs)
<1>1. Loop' /\ RowsMove(Jobs) BY RunSetting, LapseKeepsLoop DEF RunInv, Loop
<1>2. NoNewRows(Jobs) BY RunSetting, OnlyEnqueuesAdd DEF RunInv, Loop
<1>3. UNCHANGED <<db, api, workerVars>> BY DEF Lapse
<1>4. \A u \in Workers : WorkerFits(u)' \/ Unmoved(u) BY <1>3 DEF Unmoved, workerVars
<1>5. \A k \in Jobs : jobs'[k].status # "absent" => jobs[k].status # "absent" \/ JobFits(k, db)
    BY <1>2 DEF NoNewRows
<1> QED BY <1>1, <1>3, <1>4, <1>5, LoopStepKeeps

LEMMA CreateRunKeeps ==
  ASSUME RunInv, CreateRun
  PROVE  RunInv' /\ RowsMove(Jobs)
<1>1. /\ api = "new" /\ api' = "committed" /\ db' = [db EXCEPT !.status = "CREATED"]
      /\ UNCHANGED <<jobs, workerVars, budget>>
    BY DEF CreateRun
<1>2. Loop' /\ RowsMove(Jobs) BY <1>1, IdleKeepsLoop DEF RunInv, Loop
<1>3. db \in Database /\ db.status = "NONE" /\ StatusFits(db) BY <1>1 DEF RunInv
<1>4. db' \in Database /\ db'.status = "CREATED" /\ Keeps(db, db')
    BY <1>1, <1>3, StatusApart DEF RunStatus
<1>5. StatusFits(db') BY <1>3, <1>4 DEF StatusFits, Keeps
<1>6. Grows(db, db') BY <1>4 DEF Grows
<1>7. \A u \in Workers : WorkerFits(u)' \/ Unmoved(u) BY <1>1 DEF Unmoved, workerVars
<1>8. \A k \in Jobs : jobs'[k].status # "absent" => jobs[k].status # "absent" \/ JobFits(k, db')
    BY <1>1
<1> QED BY <1>1, <1>2, <1>4, <1>5, <1>6, <1>7, <1>8, RunKept

LEMMA EnqueueCreateGenerationKeeps ==
  ASSUME RunInv, EnqueueCreateGeneration
  PROVE  RunInv' /\ RowsMove(Jobs)
<1>1. /\ api = "committed" /\ api' = "done" /\ jobs' = Enqueued(jobs, {CreateJob})
      /\ UNCHANGED <<db, workerVars, budget>>
    BY DEF EnqueueCreateGeneration
<1>2. CreateJob \in Jobs BY JobSets, GenerationsType
<1>3. Loop' /\ RowsMove(Jobs) BY <1>1, <1>2, RunSetting, EnqueuedKeepsLoop DEF RunInv, Loop
<1>4. JobFits(CreateJob, db) BY <1>1 DEF RunInv, JobFits, CreateJob, Job
<1>5. db' \in Database /\ Grows(db, db') /\ StatusFits(db') BY <1>1 DEF RunInv, Grows, Keeps
<1>6. \A u \in Workers : WorkerFits(u)' \/ Unmoved(u) BY <1>1 DEF Unmoved, workerVars
<1>7. ASSUME NEW k \in Jobs, jobs'[k].status # "absent"
      PROVE  jobs[k].status # "absent" \/ JobFits(k, db')
  <2>1. jobs[k].status # "absent" \/ k \in {CreateJob}
      BY <1>1, <1>2, <1>7, EnqueuedAdds DEF RunInv, Loop
  <2> QED BY <1>1, <1>4, <2>1
<1>8. api' = "new" <=> db'.status = "NONE" BY <1>1 DEF RunInv
<1> QED BY <1>1, <1>3, <1>5, <1>6, <1>7, <1>8, RunKept

LEMMA CrashApiKeeps ==
  ASSUME RunInv, CrashApi
  PROVE  RunInv' /\ RowsMove(Jobs)
<1>1. /\ api # "new" /\ api' = "dead" /\ UNCHANGED <<db, jobs, workerVars>> BY DEF CrashApi
<1>2. Loop' /\ RowsMove(Jobs) BY CrashApiKeepsLoop DEF RunInv, Loop
<1>3. db' \in Database /\ Grows(db, db') /\ StatusFits(db') BY <1>1 DEF RunInv, Grows, Keeps
<1>4. \A u \in Workers : WorkerFits(u)' \/ Unmoved(u) BY <1>1 DEF Unmoved, workerVars
<1>5. \A k \in Jobs : jobs'[k].status # "absent" => jobs[k].status # "absent" \/ JobFits(k, db')
    BY <1>1
<1>6. api' = "new" <=> db'.status = "NONE" BY <1>1 DEF RunInv
<1> QED BY <1>1, <1>2, <1>3, <1>4, <1>5, <1>6, RunKept

LEMMA InitRun == Init => RunInv
<1> SUFFICES ASSUME Init PROVE RunInv OBVIOUS
<1> USE DEF Init
<1>1. Loop BY RunSetting, InitLoop DEF Loop
<1>2. /\ db.status = "NONE" /\ db.gens = 0 /\ db.agents = [a \in Agents |-> "ABSENT"]
      /\ db.subs = {} /\ db.evals = {} /\ db.finds = {}
      /\ db.cands = [s \in Submissions |-> "ABSENT"]
      /\ db.verdict = [s \in Submissions |-> "NONE"]
      /\ db.survivors = [g \in Generations |-> <<>>]
      /\ db.parent = [s \in Submissions |-> None]
    OBVIOUS
<1>3. db \in Database
  <2>1. <<>> \in Seq(Submissions) OBVIOUS
  <2>2. 0 \in 0..MaxGenerations BY RunCreateAssumption
  <2> QED BY <2>1, <2>2 DEF Database, RunStatus, AgentStatus, CandidateStatus, Verdicts
<1>4. Here(db) = {} BY <1>2 DEF Here
<1>5. Shape(db)
  <2>1. \A g \in Generations : ~(g + 1 < 0) BY GenerationsType
  <2>2. ASSUME NEW a \in Submissions PROVE ~(a.gen < 0)
    <3>1. a.gen \in Nat BY SubmissionParts, GenerationsType
    <3> QED BY <3>1
  <2>3. \A g \in Generations : ~(g + 1 < db.gens) BY <1>2, <2>1
  <2>4. \A a \in Submissions : ~(a.gen < db.gens) BY <1>2, <2>2
  <2>5. db.evals = {} /\ db.finds = {} BY <1>2
  <2> HIDE DEF Init
  <2> QED BY <1>4, <2>3, <2>4, <2>5 DEF Shape
<1>6. StatusFits(db) BY <1>2 DEF StatusFits
<1>7. \A w \in Workers : WorkerFits(w) BY DEF WorkerFits, LoopInit
<1>8. \A j \in Jobs : jobs[j].status = "absent" BY DEF NoJob
<1> QED BY <1>1, <1>2, <1>3, <1>5, <1>6, <1>7, <1>8 DEF RunInv

LEMMA ProceedKeeps ==
  ASSUME RunInv, NEW w \in Workers, Proceed(w)
  PROVE  RunInv' /\ RowsMove(Jobs)
<1>1. CASE \/ StartRun(w) \/ MaybeScheduleJudging(w) \/ StartJudging(w) \/ MaybeScheduleFinalize(w)
           \/ AfterOpening(w) \/ FinalizeRun(w) \/ FailRun(w)
           \/ StartResearch(w) \/ StartJudge(w) \/ StartCritic(w)
           \/ StoreSubmission(w) \/ StoreEvaluations(w) \/ StoreFinding(w)
           \/ ProviderAnswers(w) \/ ProviderFails(w)
  <2>1. Continues(w)
      BY <1>1, Zenon, StartRunContinues, MaybeScheduleJudgingContinues, StartJudgingContinues,
         MaybeScheduleFinalizeContinues, AfterOpeningContinues, FinalizeRunContinues, FailRunContinues, StartContinues,
         StoreSubmissionContinues, StoreEvaluationsContinues, StoreFindingContinues,
         ProviderAnswersContinues, ProviderFailsContinues
  <2> QED BY <2>1, ContinuesKeeps
<1>2. CASE ReportFailure(w) BY <1>2, ReportFailureKeeps
<1>3. CASE Begin(w) BY <1>3, BeginKeeps
<1>4. CASE EnqueueNext(w) BY <1>4, EnqueueNextKeeps
<1>5. CASE Settle(w) \/ Fail(w) BY <1>5, SettleKeeps
<1> QED BY <1>1, <1>2, <1>3, <1>4, <1>5, Zenon DEF Proceed, UnitOfWork

LEMMA NextKeepsRun ==
  ASSUME RunInv, [Next]_vars
  PROVE  RunInv' /\ RowsMove(Jobs)
<1>1. CASE CreateRun BY <1>1, CreateRunKeeps
<1>2. CASE EnqueueCreateGeneration BY <1>2, EnqueueCreateGenerationKeeps
<1>3. CASE CrashApi BY <1>3, CrashApiKeeps
<1>4. ASSUME NEW w \in Workers, Proceed(w) PROVE RunInv' /\ RowsMove(Jobs) BY <1>4, ProceedKeeps
<1>5. ASSUME NEW w \in Workers, CrashWorker(w) \/ Restart(w) PROVE RunInv' /\ RowsMove(Jobs)
    BY <1>5, CrashKeeps
<1>6. ASSUME NEW w \in Workers, NEW j \in Jobs, Claim(w, j) PROVE RunInv' /\ RowsMove(Jobs)
    BY <1>6, ClaimKeeps
<1>7. ASSUME NEW j \in Jobs, Lapse(j) PROVE RunInv' /\ RowsMove(Jobs) BY <1>7, LapseKeeps
<1>8. CASE UNCHANGED vars
  <2>1. Loop' /\ RowsMove(Jobs) BY <1>8, IdleKeepsLoop DEF vars, workerVars, RunInv, Loop
  <2>2. UNCHANGED <<db, api, jobs>> /\ \A u \in Workers : Unmoved(u) BY <1>8 DEF vars, Unmoved
  <2> QED BY <2>1, <2>2, LoopStepKeeps
<1> QED BY <1>1, <1>2, <1>3, <1>4, <1>5, <1>6, <1>7, <1>8, Zenon DEF Next

-----------------------------------------------------------------------------
(* Theorems.                                                               *)

LEMMA RunInvariant == Spec => []RunInv
<1>1. RunInv /\ [Next]_vars => RunInv' BY NextKeepsRun
<1> QED BY InitRun, <1>1, PTL DEF Spec

\* The database, the queue and the workers have their types; only existing
\* generations have agents, every judgement is of a stored submission, and only
\* jobs of agents that exist are in the queue.
THEOREM TypeCorrect == Spec => []TypeOK
<1>1. ASSUME RunInv PROVE TypeOK
  <2>1. LoopInv(Jobs, Database, UnitsOfWork) /\ db \in Database /\ Shape(db)
      BY <1>1 DEF RunInv, Loop
  <2>2. ASSUME NEW a \in Agents, a.gen >= db.gens PROVE db.agents[a] = "ABSENT"
    <3>1. a.gen \in Nat /\ db.gens \in Nat BY <2>1, AgentParts, GenerationsType, GensType
    <3>2. ~(a.gen < db.gens) BY <2>2, <3>1
    <3> QED BY <2>1, <3>2 DEF Shape, Here
  <2>3. ASSUME NEW j \in Jobs, jobs[j].status # "absent", j.agent # None
        PROVE  db.agents[j.agent] # "ABSENT"
      BY <1>1, <2>3 DEF RunInv, JobFits, Here
  <2>4. pc \in [Workers -> Places] BY <2>1 DEF LoopInv, LoopTyped, Places, Between
  <2>5. jobs \in [Jobs -> JobRow] /\ job \in [Workers -> Jobs \union {None}] /\ LoopOK(UnitsOfWork)
      BY <2>1 DEF LoopInv, LoopTyped
  <2>6. (\A e \in db.evals : e[1] \in db.subs) /\ (\A f \in db.finds : f.sub \in db.subs)
      BY <2>1 DEF Shape
  <2>7. api \in {"new", "committed", "done", "dead"} BY <1>1 DEF RunInv
  <2> QED BY <2>1, <2>2, <2>3, <2>4, <2>5, <2>6, <2>7 DEF TypeOK
<1> QED BY RunInvariant, <1>1, PTL

\* However jobs are duplicated, judges twinned and workers killed, a generation
\* is left behind, or completes the run, only when its whole population has been
\* evaluated in both judge roles.
THEOREM JudgedFirst == Spec => []JudgedBeforeAdvance
<1>1. ASSUME RunInv PROVE JudgedBeforeAdvance
  <2> SUFFICES ASSUME NEW g \in 0..db.gens - 1, g < Latest(db) \/ db.status = "COMPLETED"
               PROVE  Judged(g)
      BY DEF JudgedBeforeAdvance
  <2>1. db \in Database /\ Shape(db) /\ StatusFits(db) BY <1>1 DEF RunInv
  <2>2. db.gens \in Nat /\ db.gens <= MaxGenerations BY <2>1, GensType
  <2>3. g \in Generations BY <2>2, RunCreateAssumption DEF Generations
  <2>4. g + 1 < db.gens \/ (db.status = "COMPLETED" /\ g + 1 = db.gens)
      BY <2>2 DEF Latest
  <2>5. JudgedIn(db, g)
    <3>1. CASE g + 1 < db.gens BY <2>1, <2>3, <3>1 DEF Shape
    <3>2. CASE db.status = "COMPLETED" /\ g + 1 = db.gens
      <4>1. db.gens = MaxGenerations /\ JudgedIn(db, MaxGenerations - 1)
          BY <2>1, <3>2 DEF StatusFits
      <4>2. MaxGenerations - 1 = g BY <2>2, <3>2, <4>1
      <4> QED BY <4>1, <4>2
    <3> QED BY <2>4, <3>1, <3>2
  <2> QED BY <2>5 DEF Judged, JudgedIn
<1> QED BY RunInvariant, <1>1, PTL

\* The queue as the tournament uses it is a JobLifecycle: a job is delivered at
\* most MaxAttempts times, and one that is done or has failed stays so.
THEOREM QueueKeepsItsPromise == Spec => ImplementsLifecycle
<1>1. Init => Lifecycle!Init BY DEF Init, NoJob, Lifecycle!Init
<1>2. RunInv /\ [Next]_vars => [Lifecycle!Next]_Lifecycle!vars
  <2> SUFFICES ASSUME RunInv, [Next]_vars PROVE Lifecycle!Next
      BY DEF Lifecycle!vars
  <2>1. RowsMove(Jobs) BY NextKeepsRun
  <2>2. ASSUME NEW k \in Jobs
        PROVE Lifecycle!Keep(k) \/ Lifecycle!Submit(k) \/ Lifecycle!Deliver(k)
              \/ Lifecycle!Succeed(k) \/ Lifecycle!GiveUp(k)
    <3>1. RowMoves(jobs[k], jobs'[k]) BY <2>1 DEF RowsMove
    <3> QED BY <3>1 DEF RowMoves, Lifecycle!Keep, Lifecycle!Submit, Lifecycle!Deliver,
                        Lifecycle!Succeed, Lifecycle!GiveUp
  <2> QED BY <2>2 DEF Lifecycle!Next
<1> QED BY <1>1, <1>2, InitRun, NextKeepsRun, RunInvariant, PTL
      DEF Spec, ImplementsLifecycle, Lifecycle!Spec

=============================================================================
