----------------------- MODULE TournamentHandoverProofs -----------------------
(***************************************************************************)
(* Theorems of Tournament about what workers leave to each other, on the   *)
(* invariants of TournamentProofs and TournamentRecordProofs, as long as   *)
(* no process was killed and no live worker has lost a lease: whoever ends *)
(* a job has enqueued what comes next, or left it to a job of the same     *)
(* stage that is not handed on yet (HandInv), so that no run is left       *)
(* without a job before it is over; and a run fails only where failures of *)
(* providers, or a judge that comes too late to open the critic stage,     *)
(* have used up the attempts of a job (CauseInv). A judge that is less     *)
(* late spawns the critics a second time instead, and such a run is left.  *)
(* And where workers are killed but not slow, a run without critics ends   *)
(* once (EndsInv).                                                         *)
(***************************************************************************)
EXTENDS TournamentRecordProofs

-----------------------------------------------------------------------------
(* What comes next, as long as besides no process was killed.                *)

Calm == budget.lapses = 0 /\ budget.crashes = 0
Known(j) == jobs[j].status # "absent"
\* The job is in the queue, or a worker is about to enqueue it.
Promised(j) == Known(j) \/ \E w \in Workers : j \in todo[w]
IsOver == db.status \in Over
Current == Latest(db)

\* The stage of a job is over, as far as v shows.
Enough(v, j) ==
  /\ j.type = "RUN_RESEARCH_AGENT" => ResearchComplete(v, j.gen)
  /\ j.type = "RUN_JUDGE" => JudgingComplete(v, j.gen)
  /\ j.type = "RUN_CRITIC" => AllCompleted(v, FirstCritics(j.gen))
\* The worker leaves what comes next to the jobs it enqueues, or to others.
HandsOn(w) ==
  \/ pc[w] \in {"settle", "enqueue"}
  \/ pc[w] = "schedule" /\ view[w] # None /\ ~Enough(view[w], job[w])
HandedOn(j) == jobs[j].status = "done" \/ \E w \in Workers : job[w] = j /\ HandsOn(w)

\* What must hold once a job of the current generation is handed on.
ResearchGoesOn(g) ==
  (\A a \in Researchers(g) : HandedOn(ResearchJob(a))) => Promised(StartJudgingJob(g))
JudgingGoesOn(g) ==
  (\A a \in JudgesOf(g) \intersect Here(db) : HandedOn(JudgeJob(a))) =>
    IF CriticCount = 0 THEN Promised(FinalizeJob(g)) ELSE FirstCritics(g) \subseteq Here(db)
CriticsGoOn(g) ==
  (\A a \in FirstCritics(g) : HandedOn(CriticJob(a))) => Promised(FinalizeJob(g)) \/ CriticsTwice(db, g)
GoesOnFrom(j) ==
  \/ IsOver
  \/ j.type = "CREATE_GENERATION"
  \/ j.type = "RUN_RESEARCH_AGENT" /\ ResearchGoesOn(j.gen)
  \/ j.type = "START_JUDGING" /\ JudgesFollow(db, j.gen)
  \/ j.type = "RUN_JUDGE" /\ JudgingGoesOn(j.gen)
  \/ j.type = "RUN_CRITIC" /\ CriticsGoOn(j.gen)
GoesOn == \A j \in Jobs : (j.gen = Current /\ HandedOn(j)) => GoesOnFrom(j)

\* Why a job may have failed, or have been left undone.
Excused(j) ==
  \/ IsOver
  \/ j.type = "RUN_RESEARCH_AGENT" /\ Known(StartJudgingJob(Current))
  \/ j = CreateJob /\ db.gens > 0
IsOf(j) == j = CreateJob \/ j.gen = Current
FailedExcused(j) == jobs[j].status = "failed" =>
  Excused(j) \/ \E w \in Workers : job[w] = j /\ pc[w] = "terminal"
AgentExcused(j) == j.agent # None =>
  /\ db.agents[j.agent] = "FAILED" => Excused(j)
  /\ HandedOn(j) => Excused(j) \/ db.agents[j.agent] = "COMPLETED"
ViewExcused(j) == \A w \in Workers :
  (job[w] = j /\ view[w] # None /\ view[w].status \in Over) => Excused(j)
Excuses == \A j \in Jobs : IsOf(j) => FailedExcused(j) /\ AgentExcused(j) /\ ViewExcused(j)

StageKnown ==
  /\ db.status = "JUDGING" => Known(StartJudgingJob(Current))
  /\ \A w \in Workers : (view[w] # None /\ view[w].gens = db.gens /\ view[w].status = "JUDGING") =>
       Known(StartJudgingJob(Current))

\* The worker has opened the critic stage of the job, and is about to hear that
\* it was not even begun.
OpensFor(u, j) ==
  /\ pc[u] = "opened" /\ job[u] # None /\ j.type = "RUN_CRITIC" /\ job[u].gen = j.gen
  /\ view[u] # None => j.agent \in Here(view[u])
Started(j) ==
  \/ Promised(j) \/ \E u \in Workers : OpensFor(u, j)
  \/ j.type = "RUN_CRITIC" /\ (IsOver \/ j.gen # Current)

\* Who exists has a job, or will have one when the critics are heard after the
\* opening; generations are finalized after their judges.
Beginnings ==
  /\ api = "done" => Known(CreateJob)
  /\ HandedOn(CreateJob) => db.gens > 0
  /\ \A j \in Jobs : (j.agent # None /\ j.agent \in Here(db)) => Started(j)
  /\ \A j \in Jobs : (j.agent # None /\ db.agents[j.agent] \notin {"ABSENT", "PENDING"}) => Known(j)
  /\ \A u \in Workers : (pc[u] = "opened" /\ job[u] # None) => job[u].type = "RUN_JUDGE"
  /\ \A g \in Generations : Promised(FinalizeJob(g)) => JudgesAnswered(db, g)

OwnersWork == \A j \in Jobs : jobs[j].status = "running" => job[jobs[j].owner] = j

Handed == Beginnings /\ Excuses /\ OwnersWork /\ (db.gens > 0 => GoesOn /\ StageKnown)
HandInv == Calm => Handed

-----------------------------------------------------------------------------
(* What a step shows of the workers and of the queue, so that nothing is    *)
(* left undone: Carries of each worker, RowsGo of the jobs.                 *)

\* The worker may leave what follows from the job.
HandsWell(j) ==
  /\ j = CreateJob => db'.gens > 0
  /\ (IsOf(j)' /\ j.agent # None) => Excused(j)' \/ db'.agents[j.agent] = "COMPLETED"
  /\ (j.gen = Current)' => GoesOnFrom(j)'

Carries(u) ==
  /\ \A j \in todo[u] : j \in todo'[u] \/ Known(j)'
  /\ \A g \in Generations :
       FinalizeJob(g) \in todo'[u] => FinalizeJob(g) \in todo[u] \/ JudgesAnswered(db, g)
  /\ (job[u] # None /\ pc[u] = "terminal") =>
       \/ pc'[u] = "terminal" /\ job'[u] = job[u]
       \/ IsOver' \/ (IsOf(job[u]) => Excused(job[u]))
  /\ job[u] # None => job'[u] = job[u] \/ jobs'[job[u]].status # "running"
  /\ \A j \in Jobs : (job'[u] = j /\ HandsOn(u)') => HandedOn(j) \/ HandsWell(j)
  /\ (pc'[u] = "opened" /\ job'[u] # None) =>
       job'[u].type = "RUN_JUDGE" \/ (pc[u] = "opened" /\ job'[u] = job[u])
  /\ \A j \in Jobs : (j.agent \in Here(db) /\ OpensFor(u, j)) =>
       OpensFor(u, j)' \/ Promised(j)' \/ IsOver' \/ j.gen # Current

RowsGo == \A j \in Jobs :
  /\ Known(j) => Known(j)'
  /\ jobs'[j].status = "done" => HandedOn(j)
  /\ jobs'[j].status = "failed" =>
       jobs[j].status = "failed" \/ \E w \in Workers : job'[w] = j /\ pc'[w] = "terminal"
  /\ jobs'[j].status = "running" =>
       \/ jobs[j].status = "running" /\ jobs'[j].owner = jobs[j].owner
       \/ job'[jobs'[j].owner] = j

Moves == (\A u \in Workers : Carries(u)) /\ RowsGo /\ (api' = "done" => api = "done" \/ Known(CreateJob)')

\* What it shows of the run: it stays in its generation, or it goes on to the
\* next, or its current generation is judged although the run was over.
StaysOver == IsOver => IsOver'
SameGeneration ==
  /\ db'.gens = db.gens /\ Here(db) \subseteq Here(db')
  /\ \A j \in Jobs : (j.agent # None /\ j.agent \in Here(db') \ Here(db)) =>
       Promised(j)' \/ \E u \in Workers : OpensFor(u, j)'
  /\ db'.status = "JUDGING" => db.status = "JUDGING" \/ Known(StartJudgingJob(Current))
NextGeneration ==
  /\ db'.gens = db.gens + 1 /\ Here(db) \subseteq Here(db') /\ db'.status = "RESEARCHING"
  /\ \A j \in Jobs : (j.agent # None /\ j.agent \in Here(db') \ Here(db)) => Promised(j)'
NothingJudged ==
  /\ db.gens > 0 /\ Known(StartJudgingJob(Current))
  /\ \A a \in Here(db) : a.gen = Current => a.role = "researcher"
  /\ jobs[StartJudgingJob(Current)].status = "running"
  /\ \A u \in Workers : (job[u] = StartJudgingJob(Current)) => ~HandsOn(u) /\ view'[u] = None
Proceeds ==
  \/ SameGeneration /\ (StaysOver \/ NothingJudged)
  \/ NextGeneration

LEMMA UnmovedCarries ==
  ASSUME RunInv, NEW u \in Workers, Unmoved(u)
  PROVE  Carries(u)
<1>1. pc'[u] = pc[u] /\ job'[u] = job[u] /\ view'[u] = view[u] /\ todo'[u] = todo[u]
  BY DEF Unmoved
<1>2. HandsOn(u)' => HandsOn(u)
  BY <1>1 DEF HandsOn
<1>3. \A j : (job'[u] = j /\ HandsOn(u)') => HandedOn(j)
  BY <1>1, <1>2 DEF HandedOn
<1>4. \A j \in Jobs : OpensFor(u, j) => OpensFor(u, j)'
  BY <1>1 DEF OpensFor
<1> QED BY <1>1, <1>3, <1>4 DEF Carries

\* A job that is handed on is in the queue, and a job in the queue has its agent.
LEMMA HandedOnKnown ==
  ASSUME RunInv, NEW j \in Jobs, HandedOn(j)
  PROVE  Known(j)
<1>1. j # None
  BY RunSetting DEF Setting
<1>2. \A w \in Workers : job[w] # None => jobs[job[w]].status # "absent"
  BY DEF RunInv, Loop, LoopInv, HoldsRow
<1> QED BY <1>1, <1>2 DEF HandedOn, Known

LEMMA KnownFits ==
  ASSUME RunInv, NEW j \in Jobs, Known(j)
  PROVE  JobFits(j, db)
BY DEF RunInv, Known

LEMMA PromisedFits ==
  ASSUME RunInv, NEW j \in Jobs, Promised(j)
  PROVE  JobFits(j, db)
BY DEF RunInv, Promised, Known, WorkerFits

LEMMA PromisedStill ==
  ASSUME Moves, NEW j \in Jobs
  PROVE  /\ Known(j) => Known(j)'
         /\ Promised(j) => Promised(j)'
<1>1. Known(j) => Known(j)'
  BY DEF Moves, RowsGo
<1>2. \A u \in Workers : j \in todo[u] => (j \in todo'[u] \/ Known(j)')
  BY DEF Moves, Carries
<1> QED BY <1>1, <1>2 DEF Promised

LEMMA NewlyHandedOn ==
  ASSUME Moves, NEW j \in Jobs, HandedOn(j)'
  PROVE  HandedOn(j) \/ HandsWell(j)
<1>1. CASE jobs'[j].status = "done"
  BY <1>1 DEF Moves, RowsGo
<1>2. ASSUME NEW u \in Workers, job'[u] = j, HandsOn(u)' PROVE HandedOn(j) \/ HandsWell(j)
  BY <1>2 DEF Moves, Carries
<1>3. jobs'[j].status = "done" \/ \E u \in Workers : job'[u] = j /\ HandsOn(u)'
  BY DEF HandedOn
<1> QED BY <1>1, <1>2, <1>3

\* Jobs of the current generation, and of one that is not there yet.
LEMMA CurrentJobs ==
  ASSUME RunInv
  PROVE  /\ Current = db.gens - 1 /\ db.gens \in Nat /\ db.gens <= MaxGenerations
         /\ db.gens > 0 => /\ Current \in Generations /\ StartJudgingJob(Current) \in Jobs
                           /\ FinalizeJob(Current) \in Jobs
                           /\ \A a \in Researchers(Current) : ResearchJob(a) \in Jobs
                           /\ \A a \in JudgesOf(Current) : JudgeJob(a) \in Jobs
                           /\ \A a \in CriticsOf(Current) : CriticJob(a) \in Jobs
         /\ \A j \in Jobs : (Promised(j) /\ j # CreateJob) => j.gen < db.gens
<1>1. db.gens \in Nat /\ db.gens <= MaxGenerations /\ Current = db.gens - 1
  BY GensType DEF RunInv, Current, Latest
<1>2. db.gens > 0 => Current \in Generations
  BY <1>1, RunCreateAssumption DEF Generations
<1>3. \A j \in Jobs : (Promised(j) /\ j # CreateJob) => j.gen < db.gens
  BY PromisedFits DEF JobFits
<1> QED BY <1>1, <1>2, <1>3, JobSets

LEMMA OwnersWorkKept ==
  ASSUME RunInv, RunInv', Moves, OwnersWork
  PROVE  OwnersWork'
<1> SUFFICES ASSUME NEW j \in Jobs, jobs'[j].status = "running" PROVE job'[jobs'[j].owner] = j
  BY DEF OwnersWork
<1>1. CASE job'[jobs'[j].owner] = j
  BY <1>1
<1>2. CASE jobs[j].status = "running" /\ jobs'[j].owner = jobs[j].owner
  <2> DEFINE u == jobs[j].owner
  <2>1. job[u] = j
    BY <1>2 DEF OwnersWork
  <2>2. u \in Workers /\ j # None
    <3>1. jobs \in [Jobs -> JobRow] /\ (jobs[j].status = "running" <=> jobs[j].owner # None)
      BY DEF RunInv, Loop, LoopInv, LoopTyped, LoopOK
    <3> QED BY <3>1, <1>2, RunSetting DEF JobRow, Setting
  <2>3. job[u] # None => job'[u] = job[u] \/ jobs'[job[u]].status # "running"
    BY <2>2 DEF Moves, Carries
  <2> QED BY <1>2, <2>1, <2>2, <2>3
<1> QED BY <1>1, <1>2 DEF Moves, RowsGo

LEMMA BeginningsKept ==
  ASSUME RunInv, RunInv', Results, Around, Moves, Beginnings, Changes, Proceeds,
         \A g \in Generations : JudgesAnswered(db, g) => JudgesAnswered(db', g)
  PROVE  Beginnings'
<1>0. CreateJob \in Jobs /\ db.gens \in Nat /\ db'.gens \in Nat /\ Current = db.gens - 1
  <2>1. db \in Database /\ db' \in Database
    BY DEF RunInv
  <2> QED BY <2>1, GensType, JobSets, GenerationsType DEF Current, Latest
<1>00. db'.gens >= db.gens /\ Here(db) \subseteq Here(db')
  BY <1>0 DEF Proceeds, SameGeneration, NextGeneration
<1>1. api' = "done" => Known(CreateJob)'
  BY <1>0, PromisedStill DEF Moves, Beginnings
<1>2. HandedOn(CreateJob)' => db'.gens > 0
  BY <1>0, <1>00, NewlyHandedOn DEF HandsWell, Beginnings
<1>3. ASSUME NEW j \in Jobs, j.agent # None, j.agent \in Here(db') PROVE Started(j)'
  <2>1. CASE j.agent \notin Here(db)
    BY <1>3, <2>1 DEF Proceeds, SameGeneration, NextGeneration, Started
  <2>2. CASE j.agent \in Here(db)
    <3>1. Started(j)
      BY <1>3, <2>2 DEF Beginnings
    <3>2. CASE Promised(j)
      BY <3>2, PromisedStill DEF Started
    <3>3. j.type = "RUN_CRITIC" => j.agent.gen = j.gen /\ j.agent.role = "critic" /\ j.gen < db.gens /\ j.gen \in Nat
      <4>1. j.agent.gen < db.gens
        BY <2>2 DEF RunInv, Shape
      <4> QED BY <4>1, TypeSays, CriticParts, JobParts, GenerationsType DEF AgentJobs
    <3>4. Current' = Current \/ Current' = db.gens
      BY <1>0 DEF Proceeds, SameGeneration, NextGeneration, Current, Latest
    <3>5. CASE j.type = "RUN_CRITIC" /\ j.gen # Current
      <4>1. j.gen # Current'
        BY <1>0, <3>3, <3>4, <3>5
      <4> QED BY <3>5, <4>1 DEF Started
    <3>6. CASE j.type = "RUN_CRITIC" /\ IsOver
      <4>1. IsOver' \/ j.gen # Current \/ NextGeneration
        BY <2>2, <3>3, <3>6 DEF Proceeds, StaysOver, NothingJudged
      <4>2. NextGeneration => j.gen # Current'
        BY <1>0, <3>3, <3>6 DEF NextGeneration, Current, Latest
      <4> QED BY <3>5, <3>6, <4>1, <4>2 DEF Started
    <3>7. ASSUME NEW u \in Workers, OpensFor(u, j) PROVE Started(j)'
      <4>1. OpensFor(u, j)' \/ Promised(j)' \/ IsOver' \/ j.gen # Current
        BY <2>2, <3>7 DEF Moves, Carries
      <4>2. j.type = "RUN_CRITIC"
        BY <3>7 DEF OpensFor
      <4> QED BY <3>5, <4>1, <4>2 DEF Started
    <3> QED BY <3>1, <3>2, <3>5, <3>6, <3>7 DEF Started
  <2> QED BY <2>1, <2>2
<1>4. ASSUME NEW j \in Jobs, j.agent # None, db'.agents[j.agent] \notin {"ABSENT", "PENDING"} PROVE Known(j)'
  <2>1. j.agent \in Agents
    BY <1>4, TypeSays
  <2>2. CASE db'.agents[j.agent] = db.agents[j.agent]
    BY <1>4, <2>2, PromisedStill DEF Beginnings
  <2>3. CASE \E w \in Workers : OwnDoes(w) /\ job[w].agent = j.agent
    <3>1. PICK w \in Workers : OwnDoes(w) /\ job[w].agent = j.agent
      BY <2>3
    <3>2. job[w] # None /\ job[w] \in Jobs /\ jobs[job[w]].status # "absent"
      <4>1. job[w] # None
        BY <3>1 DEF OwnDoes
      <4> QED BY <4>1 DEF RunInv, Loop, LoopInv, LoopTyped, HoldsRow
    <3>3. job[w] = j
      BY <1>4, <3>1, <3>2, OneJobPerAgent
    <3> QED BY <3>2, <3>3, PromisedStill DEF Known
  <2>4. (\E new : Spawning(db, db', new)) =>
          db'.agents[j.agent] = db.agents[j.agent] \/ db'.agents[j.agent] = "PENDING"
    BY <2>1 DEF Spawning
  <2>5. (\E w \in Workers : OwnDoes(w) /\ job[w].agent # j.agent) => db'.agents[j.agent] = db.agents[j.agent]
    BY <2>1 DEF OwnDoes, Writing, SameRows
  <2> QED BY <1>4, <2>2, <2>3, <2>4, <2>5 DEF Changes
<1>5. ASSUME NEW u \in Workers, pc'[u] = "opened", job'[u] # None PROVE job'[u].type = "RUN_JUDGE"
  BY <1>5 DEF Moves, Carries, Beginnings
<1>6. ASSUME NEW g \in Generations, Promised(FinalizeJob(g))' PROVE JudgesAnswered(db', g)
  <2> DEFINE j == FinalizeJob(g)
  <2>1. j \in Jobs /\ j # CreateJob
    BY JobSets DEF FinalizeJob, CreateJob, Job
  <2>2. CASE Known(j)'
    <3>1. Promised(j)
      BY <2>1, <2>2 DEF Around, Promised, Known
    <3> QED BY <3>1 DEF Beginnings
  <2>3. ASSUME NEW u \in Workers, j \in todo'[u] PROVE JudgesAnswered(db', g)
    <3>1. j \in todo[u] \/ JudgesAnswered(db, g)
      BY <2>3 DEF Moves, Carries
    <3> QED BY <3>1 DEF Beginnings, Promised
  <2> QED BY <1>6, <2>2, <2>3 DEF Promised
<1> QED BY <1>1, <1>2, <1>3, <1>4, <1>5, <1>6 DEF Beginnings

LEMMA ExcusedStill ==
  ASSUME RunInv, Moves, SameGeneration, StaysOver, NEW j \in Jobs, IsOf(j), Excused(j)
  PROVE  Excused(j)'
<1>1. CASE IsOver
  BY <1>1 DEF StaysOver, Excused
<1>2. CASE j.type = "RUN_RESEARCH_AGENT" /\ Known(StartJudgingJob(Current))
  <2>1. j.gen \in Generations /\ j # CreateJob
    BY <1>2, JobParts DEF CreateJob, Job
  <2>2. StartJudgingJob(Current) \in Jobs
    BY <2>1, JobSets DEF IsOf
  <2>3. Current' = Current
    BY DEF Current, Latest, SameGeneration
  <2> QED BY <1>2, <2>2, <2>3, PromisedStill DEF Excused
<1>3. CASE j = CreateJob /\ db.gens > 0
  BY <1>3 DEF Excused, SameGeneration
<1> QED BY <1>1, <1>2, <1>3 DEF Excused

-----------------------------------------------------------------------------
(* What goes on as it should keeps that nothing is left undone.             *)

\* What every lemma of this part starts from.
Setup ==
  /\ RunInv /\ RunInv' /\ budget.lapses = 0 /\ Results /\ Handed
  /\ Around /\ Moves /\ Changes

LEMMA SetupStands ==
  ASSUME Setup
  PROVE  /\ db \in Database /\ db' \in Database /\ StandsBy(db, db')
         /\ \A a \in Agents : (db'.agents[a] = "FAILED" /\ db.agents[a] # "FAILED") => db'.status = "FAILED"
<1>1. db \in Database /\ db' \in Database
  BY DEF Setup, RunInv
<1> QED BY <1>1, ChangesStand DEF Setup

LEMMA ExcusesKeptOver ==
  ASSUME Setup, SameGeneration, StaysOver
  PROVE  Excuses'
<1> SUFFICES ASSUME NEW j \in Jobs, IsOf(j)'
             PROVE  FailedExcused(j)' /\ AgentExcused(j)' /\ ViewExcused(j)'
  BY DEF Excuses
<1>1. RunInv /\ Moves /\ Around /\ Handed
  BY DEF Setup
<1>2. IsOf(j)
  BY DEF IsOf, SameGeneration, Current, Latest
<1>3. FailedExcused(j) /\ AgentExcused(j) /\ ViewExcused(j)
  BY <1>1, <1>2 DEF Handed, Excuses
<1>4. Excused(j) => Excused(j)'
  BY <1>1, <1>2, ExcusedStill
<1>5. IsOver' => Excused(j)'
  BY DEF Excused
<1>6. FailedExcused(j)'
  <2> SUFFICES ASSUME jobs'[j].status = "failed"
               PROVE  Excused(j)' \/ \E w \in Workers : job'[w] = j /\ pc'[w] = "terminal"
    BY DEF FailedExcused
  <2>1. CASE \E w \in Workers : job'[w] = j /\ pc'[w] = "terminal"
    BY <2>1
  <2>2. CASE Excused(j)
    BY <2>2, <1>4
  <2>3. ASSUME NEW w \in Workers, job[w] = j, pc[w] = "terminal"
        PROVE  Excused(j)' \/ \E u \in Workers : job'[u] = j /\ pc'[u] = "terminal"
    <3>1. j # None
      BY RunSetting DEF Setting
    <3> QED BY <2>3, <3>1, <1>1, <1>2, <1>4, <1>5 DEF Moves, Carries
  <2>4. jobs[j].status = "failed" \/ \E w \in Workers : job'[w] = j /\ pc'[w] = "terminal"
    BY <1>1 DEF Moves, RowsGo
  <2> QED BY <2>1, <2>2, <2>3, <2>4, <1>3 DEF FailedExcused
<1>7. AgentExcused(j)'
  <2> SUFFICES ASSUME j.agent # None
               PROVE  /\ db'.agents[j.agent] = "FAILED" => Excused(j)'
                      /\ HandedOn(j)' => Excused(j)' \/ db'.agents[j.agent] = "COMPLETED"
    BY DEF AgentExcused
  <2>1. j.agent \in Agents
    BY TypeSays
  <2>2. db'.agents[j.agent] = "FAILED" => Excused(j)'
    <3>1. CASE db.agents[j.agent] = "FAILED"
      BY <3>1, <1>3, <1>4 DEF AgentExcused
    <3>2. CASE db.agents[j.agent] # "FAILED"
      BY <3>2, <2>1, <1>5, SetupStands DEF IsOver, Over
    <3> QED BY <3>1, <3>2
  <2>3. ASSUME HandedOn(j)' PROVE Excused(j)' \/ db'.agents[j.agent] = "COMPLETED"
    <3>1. CASE HandedOn(j)
      <4>1. Excused(j) \/ db.agents[j.agent] = "COMPLETED"
        BY <3>1, <1>3 DEF AgentExcused
      <4>2. db.agents[j.agent] = "COMPLETED" => db'.agents[j.agent] \in {"COMPLETED", "FAILED"}
        BY <2>1, SetupStands DEF StandsBy, AgentsStand
      <4> QED BY <4>1, <4>2, <2>2, <1>4
    <3>2. CASE HandsWell(j)
      BY <3>2 DEF HandsWell
    <3> QED BY <2>3, <3>1, <3>2, <1>1, NewlyHandedOn
  <2> QED BY <2>2, <2>3
<1>8. ViewExcused(j)'
  <2> SUFFICES ASSUME NEW w \in Workers, job'[w] = j, view'[w] # None, view'[w].status \in Over
               PROVE  Excused(j)'
    BY DEF ViewExcused
  <2>1. job[w] = j /\ (view'[w] = view[w] \/ (view'[w] = db /\ db' = db))
    BY <1>1 DEF Around
  <2>2. CASE view'[w] = view[w]
    BY <2>1, <2>2, <1>3, <1>4 DEF ViewExcused
  <2>3. CASE view'[w] = db /\ db' = db
    BY <2>3, <1>5 DEF IsOver
  <2> QED BY <2>1, <2>2, <2>3
<1> QED BY <1>6, <1>7, <1>8

\* A job that is not in the queue, of an agent that has no row, excuses itself.
LEMMA AbsentExcuses ==
  ASSUME Setup, NEW j \in Jobs, IsOf(j)', ~Known(j), j.agent # None => j.agent \notin Here(db)
  PROVE  FailedExcused(j)' /\ AgentExcused(j)' /\ ViewExcused(j)' /\ ~HandedOn(j)
<1>1. RunInv /\ Moves /\ Around
  BY DEF Setup
<1>2. ~HandedOn(j)
  BY <1>1, HandedOnKnown
<1>3. FailedExcused(j)'
  BY <1>1 DEF FailedExcused, Moves, RowsGo, Known
<1>4. AgentExcused(j)'
  <2> SUFFICES ASSUME j.agent # None
               PROVE  /\ db'.agents[j.agent] = "FAILED" => Excused(j)'
                      /\ HandedOn(j)' => Excused(j)' \/ db'.agents[j.agent] = "COMPLETED"
    BY DEF AgentExcused
  <2>1. j.agent \in Agents /\ db.agents[j.agent] # "FAILED"
    <3>1. j.agent \in Agents
      BY TypeSays
    <3> QED BY <3>1 DEF Here
  <2>2. db'.agents[j.agent] = "FAILED" => Excused(j)'
    <3>1. db'.agents[j.agent] = "FAILED" => db'.status = "FAILED"
      BY <2>1, SetupStands
    <3>2. db'.status = "FAILED" => Excused(j)'
      BY DEF Excused, IsOver, Over
    <3> QED BY <3>1, <3>2
  <2>3. HandedOn(j)' => Excused(j)' \/ db'.agents[j.agent] = "COMPLETED"
    BY <1>1, <1>2, NewlyHandedOn DEF HandsWell
  <2> QED BY <2>2, <2>3
<1>5. ViewExcused(j)'
  <2> SUFFICES ASSUME NEW w \in Workers, job'[w] = j, view'[w] # None
               PROVE  FALSE
    BY DEF ViewExcused
  <2>1. job[w] = j
    BY <1>1 DEF Around
  <2>2. j # None
    BY RunSetting DEF Setting
  <2>3. jobs[job[w]].status # "absent"
    BY <1>1, <2>1, <2>2 DEF RunInv, Loop, LoopInv, HoldsRow
  <2> QED BY <2>1, <2>3 DEF Known
<1> QED BY <1>2, <1>3, <1>4, <1>5

\* Where nothing of the current generation is judged, no judge, critic or
\* finalization has a job.
LEMMA NothingFollows ==
  ASSUME Setup, NothingJudged, NEW j \in Jobs, j.gen = Current,
         j.type \in {"RUN_JUDGE", "RUN_CRITIC", "FINALIZE_RUN"}
  PROVE  ~Promised(j) /\ (j.agent # None => j.agent \notin Here(db))
<1>1. RunInv /\ Beginnings
  BY DEF Setup, Handed
<1>2. CASE j.type \in {"RUN_JUDGE", "RUN_CRITIC"}
  <2>1. j.agent \in Agents /\ j.agent.gen = Current
    BY <1>2, TypeSays DEF AgentJobs
  <2>2. j.agent.role # "researcher"
    BY <1>2, TypeSays, JudgeParts, CriticParts
  <2>3. j.agent \notin Here(db)
    BY <2>1, <2>2 DEF NothingJudged
  <2>4. j.agent # None
    BY <2>1, NoneAssumption
  <2> QED BY <1>1, <2>3, <2>4, PromisedFits DEF JobFits
<1>3. CASE j.type = "FINALIZE_RUN"
  <2>1. j = FinalizeJob(Current) /\ j.agent = None /\ Current \in Generations
    BY <1>3, TypeSays, JobParts DEF FinalizeJob, Job
  <2>2. ASSUME Promised(j) PROVE FALSE
    <3>1. JudgesFollow(db, Current)
      BY <1>1, <2>1, <2>2 DEF Beginnings, JudgesAnswered
    <3>2. PICK c \in Copies : Agent(Current, "judge", 1, c) \in Here(db)
      BY <3>1 DEF JudgesFollow, JudgeCount
    <3>3. Agent(Current, "judge", 1, c).gen = Current /\ Agent(Current, "judge", 1, c).role = "judge"
      BY DEF Agent
    <3> QED BY <3>2, <3>3 DEF NothingJudged
  <2> QED BY <2>1, <2>2
<1> QED BY <1>2, <1>3

LEMMA JobKinds ==
  ASSUME NEW j \in Jobs
  PROVE  \/ j = CreateJob /\ j.type = "CREATE_GENERATION" /\ j.agent = None
         \/ j.type = "RUN_RESEARCH_AGENT" /\ j # CreateJob
         \/ j.type = "START_JUDGING" /\ j = StartJudgingJob(j.gen) /\ j.agent = None /\ j # CreateJob
         \/ j.type \in {"RUN_JUDGE", "RUN_CRITIC", "FINALIZE_RUN"} /\ j # CreateJob
BY TypeSays DEF CreateJob, StartJudgingJob, Job, AgentJobs

LEMMA ExcusesKeptNothingJudged ==
  ASSUME Setup, SameGeneration, NothingJudged
  PROVE  Excuses'
<1> SUFFICES ASSUME NEW j \in Jobs, IsOf(j)'
             PROVE  FailedExcused(j)' /\ AgentExcused(j)' /\ ViewExcused(j)'
  BY DEF Excuses
<1>0. RunInv /\ Moves /\ Around /\ db.gens > 0
  BY DEF Setup, NothingJudged
<1>1. IsOf(j) /\ Current' = Current /\ db'.gens > 0
  BY <1>0 DEF IsOf, SameGeneration, Current, Latest
<1>2. StartJudgingJob(Current) \in Jobs
  BY <1>0, CurrentJobs
<1>3. Known(StartJudgingJob(Current))'
  <2>1. PICK s \in Jobs : s = StartJudgingJob(Current)
    BY <1>2
  <2>2. Known(s)'
    BY <1>0, <2>1, PromisedStill DEF NothingJudged
  <2>3. StartJudgingJob(Current)' = s
    BY <1>1, <2>1 DEF StartJudgingJob
  <2> QED BY <2>2, <2>3 DEF Known
<1>4. ASSUME Excused(j)' PROVE FailedExcused(j)' /\ AgentExcused(j)' /\ ViewExcused(j)'
  BY <1>4 DEF FailedExcused, AgentExcused, ViewExcused
<1>5. CASE j = CreateJob
  BY <1>1, <1>4, <1>5 DEF Excused
<1>6. CASE j.type = "RUN_RESEARCH_AGENT"
  BY <1>1, <1>3, <1>4, <1>6 DEF Excused
<1>7. CASE j.type = "START_JUDGING" /\ j = StartJudgingJob(j.gen) /\ j.agent = None /\ j # CreateJob
  <2>1. j = StartJudgingJob(Current)
    BY <1>1, <1>7 DEF IsOf
  <2>2. jobs[j].status = "running"
    BY <2>1 DEF NothingJudged
  <2>3. FailedExcused(j)'
    BY <1>0, <2>2 DEF FailedExcused, Moves, RowsGo
  <2>4. AgentExcused(j)'
    BY <1>7 DEF AgentExcused
  <2>5. ViewExcused(j)'
    <3> SUFFICES ASSUME NEW w \in Workers, job'[w] = j, view'[w] # None
                 PROVE  FALSE
      BY DEF ViewExcused
    <3>1. job[w] = j
      BY <1>0 DEF Around
    <3> QED BY <2>1, <3>1 DEF NothingJudged
  <2> QED BY <2>3, <2>4, <2>5
<1>8. CASE j.type \in {"RUN_JUDGE", "RUN_CRITIC", "FINALIZE_RUN"} /\ j # CreateJob
  <2>1. j.gen = Current
    BY <1>1, <1>8 DEF IsOf
  <2>2. ~Known(j) /\ (j.agent # None => j.agent \notin Here(db))
    BY <1>8, <2>1, NothingFollows DEF Promised
  <2> QED BY <2>2, AbsentExcuses
<1> QED BY <1>5, <1>6, <1>7, <1>8, JobKinds

LEMMA ExcusesKeptNext ==
  ASSUME Setup, NextGeneration
  PROVE  Excuses'
<1> SUFFICES ASSUME NEW j \in Jobs, IsOf(j)'
             PROVE  FailedExcused(j)' /\ AgentExcused(j)' /\ ViewExcused(j)'
  BY DEF Excuses
<1>0. RunInv /\ Moves /\ Around /\ db.gens \in Nat /\ db'.gens = db.gens + 1
  BY CurrentJobs DEF Setup, NextGeneration
<1>1. CASE j = CreateJob
  <2>1. Excused(j)'
    BY <1>0, <1>1 DEF Excused
  <2> QED BY <2>1 DEF FailedExcused, AgentExcused, ViewExcused
<1>2. CASE j # CreateJob
  <2>1. j.gen = db.gens
    BY <1>0, <1>2 DEF IsOf, Current, Latest
  <2>2. ~Known(j)
    BY <1>0, <1>2, <2>1, CurrentJobs DEF Promised
  <2>3. j.agent # None => j.agent \notin Here(db)
    <3>1. j.agent # None => j.agent.gen = j.gen
      BY TypeSays, <1>2, JobKinds DEF FinalizeJob, Job, AgentJobs
    <3>2. \A a \in Here(db) : a.gen < db.gens
      BY <1>0 DEF RunInv, Shape
    <3> QED BY <2>1, <3>1, <3>2, <1>0
  <2> QED BY <2>2, <2>3, AbsentExcuses
<1> QED BY <1>1, <1>2

LEMMA GoesOnKeptSame ==
  ASSUME Setup, SameGeneration, StaysOver, db.gens > 0
  PROVE  GoesOn'
<1>1. RunInv /\ Moves /\ GoesOn
  BY DEF Setup, Handed
<1>2. PICK g \in Generations : g = Current
  BY <1>1, CurrentJobs
<1>3. Current' = g
  BY <1>2 DEF SameGeneration, Current, Latest
<1>4. /\ \A a \in Researchers(g) : ResearchJob(a) \in Jobs /\ ResearchJob(a).gen = g
                                   /\ ResearchJob(a).type = "RUN_RESEARCH_AGENT"
      /\ \A a \in JudgesOf(g) : JudgeJob(a) \in Jobs /\ JudgeJob(a).gen = g
                                /\ JudgeJob(a).type = "RUN_JUDGE"
      /\ \A a \in CriticsOf(g) : CriticJob(a) \in Jobs /\ CriticJob(a).gen = g
                                 /\ CriticJob(a).type = "RUN_CRITIC"
  BY JobSets, ResearcherParts, JudgeParts, CriticParts DEF ResearchJob, JudgeJob, CriticJob, Job
<1>5. StartJudgingJob(g) \in Jobs /\ FinalizeJob(g) \in Jobs
  BY JobSets
<1>6. ASSUME NEW k \in Jobs, k.gen = g, HandedOn(k)' PROVE HandedOn(k) \/ GoesOnFrom(k)'
  BY <1>1, <1>3, <1>6, NewlyHandedOn DEF HandsWell
<1>7. Promised(StartJudgingJob(g)) => Promised(StartJudgingJob(g))'
  BY <1>1, <1>5, PromisedStill
<1>8. Promised(FinalizeJob(g)) => Promised(FinalizeJob(g))'
  BY <1>1, <1>5, PromisedStill
<1>9. IsOver => IsOver'
  BY DEF StaysOver
<1>10. ResearchGoesOn(g) => IsOver' \/ ResearchGoesOn(g)'
  <2> SUFFICES ASSUME ResearchGoesOn(g), ~IsOver', \A a \in Researchers(g) : HandedOn(ResearchJob(a))'
               PROVE  Promised(StartJudgingJob(g))'
    BY DEF ResearchGoesOn
  <2>1. CASE \A a \in Researchers(g) : HandedOn(ResearchJob(a))
    BY <2>1, <1>7 DEF ResearchGoesOn
  <2>2. ASSUME NEW a \in Researchers(g), ~HandedOn(ResearchJob(a)) PROVE Promised(StartJudgingJob(g))'
    <3>1. GoesOnFrom(ResearchJob(a))'
      BY <1>4, <1>6, <2>2
    <3>2. ResearchGoesOn(g)'
      BY <3>1, <1>4 DEF GoesOnFrom
    <3> QED BY <3>2 DEF ResearchGoesOn
  <2> QED BY <2>1, <2>2
<1>11. JudgingGoesOn(g) => IsOver' \/ JudgingGoesOn(g)'
  <2> SUFFICES ASSUME JudgingGoesOn(g), ~IsOver',
                      \A a \in JudgesOf(g) \intersect Here(db') : HandedOn(JudgeJob(a))'
               PROVE  IF CriticCount = 0 THEN Promised(FinalizeJob(g))' ELSE FirstCritics(g) \subseteq Here(db')
    BY DEF JudgingGoesOn
  <2>0. Here(db) \subseteq Here(db')
    BY DEF SameGeneration
  <2>1. CASE \A a \in JudgesOf(g) \intersect Here(db) : HandedOn(JudgeJob(a))
    BY <2>0, <2>1, <1>8 DEF JudgingGoesOn
  <2>2. ASSUME NEW a \in JudgesOf(g) \intersect Here(db), ~HandedOn(JudgeJob(a))
        PROVE  IF CriticCount = 0 THEN Promised(FinalizeJob(g))' ELSE FirstCritics(g) \subseteq Here(db')
    <3>1. GoesOnFrom(JudgeJob(a))'
      BY <1>4, <1>6, <2>0, <2>2
    <3>2. JudgingGoesOn(g)'
      BY <3>1, <1>4 DEF GoesOnFrom
    <3> QED BY <3>2 DEF JudgingGoesOn
  <2> QED BY <2>1, <2>2
<1>12. CriticsGoOn(g) => IsOver' \/ CriticsGoOn(g)'
  <2> SUFFICES ASSUME CriticsGoOn(g), ~IsOver', \A a \in FirstCritics(g) : HandedOn(CriticJob(a))'
               PROVE  Promised(FinalizeJob(g))' \/ CriticsTwice(db', g)
    BY DEF CriticsGoOn
  <2>1. CASE \A a \in FirstCritics(g) : HandedOn(CriticJob(a))
    <3>1. CriticsTwice(db, g) => CriticsTwice(db', g)
      BY AgentSets DEF SameGeneration, CriticsTwice, Present, Here
    <3> QED BY <2>1, <3>1, <1>8 DEF CriticsGoOn
  <2>2. ASSUME NEW a \in FirstCritics(g), ~HandedOn(CriticJob(a))
        PROVE  Promised(FinalizeJob(g))' \/ CriticsTwice(db', g)
    <3>0. a \in CriticsOf(g)
      BY FirstCriticParts
    <3>1. GoesOnFrom(CriticJob(a))'
      BY <1>4, <1>6, <2>2, <3>0
    <3>2. CriticsGoOn(g)'
      BY <3>0, <3>1, <1>4 DEF GoesOnFrom
    <3> QED BY <3>2 DEF CriticsGoOn
  <2> QED BY <2>1, <2>2
<1>13. JudgesFollow(db, g) => JudgesFollow(db', g)
  BY DEF JudgesFollow, SameGeneration
<1> SUFFICES ASSUME NEW j \in Jobs, j.gen = g, HandedOn(j)' PROVE GoesOnFrom(j)'
  BY <1>3 DEF GoesOn
<1>14. CASE HandedOn(j)
  <2>1. GoesOnFrom(j)
    BY <1>1, <1>2, <1>14 DEF GoesOn
  <2> QED BY <2>1, <1>9, <1>10, <1>11, <1>12, <1>13 DEF GoesOnFrom
<1> QED BY <1>6, <1>14

LEMMA GoesOnKeptNothingJudged ==
  ASSUME Setup, SameGeneration, NothingJudged
  PROVE  GoesOn'
<1>1. RunInv /\ Moves /\ db.gens > 0
  BY DEF Setup, NothingJudged
<1>2. PICK g \in Generations : g = Current
  BY <1>1, CurrentJobs
<1>3. Current' = g
  BY <1>2 DEF SameGeneration, Current, Latest
<1>4. PICK s \in Jobs : s = StartJudgingJob(g)
  BY JobSets
<1>5. Known(s) /\ Known(s)' /\ ~HandedOn(s)
  <2>1. Known(s) /\ jobs[s].status = "running" /\ \A u \in Workers : job[u] = s => ~HandsOn(u)
    BY <1>2, <1>4 DEF NothingJudged
  <2> QED BY <1>1, <2>1, PromisedStill DEF HandedOn
<1> SUFFICES ASSUME NEW j \in Jobs, j.gen = g, HandedOn(j)' PROVE GoesOnFrom(j)'
  BY <1>3 DEF GoesOn
<1>6. HandedOn(j) \/ GoesOnFrom(j)'
  BY <1>1, <1>3, NewlyHandedOn DEF HandsWell
<1>7. CASE j.type = "CREATE_GENERATION"
  BY <1>7 DEF GoesOnFrom
<1>8. CASE j.type = "RUN_RESEARCH_AGENT"
  <2>1. Promised(s)'
    BY <1>5 DEF Promised
  <2>2. ResearchGoesOn(g)'
    BY <1>4, <2>1 DEF ResearchGoesOn
  <2> QED BY <1>8, <2>2 DEF GoesOnFrom
<1>9. CASE j.type = "START_JUDGING" /\ j = StartJudgingJob(j.gen)
  BY <1>4, <1>5, <1>6, <1>9
<1>10. CASE j.type \in {"RUN_JUDGE", "RUN_CRITIC", "FINALIZE_RUN"}
  <2>1. ~Known(j)
    BY <1>2, <1>10, NothingFollows DEF Promised
  <2> QED BY <1>1, <1>6, <2>1, HandedOnKnown
<1> QED BY <1>7, <1>8, <1>9, <1>10, JobKinds

LEMMA GoesOnKeptNext ==
  ASSUME Setup, NextGeneration
  PROVE  GoesOn'
<1>0. RunInv /\ Moves /\ db.gens \in Nat /\ db'.gens = db.gens + 1
  BY CurrentJobs DEF Setup, NextGeneration
<1>1. Current' = db.gens
  BY <1>0 DEF Current, Latest
<1> SUFFICES ASSUME NEW j \in Jobs, j.gen = db.gens, HandedOn(j)' PROVE GoesOnFrom(j)'
  BY <1>1 DEF GoesOn
<1>2. CASE j = CreateJob
  BY <1>2 DEF GoesOnFrom, CreateJob, Job
<1>3. CASE j # CreateJob
  <2>1. ~Known(j)
    BY <1>0, <1>3, CurrentJobs DEF Promised
  <2>2. HandsWell(j)
    BY <1>0, <2>1, NewlyHandedOn, HandedOnKnown
  <2> QED BY <1>1, <2>2 DEF HandsWell
<1> QED BY <1>2, <1>3

LEMMA StageKnownKept ==
  ASSUME Setup, SameGeneration \/ NextGeneration, db'.gens > 0
  PROVE  StageKnown'
<1>0. RunInv /\ Moves /\ Around /\ Handed /\ db.gens \in Nat
  BY CurrentJobs DEF Setup
<1>1. CASE NextGeneration
  <2>1. db'.status # "JUDGING" /\ db'.gens = db.gens + 1
    BY <1>1 DEF NextGeneration
  <2>2. ASSUME NEW w \in Workers, view'[w] # None, view'[w].gens = db'.gens PROVE FALSE
    <3>1. view'[w] = view[w]
      BY <1>0, <2>1, <2>2 DEF Around
    <3>2. view[w] \in Database /\ view[w].gens <= db.gens
      <4>1. WorkerFits(w) /\ view[w] \in Database
        BY <1>0, <2>2, <3>1 DEF RunInv, Loop, LoopInv, LoopTyped
      <4> QED BY <2>2, <3>1, <4>1 DEF WorkerFits, Behind
    <3>3. view[w].gens \in Nat
      BY <3>2, GensType
    <3> QED BY <2>1, <2>2, <3>1, <3>2, <3>3, <1>0
  <2> QED BY <2>1, <2>2 DEF StageKnown
<1>2. CASE SameGeneration
  <2>1. db'.gens = db.gens /\ StageKnown
    BY <1>0, <1>2 DEF SameGeneration, Handed
  <2>2. PICK g \in Generations : g = Current
    BY <1>0, <2>1, CurrentJobs
  <2>3. Current' = g
    BY <2>1, <2>2 DEF Current, Latest
  <2>4. PICK s \in Jobs : s = StartJudgingJob(g)
    BY JobSets
  <2>5. Known(s) => Known(s)'
    BY <1>0, PromisedStill
  <2>6. db'.status = "JUDGING" => Known(s)
    BY <2>1, <2>2, <2>4, <1>2 DEF SameGeneration, StageKnown
  <2>7. ASSUME NEW w \in Workers, view'[w] # None, view'[w].gens = db'.gens, view'[w].status = "JUDGING"
        PROVE  Known(s)
    <3>1. view'[w] = view[w] \/ view'[w] = db
      BY <1>0, <2>7 DEF Around
    <3> QED BY <2>1, <2>2, <2>4, <2>7, <3>1 DEF StageKnown
  <2>8. StartJudgingJob(Current)' = s
    BY <2>3, <2>4 DEF StartJudgingJob
  <2>9. Known(StartJudgingJob(Current))' <=> Known(s)'
    BY <2>8 DEF Known
  <2> QED BY <2>5, <2>6, <2>7, <2>9 DEF StageKnown
<1> QED BY <1>1, <1>2

\* A step that goes on as it should leaves nothing undone.
LEMMA HandedKept ==
  ASSUME Setup, Proceeds
  PROVE  Handed'
<1>0. RunInv /\ RunInv' /\ Results /\ Moves /\ Around /\ Handed
  BY DEF Setup
<1>3. \A g \in Generations : JudgesAnswered(db, g) => JudgesAnswered(db', g)
  BY SetupStands DEF StandsBy
<1>4. Beginnings'
  <2>1. Beginnings /\ Changes
    BY <1>0 DEF Handed, Setup
  <2> QED BY <1>0, <1>3, <2>1, BeginningsKept
<1>5. OwnersWork'
  BY <1>0, OwnersWorkKept DEF Handed
<1>6. Excuses'
  BY ExcusesKeptOver, ExcusesKeptNothingJudged, ExcusesKeptNext DEF Proceeds
<1>7. db'.gens > 0 => GoesOn'
  <2>1. SameGeneration => db'.gens = db.gens
    BY DEF SameGeneration
  <2> QED BY <2>1, GoesOnKeptSame, GoesOnKeptNothingJudged, GoesOnKeptNext DEF Proceeds
<1>8. db'.gens > 0 => StageKnown'
  BY StageKnownKept DEF Proceeds
<1> QED BY <1>4, <1>5, <1>6, <1>7, <1>8 DEF Handed

-----------------------------------------------------------------------------
(* Every step goes on as it should, as long as no live worker loses a lease *)
(* and no process is killed.                                                *)

Before == RunInv /\ Knows /\ RecordInv /\ Results /\ Handed /\ Calm
Onward == Moves /\ Proceeds

\* The run stays where it is, or is over.
LEMMA StaysProceeds ==
  ASSUME db'.gens = db.gens, Here(db') = Here(db), db'.status \in {db.status} \union Over
  PROVE  Proceeds
<1>1. SameGeneration
  BY DEF SameGeneration, Over
<1>2. StaysOver
  BY DEF StaysOver, IsOver
<1> QED BY <1>1, <1>2 DEF Proceeds

\* Of a worker with an open unit of work, or at a provider.
LEMMA InsideHolds ==
  ASSUME Before, NEW w \in Workers, Inside(w)
  PROVE  /\ job[w] # None /\ job[w] \in Jobs /\ job[w].gen \in Generations /\ todo[w] = {}
         /\ pc[w] # "terminal" /\ Owns(w) /\ Known(job[w]) /\ w \in DOMAIN pc
         /\ db \in Database /\ jobs[job[w]].status = "running" /\ JobFits(job[w], db)
<1>1. job[w] # None /\ job[w] \in Jobs /\ job[w].gen \in Generations /\ JobFits(job[w], db)
  BY InsideFits DEF Before
<1>2. todo[w] = {} /\ pc[w] # "terminal"
  BY DEF Before, RunInv, Loop, LoopInv, LoopOK, Inside
<1>3. Owns(w)
  BY <1>1, <1>2 DEF Before, Calm, RunInv, Loop, LoopInv, Exclusive
<1>4. w \in DOMAIN pc /\ db \in Database
  BY DEF Before, RunInv, Loop, LoopInv, LoopTyped
<1> QED BY <1>1, <1>2, <1>3, <1>4 DEF Owns, Known

\* The queue is left alone.
LEMMA JobsAlike ==
  ASSUME UNCHANGED jobs
  PROVE  RowsGo
BY DEF RowsGo, HandedOn, Known

\* The worker's unit of work ends: what remains to be shown.
LEMMA GotoMovesAny ==
  ASSUME Before, NEW w \in Workers, Inside(w), NEW where, NEW keys, Goto(w, where, keys),
         UNCHANGED <<jobs, job, api>>,
         where = "opened" => job[w].type = "RUN_JUDGE",
         \A j \in Jobs : (j.agent \in Here(db) /\ OpensFor(w, j)) =>
           j \in keys \/ Known(j) \/ IsOver' \/ j.gen # Current,
         \A g \in Generations : FinalizeJob(g) \in keys => JudgesAnswered(db, g),
         \A j \in Jobs : (job[w] = j /\ where \in {"settle", "enqueue"}) => HandedOn(j) \/ HandsWell(j)
  PROVE  Moves
<1>1. todo[w] = {} /\ pc[w] # "terminal"
  BY InsideHolds
<1>2. /\ pc \in [Workers -> UnitsOfWork \union Between] /\ todo \in [Workers -> SUBSET Jobs]
      /\ view \in [Workers -> Database \union {None}]
  BY DEF Before, RunInv, Loop, LoopInv, LoopTyped
<1>3. pc'[w] = where /\ todo'[w] = keys /\ view'[w] = None
  BY <1>2 DEF Goto
<1>4. ASSUME NEW u \in Workers, u # w PROVE Carries(u)
  <2>1. Unmoved(u)
    BY <1>2, <1>4 DEF Goto, Unmoved
  <2> QED BY <2>1, UnmovedCarries DEF Before
<1>5. Carries(w)
  <2>1. ASSUME NEW j \in Jobs, job'[w] = j, HandsOn(w)' PROVE HandedOn(j) \/ HandsWell(j)
    <3>1. where \in {"settle", "enqueue"}
      BY <1>3, <2>1 DEF HandsOn
    <3>2. job[w] = j
      BY <2>1
    <3> QED BY <3>1, <3>2
  <2>2. ASSUME NEW j \in Jobs, j.agent \in Here(db), OpensFor(w, j)
        PROVE  Promised(j)' \/ IsOver' \/ j.gen # Current
    BY <1>3, <2>2 DEF Promised, Known
  <2>3. (pc'[w] = "opened" /\ job'[w] # None) => job'[w].type = "RUN_JUDGE"
    BY <1>3
  <2> QED BY <1>1, <1>3, <2>1, <2>2, <2>3 DEF Carries
<1> QED BY <1>4, <1>5, JobsAlike DEF Moves

LEMMA GotoMoves ==
  ASSUME Before, NEW w \in Workers, Inside(w), pc[w] # "opened", NEW where, NEW keys, Goto(w, where, keys),
         UNCHANGED <<jobs, job, api>>, where # "opened",
         \A g \in Generations : FinalizeJob(g) \in keys => JudgesAnswered(db, g),
         \A j \in Jobs : (job[w] = j /\ where \in {"settle", "enqueue"}) => HandedOn(j) \/ HandsWell(j)
  PROVE  Moves
<1>1. \A j \in Jobs : ~OpensFor(w, j)
  BY DEF OpensFor
<1> QED BY <1>1, GotoMovesAny

LEMMA RaiseMoves ==
  ASSUME Before, NEW w \in Workers, Inside(w), pc[w] # "opened", Raise(w)
  PROVE  Onward
<1>1. Goto(w, "raised", {}) /\ UNCHANGED <<db, jobs, api, job, budget>>
  BY DEF Raise, Return
<1>2. Moves
  BY <1>1, GotoMoves
<1>3. Proceeds
  BY <1>1, StaysProceeds DEF Here
<1> QED BY <1>2, <1>3 DEF Onward

\* The call of the provider.
LEMMA ProviderMoves ==
  ASSUME Before, NEW w \in Workers, ProviderAnswers(w) \/ ProviderFails(w)
  PROVE  Onward
<1>1. Inside(w) /\ pc[w] # "opened"
  BY DEF ProviderAnswers, ProviderFails, Inside
<1>2. PICK where \in {"result", "raised"} : Goto(w, where, {}) /\ UNCHANGED <<db, jobs, api, job>>
  BY DEF ProviderAnswers, ProviderFails, Return
<1>3. Moves
  BY <1>1, <1>2, GotoMoves
<1>4. Proceeds
  BY <1>2, StaysProceeds DEF Here
<1> QED BY <1>3, <1>4 DEF Onward

\* Which steps change one worker and the row of its job.
LEMMA LoopMoves ==
  ASSUME Before, UNCHANGED <<db, api>>, RowsGo, NEW w \in Workers, Carries(w),
         \A u \in Workers \ {w} : Unmoved(u)
  PROVE  Onward
<1>1. \A u \in Workers \ {w} : Carries(u)
  BY UnmovedCarries DEF Before
<1>2. Moves
  BY <1>1 DEF Moves
<1>3. Proceeds
  BY StaysProceeds DEF Here
<1> QED BY <1>2, <1>3 DEF Onward

LEMMA EnqueueNextMoves ==
  ASSUME Before, NEW w \in Workers, EnqueueNext(w)
  PROVE  Onward
<1>1. PICK k \in todo[w] : EnqueueOne(w, k)
  BY DEF EnqueueNext
<1>2. /\ pc \in [Workers -> UnitsOfWork \union Between] /\ todo \in [Workers -> SUBSET Jobs]
      /\ view \in [Workers -> Database \union {None}] /\ jobs \in [Jobs -> JobRow]
  BY DEF Before, RunInv, Loop, LoopInv, LoopTyped
<1>3. /\ pc[w] = "enqueue" /\ k \in Jobs /\ jobs' = Enqueued(jobs, {k})
      /\ todo'[w] = todo[w] \ {k} /\ pc'[w] \in {"settle", "enqueue"} /\ UNCHANGED <<db, api, job, budget>>
  BY <1>1, <1>2 DEF EnqueueOne, Goto
<1>4. \A u \in Workers \ {w} : Unmoved(u)
  BY <1>1, <1>2 DEF EnqueueOne, Goto, Unmoved
<1>5. \A j \in Jobs : jobs'[j] = IF j = k /\ jobs[j].status = "absent"
                                 THEN [jobs[j] EXCEPT !.status = "queued"] ELSE jobs[j]
  BY <1>2, <1>3 DEF Enqueued
<1>6. \A j \in Jobs : jobs'[j] = jobs[j] \/ (j = k /\ jobs[j].status = "absent" /\ jobs'[j].status = "queued")
  BY <1>2, <1>5 DEF JobRow
<1>7. RowsGo
  BY <1>6 DEF RowsGo, HandedOn, Known
<1>8. Carries(w)
  <2>1. ASSUME NEW j \in todo[w] PROVE j \in todo'[w] \/ Known(j)'
    <3>1. CASE j # k
      BY <1>3, <3>1
    <3>2. CASE j = k
      <4>2. jobs'[k] = jobs[k] \/ jobs'[k].status = "queued"
        BY <1>3, <1>6
      <4>3. jobs[k].status = "absent" => jobs'[k].status = "queued"
        BY <1>2, <1>3, <1>5 DEF JobRow
      <4>4. jobs'[k].status # "absent"
        BY <4>2, <4>3
      <4> QED BY <3>2, <4>4 DEF Known
    <3> QED BY <3>1, <3>2
  <2>2. ASSUME NEW j \in Jobs, job'[w] = j PROVE HandedOn(j)
    BY <1>3, <2>2 DEF HandedOn, HandsOn
  <2> QED BY <1>3, <2>1, <2>2 DEF Carries, OpensFor
<1> QED BY <1>3, <1>4, <1>7, <1>8, LoopMoves

\* The worker lets go of its job.
LEMMA DropMoves ==
  ASSUME Before, NEW w \in Workers, NEW where, where # "enqueue", Drop(w, where), pc[w] \notin {"enqueue", "opened"},
         UNCHANGED <<db, api>>, RowsGo, job[w] # None => jobs'[job[w]].status # "running",
         (job[w] # None /\ pc[w] = "terminal") => IsOver' \/ (IsOf(job[w]) => Excused(job[w]))
  PROVE  Onward
<1>1. /\ pc \in [Workers -> UnitsOfWork \union Between] /\ todo \in [Workers -> SUBSET Jobs]
      /\ view \in [Workers -> Database \union {None}] /\ job \in [Workers -> Jobs \union {None}]
      /\ (pc[w] = "enqueue" <=> todo[w] # {})
  BY DEF Before, RunInv, Loop, LoopInv, LoopTyped, LoopOK
<1>2. job'[w] = None /\ todo'[w] = {} /\ None \notin Jobs
  BY <1>1, RunSetting DEF Drop, Goto, Setting
<1>3. \A u \in Workers \ {w} : Unmoved(u)
  BY <1>1 DEF Drop, Goto, Unmoved
<1>4. Carries(w)
  BY <1>1, <1>2 DEF Carries, OpensFor
<1> QED BY <1>3, <1>4, LoopMoves

LEMMA SettleMoves ==
  ASSUME Before, NEW w \in Workers, Settle(w)
  PROVE  Onward
<1>1. /\ jobs \in [Jobs -> JobRow] /\ job \in [Workers -> Jobs \union {None}]
      /\ pc[w] = "settle" /\ job[w] # None
  BY DEF Before, RunInv, Loop, LoopInv, LoopTyped, LoopOK, Settle
<1>2. Owns(w)
  BY <1>1 DEF Before, Calm, RunInv, Loop, LoopInv, Exclusive
<1>3. jobs' = Released(job[w], "done") /\ Drop(w, "idle") /\ UNCHANGED <<db, api>>
  BY <1>2 DEF Settle
<1>4. \A j \in Jobs : IF j = job[w] THEN jobs'[j].status = "done" ELSE jobs'[j] = jobs[j]
  BY <1>1, <1>3 DEF Released, JobRow
<1>5. HandedOn(job[w])
  BY <1>1 DEF HandedOn, HandsOn
<1>6. RowsGo
  BY <1>4, <1>5 DEF RowsGo, HandedOn, Known
<1>7. jobs'[job[w]].status # "running"
  BY <1>1, <1>4
<1> QED BY <1>1, <1>3, <1>6, <1>7, DropMoves

LEMMA FailMoves ==
  ASSUME Before, NEW w \in Workers, Fail(w)
  PROVE  Onward
<1>1. /\ jobs \in [Jobs -> JobRow] /\ job \in [Workers -> Jobs \union {None}]
      /\ pc[w] = "raised" /\ job[w] # None /\ job[w] \in Jobs
      /\ pc \in [Workers -> UnitsOfWork \union Between] /\ todo \in [Workers -> SUBSET Jobs]
      /\ view \in [Workers -> Database \union {None}]
  BY DEF Before, RunInv, Loop, LoopInv, LoopTyped, LoopOK, Fail
<1>2. Owns(w) /\ UNCHANGED <<db, api>> /\ todo[w] = {}
  BY <1>1 DEF Before, Calm, RunInv, Loop, LoopInv, Exclusive, Fail, LoopOK
<1>3. CASE Exhausted(job[w])
  <2>1. jobs' = Released(job[w], "failed") /\ Goto(w, "terminal", {}) /\ UNCHANGED job
    BY <1>2, <1>3 DEF Fail
  <2>2. \A j \in Jobs : IF j = job[w] THEN jobs'[j].status = "failed" ELSE jobs'[j] = jobs[j]
    BY <1>1, <2>1 DEF Released, JobRow
  <2>3. pc'[w] = "terminal" /\ job'[w] = job[w] /\ todo'[w] = {}
    BY <1>1, <2>1 DEF Goto
  <2>4. RowsGo
    BY <1>1, <2>2, <2>3 DEF RowsGo, HandedOn, Known
  <2>5. Carries(w)
    BY <1>1, <1>2, <2>3 DEF Carries, HandsOn, OpensFor
  <2>6. \A u \in Workers \ {w} : Unmoved(u)
    BY <1>1, <2>1 DEF Goto, Unmoved
  <2> QED BY <1>2, <2>4, <2>5, <2>6, LoopMoves
<1>4. CASE ~Exhausted(job[w])
  <2>1. jobs' = Released(job[w], "queued") /\ Drop(w, "idle")
    BY <1>2, <1>4 DEF Fail
  <2>2. \A j \in Jobs : IF j = job[w] THEN jobs'[j].status = "queued" ELSE jobs'[j] = jobs[j]
    BY <1>1, <2>1 DEF Released, JobRow
  <2>3. RowsGo
    BY <1>1, <2>2 DEF RowsGo, HandedOn, Known
  <2>4. jobs'[job[w]].status # "running"
    BY <1>1, <2>2
  <2> QED BY <1>1, <1>2, <2>1, <2>3, <2>4, DropMoves
<1> QED BY <1>3, <1>4

LEMMA ClaimMoves ==
  ASSUME Before, NEW w \in Workers, NEW j \in Jobs, Claim(w, j)
  PROVE  Onward
<1>1. /\ jobs \in [Jobs -> JobRow] /\ job \in [Workers -> Jobs \union {None}]
      /\ pc \in [Workers -> UnitsOfWork \union Between]
      /\ pc[w] = "idle" /\ job[w] = None /\ todo[w] = {} /\ UNCHANGED <<db, api, view, todo>>
  BY DEF Before, RunInv, Loop, LoopInv, LoopTyped, LoopOK, Claim, ClaimFor
<1>2. pc' = [pc EXCEPT ![w] = FirstUnit(j.type)] /\ job' = [job EXCEPT ![w] = j]
  BY DEF Claim, ClaimFor
<1>3. FirstUnit(j.type) \in {"create", "judging", "finalize", "start"}
  BY TypeSays DEF FirstUnit, AgentJobs
<1>4. \A k \in Jobs : IF k = j THEN jobs'[k].status = "running" /\ jobs'[k].owner = w ELSE jobs'[k] = jobs[k]
  BY <1>1 DEF Claim, ClaimFor
<1>5. job'[w] = j /\ pc'[w] \in {"create", "judging", "finalize", "start"} /\ todo'[w] = {}
  BY <1>1, <1>2, <1>3
<1>6. RowsGo
  BY <1>4, <1>5 DEF RowsGo, HandedOn, Known
<1>7. Carries(w)
  BY <1>1, <1>5 DEF Carries, HandsOn, OpensFor
<1>8. \A u \in Workers \ {w} : Unmoved(u)
  BY <1>1, <1>2 DEF Unmoved
<1> QED BY <1>1, <1>6, <1>7, <1>8, LoopMoves

\* A lease that runs out has a live owner, so that this is not calm.
LEMMA LapseNever ==
  ASSUME Before, NEW j \in Jobs, Lapse(j), Calm'
  PROVE  FALSE
<1>1. jobs[j].status = "running" /\ job[jobs[j].owner] = j
  BY DEF Lapse, Before, Handed, OwnersWork
<1>2. /\ jobs[j].owner # None /\ budget \in [raises : Nat, lapses : Nat, crashes : Nat, lost : SUBSET Jobs]
  BY <1>1 DEF Before, RunInv, Loop, LoopInv, LoopTyped, LoopOK
<1>3. budget'.lapses = budget.lapses + 1
  BY <1>1, <1>2 DEF Lapse
<1>4. budget'.lapses = 0 /\ budget.lapses \in Nat
  BY <1>2 DEF Calm
<1> QED BY <1>3, <1>4

LEMMA CrashNever ==
  ASSUME Before, CrashApi \/ \E w \in Workers : CrashWorker(w), Calm'
  PROVE  FALSE
<1>1. budget \in [raises : Nat, lapses : Nat, crashes : Nat, lost : SUBSET Jobs]
  BY DEF Before, RunInv, Loop, LoopInv, LoopTyped
<1>2. budget'.crashes = budget.crashes + 1
  BY <1>1 DEF CrashApi, CrashWorker
<1> QED BY <1>1, <1>2 DEF Calm

LEMMA RestartMoves ==
  ASSUME Before, NEW w \in Workers, Restart(w)
  PROVE  Onward
<1>1. job[w] = None /\ pc[w] = "dead" /\ Drop(w, "idle") /\ UNCHANGED <<db, jobs, api>>
  BY DEF Before, RunInv, Loop, LoopInv, LoopTyped, LoopOK, Restart
<1> QED BY <1>1, DropMoves, JobsAlike

LEMMA ApiMoves ==
  ASSUME Before, CreateRun \/ EnqueueCreateGeneration \/ UNCHANGED vars
  PROVE  Onward
<1>1. UNCHANGED workerVars
  BY DEF CreateRun, EnqueueCreateGeneration, vars, workerVars
<1>2. \A u \in Workers : Carries(u)
  <2>1. \A u \in Workers : Unmoved(u)
    BY <1>1 DEF workerVars, Unmoved
  <2> QED BY <2>1, UnmovedCarries DEF Before
<1>3. RowsGo /\ (api' = "done" => api = "done" \/ Known(CreateJob)')
  <2>1. CASE CreateRun
    BY <2>1, JobsAlike DEF CreateRun
  <2>2. CASE UNCHANGED vars
    BY <2>2, JobsAlike DEF vars
  <2>3. CASE EnqueueCreateGeneration
    <3>1. jobs' = Enqueued(jobs, {CreateJob}) /\ jobs \in [Jobs -> JobRow] /\ CreateJob \in Jobs
      BY <2>3, JobSets, GenerationsType DEF EnqueueCreateGeneration, Before, RunInv, Loop, LoopInv, LoopTyped
    <3>2. \A j \in Jobs : jobs'[j] = IF j = CreateJob /\ jobs[j].status = "absent"
                                     THEN [jobs[j] EXCEPT !.status = "queued"] ELSE jobs[j]
      BY <3>1 DEF Enqueued
    <3>3. \A j \in Jobs : \/ jobs'[j] = jobs[j] /\ (j = CreateJob => jobs[j].status # "absent")
                          \/ j = CreateJob /\ jobs[j].status = "absent" /\ jobs'[j].status = "queued"
      BY <3>1, <3>2 DEF JobRow
    <3>4. RowsGo
      BY <3>3 DEF RowsGo, HandedOn, Known
    <3> QED BY <3>1, <3>3, <3>4 DEF Known
  <2> QED BY <2>1, <2>2, <2>3
<1>4. Proceeds
  <2>1. CASE CreateRun
    <3>1. db' = [db EXCEPT !.status = "CREATED"] /\ db.status = "NONE" /\ db \in Database
      BY <2>1 DEF CreateRun, Before, RunInv
    <3>2. db'.gens = db.gens /\ Here(db') = Here(db) /\ db'.status = "CREATED"
      BY <3>1, StatusApart DEF Database, Here
    <3> QED BY <3>1, <3>2 DEF Proceeds, SameGeneration, StaysOver, IsOver, Over
  <2>2. CASE UNCHANGED db
    BY <2>2, StaysProceeds DEF Here
  <2> QED BY <2>1, <2>2 DEF EnqueueCreateGeneration, vars
<1> QED BY <1>2, <1>3, <1>4 DEF Onward, Moves

\* The handler goes on, to where it hands nothing on.
LEMMA GoesOnMoves ==
  ASSUME Before, NEW w \in Workers, Inside(w), pc[w] # "opened",
         NEW where, where \notin {"settle", "enqueue", "opened"},
         Goto(w, where, {}), UNCHANGED <<jobs, api, job>>,
         db'.gens = db.gens, Here(db') = Here(db), db'.status = db.status
  PROVE  Onward
<1>1. Moves
  BY GotoMoves
<1> QED BY <1>1, StaysProceeds DEF Onward

LEMMA BecomesMoves ==
  ASSUME Before, NEW w \in Workers, pc[w] \in {"start", "result"},
         NEW new \in Database, Here(new) = Here(db), new.status = db.status, new.gens = db.gens,
         NEW status \in {"RUNNING", "COMPLETED"}, NEW where \in {"calling", "schedule"},
         Becomes(w, new, status, where)
  PROVE  Onward
<1>1. PICK seen \in {view[w], db} :
        Commit(w, AgentUpdates(new, seen, job[w].agent, status), where, {})
  BY DEF Becomes
<1>2. Inside(w)
  BY DEF Inside
<1>3. job[w].agent \in Here(new)
  BY <1>2, InsideFits DEF Before
<1> DEFINE e == AgentUpdates(new, seen, job[w].agent, status)
<1>4. Here(e) = Here(new) /\ e.status = new.status /\ e.gens = new.gens
  BY <1>3, AgentUpdatesKeep DEF AgentStatus
<1>5. db' = e /\ Goto(w, where, {}) /\ UNCHANGED <<jobs, api, job>>
  BY <1>1 DEF Commit
<1> HIDE DEF e
<1> QED BY <1>2, <1>4, <1>5, GoesOnMoves

\* What excuses a job excuses that it is handed on.
ExcuseIsEnough == \A j \in Jobs : (j.gen = Current /\ Excused(j)) => GoesOnFrom(j)

LEMMA ExcusedGoesOn == ExcuseIsEnough
<1> SUFFICES ASSUME NEW j \in Jobs, j.gen = Current, Excused(j) PROVE GoesOnFrom(j)
  BY DEF ExcuseIsEnough
<1>1. CASE IsOver
  BY <1>1 DEF GoesOnFrom
<1>2. CASE j.type = "RUN_RESEARCH_AGENT" /\ Known(StartJudgingJob(Current))
  BY <1>2 DEF GoesOnFrom, ResearchGoesOn, Promised
<1>3. CASE j = CreateJob
  BY <1>3 DEF GoesOnFrom, CreateJob, Job
<1> QED BY <1>1, <1>2, <1>3 DEF Excused

LEMMA ExcusedHandsWell ==
  ASSUME UNCHANGED <<db, jobs>>, NEW j \in Jobs, j # CreateJob, IsOf(j) => Excused(j)
  PROVE  HandsWell(j)
<1>1. ExcuseIsEnough'
  BY ExcusedGoesOn, PTL
<1>2. Current' = Current
  BY DEF Current, Latest
<1>3. IsOf(j)' <=> IsOf(j)
  BY <1>2 DEF IsOf
<1>4. Excused(j)' <=> Excused(j)
  BY DEF Excused, IsOver, Known, Current, Latest
<1>5. (j.gen = Current)' => GoesOnFrom(j)'
  BY <1>1, <1>2, <1>4 DEF ExcuseIsEnough, IsOf
<1> QED BY <1>3, <1>4, <1>5 DEF HandsWell

\* The handler finds that the run is over.
LEMMA GivesUpMoves ==
  ASSUME Before, NEW w \in Workers, Inside(w), pc[w] # "opened", view[w] # None, view[w].status \in Over,
         job[w] # CreateJob, Return(w, "settle", {})
  PROVE  Onward
<1>1. PICK j \in Jobs : j = job[w]
  BY InsideHolds
<1>2. IsOf(j) => Excused(j)
  BY <1>1 DEF Before, Handed, Excuses, ViewExcused
<1>3. Goto(w, "settle", {}) /\ UNCHANGED <<db, jobs, api, job>>
  BY DEF Return
<1>4. HandsWell(j)
  BY <1>1, <1>2, <1>3, ExcusedHandsWell
<1>5. Moves
  BY <1>1, <1>3, <1>4, GotoMoves
<1> QED BY <1>3, <1>5, StaysProceeds DEF Onward, Here

-----------------------------------------------------------------------------
(* The handlers of the jobs of agents.                                     *)

LEMMA ResumeMoves ==
  ASSUME Before, NEW w \in Workers, pc[w] = "start", Resume(w)
  PROVE  Onward
<1>1. Inside(w) /\ db \in Database
  BY DEF Inside, Before, RunInv
<1>2. CASE Becomes(w, db, "COMPLETED", "schedule")
  BY <1>1, <1>2, BecomesMoves
<1>3. CASE Return(w, "schedule", {})
  BY <1>1, <1>3, GoesOnMoves DEF Return, Here
<1> QED BY <1>2, <1>3 DEF Resume

LEMMA StartMoves ==
  ASSUME Before, NEW w \in Workers, StartResearch(w) \/ StartJudge(w) \/ StartCritic(w)
  PROVE  Onward
<1>1. /\ pc[w] = "start" /\ view[w] # None /\ Inside(w) /\ db \in Database
      /\ job[w] # CreateJob
  BY DEF StartResearch, StartJudge, StartCritic, At, Inside, Before, RunInv, CreateJob, Job
<1>2. \/ Resume(w) \/ Becomes(w, db, "RUNNING", "calling")
      \/ view[w].status \in Over /\ Return(w, "settle", {})
  BY DEF StartResearch, StartJudge, StartCritic
<1> QED BY <1>1, <1>2, ResumeMoves, BecomesMoves, GivesUpMoves

LEMMA StoreSubmissionMoves ==
  ASSUME Before, NEW w \in Workers, StoreSubmission(w)
  PROVE  Onward
<1> DEFINE a == job[w].agent
           new == [db EXCEPT !.subs = @ \union {a}]
<1>1. view[w] # None /\ pc[w] = "result" /\ job[w].type = "RUN_RESEARCH_AGENT" /\ Inside(w)
  BY DEF StoreSubmission, At, Inside
<1>2. a \in Submissions /\ db \in Database
  BY <1>1, OwnSight, AgentSets DEF Before, Calm
<1>3. new \in Database /\ Here(new) = Here(db) /\ new.status = db.status /\ new.gens = db.gens
  BY <1>2 DEF Database, Here
<1>4. Raise(w) \/ Becomes(w, new, "COMPLETED", "schedule")
  BY DEF StoreSubmission
<1> HIDE DEF new
<1> QED BY <1>1, <1>3, <1>4, RaiseMoves, BecomesMoves

LEMMA StoreEvaluationsMoves ==
  ASSUME Before, NEW w \in Workers, StoreEvaluations(w)
  PROVE  Onward
<1> DEFINE a == job[w].agent
           fresh == Unjudged(view[w], a)
           new == [db EXCEPT !.evals = @ \union (fresh \X {a})]
<1>1. view[w] # None /\ pc[w] = "result" /\ job[w].type = "RUN_JUDGE" /\ Inside(w)
  BY DEF StoreEvaluations, At, Inside
<1>2. a \in JudgesOf(a.gen) /\ a.gen \in Generations /\ db \in Database /\ view[w] \in Database
  BY <1>1, OwnSight DEF Before, Calm
<1>3. fresh \X {a} \subseteq Submissions \X UNION {JudgesOf(g) : g \in Generations}
  <2>1. view[w].subs \subseteq Submissions
    BY <1>2 DEF Database
  <2>2. fresh \subseteq Submissions
    BY <2>1 DEF Unjudged, SubsOf
  <2> QED BY <1>2, <2>2
<1>4. Raise(w) \/ Becomes(w, new, "COMPLETED", "schedule")
  BY DEF StoreEvaluations
<1> HIDE DEF fresh, a
<1>5. new \in Database /\ Here(new) = Here(db) /\ new.status = db.status /\ new.gens = db.gens
  BY <1>2, <1>3 DEF Database, Here
<1> HIDE DEF new
<1> QED BY <1>1, <1>4, <1>5, RaiseMoves, BecomesMoves

LEMMA StoreFindingMoves ==
  ASSUME Before, NEW w \in Workers, StoreFinding(w)
  PROVE  Onward
<1> DEFINE a == job[w].agent
<1>1. view[w] # None /\ pc[w] = "result" /\ job[w].type = "RUN_CRITIC" /\ Inside(w)
  BY DEF StoreFinding, At, Inside
<1>2. a \in Agents /\ a.gen \in Generations /\ db \in Database
  BY <1>1, OwnSight DEF Before, Calm
<1>3. CASE Raise(w)
  BY <1>1, <1>3, RaiseMoves
<1>4. CASE Becomes(w, db, "COMPLETED", "schedule")
  BY <1>1, <1>2, <1>4, BecomesMoves
<1>5. ASSUME NEW fatal \in BOOLEAN,
             Becomes(w, [db EXCEPT !.finds = @ \union {[critic |-> a, sub |-> Elite(a.gen, {}), fatal |-> fatal]}],
                     "COMPLETED", "schedule")
      PROVE  Onward
  <2> DEFINE f == [critic |-> a, sub |-> Elite(a.gen, {}), fatal |-> fatal]
             new == [db EXCEPT !.finds = @ \union {f}]
  <2>1. f \in [critic : Agents, sub : Submissions, fatal : BOOLEAN]
    BY <1>2, EliteParts
  <2>2. Becomes(w, new, "COMPLETED", "schedule")
    BY <1>5
  <2> HIDE DEF f
  <2>3. new \in Database /\ Here(new) = Here(db) /\ new.status = db.status /\ new.gens = db.gens
    BY <1>2, <2>1 DEF Database, Here
  <2> HIDE DEF new
  <2> QED BY <1>1, <2>2, <2>3, BecomesMoves
<1> QED BY <1>3, <1>4, <1>5 DEF StoreFinding

-----------------------------------------------------------------------------
(* The readings of the units of work of the orchestrator.                  *)

\* Whoever is killed, as long as no live worker has lost a lease.
Standing == RunInv /\ Knows /\ Results /\ budget.lapses = 0

\* Of a job of the current generation, its reading is of that generation too.
LEMMA StandingLatest ==
  ASSUME Standing, NEW w \in Workers, Inside(w), view[w] # None, NEW v \in Reads(w),
         job[w] # CreateJob, job[w].gen = Current
  PROVE  IsLatest(v, job[w].gen) /\ view[w].gens = db.gens /\ v.gens = db.gens /\ db.gens > 0
<1>1. /\ v \in Database /\ view[w] \in Database /\ db \in Database
      /\ JobFits(job[w], v) /\ Behind(v, db) /\ Behind(view[w], v)
  BY ReadsFit DEF Standing, RunInv
<1>2. JobFits(job[w], view[w])
  BY DEF Standing, RunInv, WorkerFits
<1>3. v.gens \in Nat /\ view[w].gens \in Nat /\ db.gens \in Nat /\ Current = db.gens - 1
  BY <1>1, GensType DEF Current, Latest
<1>4. job[w].gen < v.gens /\ v.gens <= db.gens /\ job[w].gen < view[w].gens /\ view[w].gens <= v.gens
  BY <1>1, <1>2 DEF JobFits, Behind
<1>5. v.gens = db.gens /\ view[w].gens = db.gens /\ db.gens > 0
  <2>1. PICK g \in Generations : g = job[w].gen
    BY InsideFits DEF Standing
  <2>2. g \in Nat
    BY GenerationsType
  <2> QED BY <1>3, <1>4, <2>1, <2>2
<1>6. job[w].gen = v.gens - 1
  BY <1>3, <1>5
<1> QED BY <1>5, <1>6 DEF IsLatest, Latest

\* What it says of agents fits, and stands.
LEMMA StandingReads ==
  ASSUME Standing, NEW w \in Workers, Inside(w), view[w] # None, NEW v \in Reads(w)
  PROVE  /\ AgentsStand(view[w], v) /\ AgentsStand(v, db) /\ ResultsFit(v) /\ ResultsFit(view[w])
         /\ OneOfEach(v) /\ OneOfEach(view[w]) /\ view[w] \in Reads(w)
         /\ Shape(view[w]) /\ StatusFits(view[w])
<1>0. Results /\ db \in Database /\ Knows
  BY DEF Standing, RunInv
<1>1. /\ v \in Database /\ view[w] \in Database /\ Behind(v, db) /\ Behind(view[w], v)
  BY <1>0, ReadsFit DEF Standing
<1>2. ResultsFit(view[w]) /\ AgentsStand(view[w], db) /\ ResultsFit(db)
  BY <1>0 DEF Results
<1>3. Here(v) \subseteq Here(db) /\ Here(view[w]) \subseteq Here(db)
  BY <1>1 DEF Behind
<1>4. OneOfEach(v) /\ OneOfEach(view[w])
  BY <1>0, <1>3, OneOfEachStill DEF Knows
<1>5. Shape(view[w]) /\ StatusFits(view[w])
  BY DEF Standing, RunInv, WorkerFits
<1>6. CASE v = view[w]
  BY <1>2, <1>4, <1>5, <1>6 DEF AgentsStand, Reads
<1>7. CASE v = [db EXCEPT !.status = view[w].status]
  <2>1. v.agents = db.agents /\ v.subs = db.subs /\ v.evals = db.evals /\ v.finds = db.finds /\ v.cands = db.cands
    BY <1>0, <1>7 DEF Database
  <2>2. Here(v) = Here(db)
    BY <2>1 DEF Here
  <2>3. ResultsFit(v)
    BY <1>2, <2>1, <2>2 DEF ResultsFit, Answered, JudgesAnswered, JudgesFollow, Findings
  <2>4. AgentsStand(v, db) /\ AgentsStand(view[w], v)
    BY <1>2, <2>1 DEF AgentsStand
  <2> QED BY <1>2, <1>4, <1>5, <2>3, <2>4 DEF Reads
<1> QED BY <1>6, <1>7 DEF Reads

\* The same, where nobody is killed either.
LEMMA SeenLatest ==
  ASSUME Before, NEW w \in Workers, Inside(w), view[w] # None, NEW v \in Reads(w),
         job[w] # CreateJob, job[w].gen = Current
  PROVE  IsLatest(v, job[w].gen) /\ view[w].gens = db.gens /\ v.gens = db.gens /\ db.gens > 0
BY StandingLatest DEF Before, Calm, Standing

LEMMA ReadsStand ==
  ASSUME Before, NEW w \in Workers, Inside(w), view[w] # None, NEW v \in Reads(w)
  PROVE  /\ AgentsStand(view[w], v) /\ AgentsStand(v, db) /\ ResultsFit(v) /\ ResultsFit(view[w])
         /\ OneOfEach(v) /\ OneOfEach(view[w]) /\ view[w] \in Reads(w)
         /\ Shape(view[w]) /\ StatusFits(view[w])
BY StandingReads DEF Before, Calm, Standing

\* Where all judges of a generation have completed, its judging is complete.
LEMMA JudgesAreEnough ==
  ASSUME NEW v \in Database, Shape(v), OneOfEach(v), NEW g \in Generations, JudgesFollow(v, g)
  PROVE  JudgesPresent(v, g)
<1>1. PICK c1 \in Copies : Agent(g, "judge", 1, c1) \in Here(v)
  BY DEF JudgesFollow, JudgeCount
<1>2. PICK c2 \in Copies : Agent(g, "judge", 2, c2) \in Here(v)
  BY DEF JudgesFollow, JudgeCount
<1> DEFINE a == Agent(g, "judge", 1, c1)
           b == Agent(g, "judge", 2, c2)
<1>3. Present(v, JudgesOf(g)) = {a, b}
  <2>1. a \in JudgesOf(g) /\ b \in JudgesOf(g)
    BY DEF JudgesOf, JudgeCount
  <2>2. a \in Present(v, JudgesOf(g)) /\ b \in Present(v, JudgesOf(g))
    BY <1>1, <1>2, <2>1 DEF Present, Here
  <2>3. ASSUME NEW x \in Present(v, JudgesOf(g)) PROVE x = a \/ x = b
    <3>1. x \in JudgesOf(g) /\ v.agents[x] # "ABSENT"
      BY <2>3 DEF Present
    <3>2. x = Agent(g, "judge", x.index, x.copy) /\ x.index \in 1..2 /\ x.copy \in Copies
      BY <3>1, JudgeParts DEF JudgeCount
    <3>3. x \in Here(v)
      BY <3>1, AgentSets DEF Here
    <3>4. CASE x.index = 1
      <4>1. x.copy \in JudgeCopies(v, g, 1) /\ c1 \in JudgeCopies(v, g, 1)
        BY <3>2, <3>3, <3>4, <1>1, CopiesHere DEF JudgeCount
      <4> QED BY <4>1, <3>2, <3>4 DEF OneOfEach, JudgeCount
    <3>5. CASE x.index = 2
      <4>1. x.copy \in JudgeCopies(v, g, 2) /\ c2 \in JudgeCopies(v, g, 2)
        BY <3>2, <3>3, <3>5, <1>2, CopiesHere DEF JudgeCount
      <4> QED BY <4>1, <3>2, <3>5 DEF OneOfEach, JudgeCount
    <3> QED BY <3>2, <3>4, <3>5
  <2> QED BY <2>2, <2>3
<1>4. a # b
  BY DEF Agent
<1>5. Cardinality({a, b}) = 2
  <2>1. IsFiniteSet({a}) /\ Cardinality({a}) = 1
    BY FS_Singleton
  <2> HIDE DEF a, b
  <2>2. {a, b} = {a} \union {b} /\ b \notin {a}
    BY <1>4
  <2>3. Cardinality({a} \union {b}) = Cardinality({a}) + 1
    BY <2>1, <2>2, FS_AddElement, Zenon
  <2> QED BY <2>1, <2>2, <2>3
<1> QED BY <1>3, <1>5 DEF JudgesPresent, JudgeCount

LEMMA JudgesComplete ==
  ASSUME NEW v \in Database, Shape(v), OneOfEach(v), ResultsFit(v), NEW g \in Generations,
         JudgesFollow(v, g), AllCompleted(v, Present(v, JudgesOf(g)))
  PROVE  JudgingComplete(v, g)
<1>1. JudgesPresent(v, g)
  BY JudgesAreEnough
<1>2. Researchers(g) \subseteq v.subs
  BY <1>1, CompleteIsJudged
<1>3. SubsOf(v, g) = Researchers(g) /\ Researchers(g) # {} /\ Researchers(g) \subseteq Submissions
  <2>1. Agent(g, "researcher", 1, 1) \in Researchers(g)
    BY RunCreateAssumption DEF Researchers
  <2> QED BY <1>2, <2>1, AgentSets DEF SubsOf
<1>4. ASSUME NEW e \in v.evals, e[1] \in Researchers(g) PROVE e \in Researchers(g) \X Present(v, JudgesOf(g))
  <2>1. e \in Submissions \X UNION {JudgesOf(h) : h \in Generations}
    BY DEF Database
  <2>2. PICK h \in Generations : e[2] \in JudgesOf(h)
    BY <2>1
  <2>3. e[1].gen = g /\ e[2].gen = h
    BY <1>4, <2>2, ResearcherParts, JudgeParts
  <2>4. e[2].gen = e[1].gen /\ e[2] \in Here(v)
    BY DEF ResultsFit
  <2>5. e[2] \in JudgesOf(g)
    BY <2>2, <2>3, <2>4
  <2> QED BY <2>1, <2>4, <2>5, <1>4 DEF Present, Here
<1>5. ASSUME NEW s \in Researchers(g), NEW a \in Present(v, JudgesOf(g)) PROVE <<s, a>> \in v.evals
  <2>1. a \in Agents /\ v.agents[a] = "COMPLETED" /\ a.role = "judge" /\ a.gen = g
    BY <1>5, AgentSets, JudgeParts DEF AllCompleted, Present
  <2> QED BY <2>1 DEF ResultsFit, Answered
<1>6. {e \in v.evals : e[1] \in Researchers(g)} = SubsOf(v, g) \X Present(v, JudgesOf(g))
  BY <1>3, <1>4, <1>5
<1> QED BY <1>1, <1>3, <1>6 DEF JudgingComplete, EvaluationsComplete

-----------------------------------------------------------------------------
(* A worker that looks whether its stage is over.                           *)

\* Jobs of agents of a stage, and what their being handed on says.
LEMMA StageJobs ==
  ASSUME NEW g \in Generations
  PROVE  /\ \A a \in Researchers(g) : /\ ResearchJob(a) \in Jobs /\ ResearchJob(a).agent = a
                                      /\ ResearchJob(a).gen = g /\ ResearchJob(a).type = "RUN_RESEARCH_AGENT"
         /\ \A a \in JudgesOf(g) : /\ JudgeJob(a) \in Jobs /\ JudgeJob(a).agent = a
                                   /\ JudgeJob(a).gen = g /\ JudgeJob(a).type = "RUN_JUDGE"
         /\ \A a \in CriticsOf(g) : /\ CriticJob(a) \in Jobs /\ CriticJob(a).agent = a
                                    /\ CriticJob(a).gen = g /\ CriticJob(a).type = "RUN_CRITIC"
BY JobSets, ResearcherParts, JudgeParts, CriticParts DEF ResearchJob, JudgeJob, CriticJob, Job

\* A worker begins to look whether its stage is over, and it is not: then the job
\* of another agent of the stage is not handed on.
LEMMA BeginHandsWell ==
  ASSUME Before, NEW w \in Workers, Begin(w), pc[w] = "schedule",
         NEW j \in Jobs, job[w] = j, ~Enough(db, j)
  PROVE  HandsWell(j)
<1>0. UNCHANGED <<db, jobs, pc, job, todo>> /\ view' = [view EXCEPT ![w] = db] /\ Inside(w)
  BY DEF Begin, BeginAt, Inside
<1>1. /\ j # None /\ j.type \in AgentJobs /\ j # CreateJob /\ j.agent \in Agents /\ j.agent # None
      /\ j.gen \in Generations /\ db \in Database /\ Shape(db) /\ OneOfEach(db) /\ ResultsFit(db)
      /\ j.agent \in Here(db) /\ j.agent.gen = j.gen
  <2>1. j # None /\ j.type \in AgentJobs /\ j.agent \in Here(db) /\ j.gen \in Generations
    BY <1>0, InsideFits DEF Before
  <2>2. j # CreateJob
    BY <2>1 DEF CreateJob, Job, AgentJobs
  <2>3. j.agent \in Agents /\ j.agent # None /\ j.agent.gen = j.gen
    BY <2>1, TypeSays, NoneAssumption
  <2> QED BY <2>1, <2>2, <2>3 DEF Before, RunInv, Knows, Results
<1>2. db.agents[j.agent] = "COMPLETED"
  BY <1>1 DEF Before, Results, OwnRows
<1>3. ASSUME NEW k \in Jobs, HandedOn(k)' PROVE HandedOn(k) \/ k = j
  <2>1. CASE jobs[k].status = "done"
    BY <2>1 DEF HandedOn
  <2>2. ASSUME NEW u \in Workers, job'[u] = k, HandsOn(u)' PROVE HandedOn(k) \/ k = j
    <3>1. CASE u = w
      BY <1>0, <2>2, <3>1
    <3>2. CASE u # w
      <4>1. view'[u] = view[u] /\ view \in [Workers -> Database \union {None}]
        BY <1>0, <3>2 DEF Before, RunInv, Loop, LoopInv, LoopTyped
      <4>2. HandsOn(u)
        BY <1>0, <2>2, <4>1 DEF HandsOn
      <4> QED BY <1>0, <2>2, <4>2 DEF HandedOn
    <3> QED BY <3>1, <3>2
  <2> QED BY <1>0, <1>3, <2>1, <2>2 DEF HandedOn
<1>4. Current' = Current /\ (IsOver' <=> IsOver) /\ Here(db') = Here(db)
  BY <1>0 DEF Current, Latest, IsOver
<1>5. ASSUME NEW k \in Jobs, k.gen = Current, k.agent # None, HandedOn(k)'
      PROVE  Excused(k) \/ db.agents[k.agent] = "COMPLETED"
  <2>1. CASE k = j
    BY <1>2, <2>1
  <2>2. CASE HandedOn(k)
    BY <1>5, <2>2 DEF Before, Handed, Excuses, IsOf, AgentExcused
  <2> QED BY <1>3, <1>5, <2>1, <2>2
<1>6. ASSUME j.gen = Current, ~IsOver PROVE GoesOnFrom(j)'
  <2>1. PICK g \in Generations : g = j.gen
    BY <1>1
  <2>2. CASE j.type = "RUN_RESEARCH_AGENT"
    <3>1. SUFFICES ASSUME \A a \in Researchers(g) : HandedOn(ResearchJob(a))' PROVE Promised(StartJudgingJob(g))'
      BY <2>1, <2>2 DEF GoesOnFrom, ResearchGoesOn
    <3>2. \A k : Promised(k)' <=> Promised(k)
      BY <1>0 DEF Promised, Known
    <3>3. CASE Known(StartJudgingJob(g))
      BY <3>2, <3>3 DEF Promised
    <3>4. CASE ~Known(StartJudgingJob(g))
      <4>1. ASSUME NEW a \in Researchers(g) PROVE db.agents[a] = "COMPLETED" /\ a \in db.subs
        <5>1. /\ ResearchJob(a) \in Jobs /\ ResearchJob(a).agent = a /\ ResearchJob(a).gen = Current
              /\ ResearchJob(a).type = "RUN_RESEARCH_AGENT" /\ a \in Agents /\ a # None
              /\ a.role = "researcher"
          BY <1>6, <2>1, StageJobs, AgentSets, NoneAssumption, ResearcherParts
        <5>2. Excused(ResearchJob(a)) \/ db.agents[a] = "COMPLETED"
          BY <1>5, <3>1, <5>1
        <5>3. ~Excused(ResearchJob(a))
          BY <1>6, <2>1, <3>4, <5>1 DEF Excused, CreateJob, Job
        <5> QED BY <1>1, <5>1, <5>2, <5>3 DEF ResultsFit, Answered
      <4>2. ResearchComplete(db, g)
        BY <4>1 DEF ResearchComplete, AllCompleted, SubsOf
      <4> QED BY <2>1, <2>2, <4>2 DEF Enough
    <3> QED BY <3>3, <3>4
  <2>3. CASE j.type = "RUN_JUDGE"
    <3>1. ~\A a \in JudgesOf(g) \intersect Here(db) : HandedOn(JudgeJob(a))'
      <4> SUFFICES ASSUME \A a \in JudgesOf(g) \intersect Here(db) : HandedOn(JudgeJob(a))' PROVE FALSE
        OBVIOUS
      <4>1. ASSUME NEW a \in Present(db, JudgesOf(g)) PROVE db.agents[a] = "COMPLETED"
        <5>1. /\ a \in JudgesOf(g) \intersect Here(db) /\ a # None
              /\ JudgeJob(a) \in Jobs /\ JudgeJob(a).agent = a /\ JudgeJob(a).gen = Current
              /\ JudgeJob(a).type = "RUN_JUDGE"
          BY <1>6, <2>1, StageJobs, AgentSets, NoneAssumption DEF Present, Here
        <5>2. Excused(JudgeJob(a)) \/ db.agents[a] = "COMPLETED"
          BY <1>5, <5>1
        <5>3. ~Excused(JudgeJob(a))
          BY <1>6, <5>1 DEF Excused, CreateJob, Job
        <5> QED BY <5>2, <5>3
      <4>2. JudgesFollow(db, g)
        <5>1. j.agent.role = "judge" /\ j.agent.gen = g
          BY <2>1, <2>3, TypeSays, JudgeParts
        <5> QED BY <1>1, <5>1 DEF Shape
      <4>3. JudgingComplete(db, g)
        BY <1>1, <4>1, <4>2, JudgesComplete DEF AllCompleted
      <4> QED BY <2>1, <2>3, <4>3 DEF Enough
    <3>2. JudgingGoesOn(g)'
      BY <3>1, <1>4 DEF JudgingGoesOn
    <3> QED BY <2>1, <2>3, <3>2 DEF GoesOnFrom
  <2>4. CASE j.type = "RUN_CRITIC"
    <3>1. ~\A a \in FirstCritics(g) : HandedOn(CriticJob(a))'
      <4> SUFFICES ASSUME \A a \in FirstCritics(g) : HandedOn(CriticJob(a))' PROVE FALSE
        OBVIOUS
      <4>1. ASSUME NEW a \in FirstCritics(g) PROVE db.agents[a] = "COMPLETED"
        <5>0. a \in CriticsOf(g)
          BY FirstCriticParts
        <5>1. /\ a # None /\ CriticJob(a) \in Jobs /\ CriticJob(a).agent = a
              /\ CriticJob(a).gen = Current /\ CriticJob(a).type = "RUN_CRITIC"
          BY <1>6, <2>1, <5>0, StageJobs, AgentSets, NoneAssumption
        <5>2. Excused(CriticJob(a)) \/ db.agents[a] = "COMPLETED"
          BY <1>5, <5>1
        <5>3. ~Excused(CriticJob(a))
          BY <1>6, <5>1 DEF Excused, CreateJob, Job
        <5> QED BY <5>2, <5>3
      <4> QED BY <2>1, <2>4, <4>1 DEF Enough, AllCompleted
    <3>2. CriticsGoOn(g)'
      BY <3>1 DEF CriticsGoOn
    <3> QED BY <2>1, <2>4, <3>2 DEF GoesOnFrom
  <2> QED BY <1>1, <2>2, <2>3, <2>4 DEF AgentJobs
<1>7. (j.gen = Current)' => GoesOnFrom(j)'
  <2>1. IsOver => GoesOnFrom(j)'
    BY <1>4 DEF GoesOnFrom
  <2> QED BY <1>4, <1>6, <2>1
<1> QED BY <1>0, <1>1, <1>2, <1>7 DEF HandsWell

LEMMA BeginMoves ==
  ASSUME Before, NEW w \in Workers, Begin(w)
  PROVE  Onward
<1>0. /\ UNCHANGED <<db, jobs, api, pc, job, todo>> /\ view' = [view EXCEPT ![w] = db]
      /\ pc[w] \in UnitsOfWork /\ view \in [Workers -> Database \union {None}]
  BY DEF Begin, BeginAt, Before, RunInv, Loop, LoopInv, LoopTyped
<1>1. \A u \in Workers \ {w} : Unmoved(u)
  BY <1>0 DEF Unmoved
<1>2. ASSUME NEW j \in Jobs, job'[w] = j, HandsOn(w)' PROVE HandedOn(j) \/ HandsWell(j)
  <2>1. pc[w] = "schedule" /\ ~Enough(db, j) /\ job[w] = j
    <3>1. pc'[w] \notin {"settle", "enqueue"} /\ view'[w] = db /\ job[w] = j /\ job' = job
      BY <1>0, <1>2 DEF UnitsOfWork
    <3>2. pc'[w] = "schedule" /\ ~Enough(view'[w], job'[w])
      BY <1>2, <3>1 DEF HandsOn
    <3> QED BY <1>0, <3>1, <3>2
  <2> QED BY <2>1, BeginHandsWell
<1>3. ASSUME NEW j \in Jobs, j.agent \in Here(db), OpensFor(w, j) PROVE OpensFor(w, j)'
  BY <1>0, <1>3 DEF OpensFor
<1>4. Carries(w)
  BY <1>0, <1>2, <1>3 DEF Carries
<1> QED BY <1>0, <1>1, <1>4, JobsAlike, LoopMoves

\* Of a handler that schedules what comes next.
LEMMA Scheduling ==
  ASSUME Before, NEW w \in Workers, pc[w] \in {"schedule", "opened", "failrun"}, NEW j \in Jobs, job[w] = j
  PROVE  /\ Inside(w) /\ j # None /\ j.type \in AgentJobs /\ j # CreateJob
         /\ j.agent \in Agents /\ j.agent # None /\ j.agent \in Here(db)
         /\ j.gen \in Generations /\ j.agent.gen = j.gen /\ db.agents[j.agent] = "COMPLETED"
         /\ view[w] # None => j.agent \in Here(view[w])
<1>1. Inside(w)
  BY DEF Inside
<1>2. j # None /\ j.type \in AgentJobs /\ j.agent \in Here(db) /\ j.gen \in Generations
  BY <1>1, InsideFits DEF Before
<1>3. j # CreateJob
  BY <1>2 DEF CreateJob, Job, AgentJobs
<1>4. j.agent \in Agents /\ j.agent # None /\ j.agent.gen = j.gen
  BY <1>2, TypeSays, NoneAssumption
<1>5. db.agents[j.agent] = "COMPLETED"
  BY <1>2, <1>4 DEF Before, Results, OwnRows
<1>6. view[w] # None => j.agent \in Here(view[w])
  BY <1>4 DEF Before, RunInv, WorkerFits, JobFits
<1> QED BY <1>1, <1>2, <1>3, <1>4, <1>5, <1>6

\* It hands its job on well if what follows of its generation does.
LEMMA ScheduledWell ==
  ASSUME Before, NEW w \in Workers, pc[w] \in {"schedule", "opened", "failrun"}, NEW j \in Jobs, job[w] = j,
         db'.agents[j.agent] = "COMPLETED", db'.gens = db.gens,
         j.gen = Current => GoesOnFrom(j)'
  PROVE  HandsWell(j)
<1>1. Current' = Current
  BY DEF Current, Latest
<1> QED BY <1>1, Scheduling DEF HandsWell

\* The run it has read is over.
LEMMA OverSeen ==
  ASSUME Before, NEW w \in Workers, view[w] # None, view[w].status \in Over,
         UNCHANGED <<db, jobs>>, NEW j \in Jobs, job[w] = j, j.gen = Current
  PROVE  GoesOnFrom(j)'
<1>1. Excused(j)
  BY DEF Before, Handed, Excuses, ViewExcused, IsOf
<1>2. ExcuseIsEnough'
  BY ExcusedGoesOn, PTL
<1>3. Current' = Current /\ (Excused(j)' <=> Excused(j))
  BY DEF Excused, IsOver, Known, Current, Latest
<1> QED BY <1>1, <1>2, <1>3 DEF ExcuseIsEnough

LEMMA MaybeScheduleJudgingMoves ==
  ASSUME Before, NEW w \in Workers, MaybeScheduleJudging(w)
  PROVE  Onward
<1>0. pc[w] = "schedule" /\ view[w] # None /\ job[w].type = "RUN_RESEARCH_AGENT" /\ Inside(w)
  BY DEF MaybeScheduleJudging, At, Inside
<1>1. PICK j \in Jobs : j = job[w]
  BY <1>0, InsideHolds
<1>2. PICK g \in Generations : g = j.gen
  BY <1>0, <1>1, Scheduling
<1>3. PICK v \in Reads(w) :
        IF v.status # "RESEARCHING" \/ ~IsLatest(v, g) THEN Return(w, "settle", {})
        ELSE IF SomeFailed(v, Researchers(g)) THEN Return(w, "failrun", {})
        ELSE IF ResearchComplete(v, g) THEN Return(w, "enqueue", {StartJudgingJob(g)})
        ELSE Return(w, "settle", {})
  BY <1>1, <1>2 DEF MaybeScheduleJudging
<1>4. /\ v \in Database /\ v.status = view[w].status /\ v.status # "NONE"
      /\ AgentsStand(view[w], v) /\ ResultsFit(v) /\ StatusFits(view[w])
  BY <1>0, ReadsFit, ReadsStand DEF Before
<1>5. PICK where \in {"settle", "failrun", "enqueue"}, keys \in {{}, {StartJudgingJob(g)}} :
        Return(w, where, keys) /\ (where = "enqueue" => keys = {StartJudgingJob(g)})
  BY <1>3
<1>6. Goto(w, where, keys) /\ UNCHANGED <<db, jobs, api, job>>
  BY <1>5 DEF Return
<1>7. ASSUME j.gen = Current, Enough(view[w], j), where \in {"settle", "enqueue"} PROVE GoesOnFrom(j)'
  <2>1. IsLatest(v, g) /\ view[w].gens = db.gens /\ db.gens > 0 /\ v.status \in RunStatus
    BY <1>0, <1>1, <1>2, <1>4, <1>7, SeenLatest, Scheduling, GensType
  <2>2. CASE v.status \in Over
    BY <1>0, <1>1, <1>4, <1>6, <1>7, <2>2, OverSeen
  <2>3. CASE v.status = "CREATED"
    BY <1>4, <2>1, <2>3 DEF StatusFits
  <2>4. CASE v.status = "JUDGING"
    <3>1. Known(StartJudgingJob(g))
      BY <1>0, <1>2, <1>4, <1>7, <2>1, <2>4 DEF Before, Handed, StageKnown
    <3>2. Promised(StartJudgingJob(g))'
      BY <3>1, <1>6 DEF Promised, Known
    <3> QED BY <3>2, <1>0, <1>1, <1>2 DEF GoesOnFrom, ResearchGoesOn
  <2>5. CASE v.status = "RESEARCHING"
    <3>1. \A a \in Researchers(g) : v.agents[a] \in {"COMPLETED", "FAILED"}
      <4>1. ResearchComplete(view[w], g)
        BY <1>0, <1>1, <1>2, <1>7 DEF Enough
      <4> QED BY <4>1, <1>4, AgentSets DEF ResearchComplete, AllCompleted, AgentsStand
    <3>2. SomeFailed(v, Researchers(g)) \/ ResearchComplete(v, g)
      <4> SUFFICES ASSUME ~SomeFailed(v, Researchers(g)) PROVE ResearchComplete(v, g)
        OBVIOUS
      <4>1. ASSUME NEW a \in Researchers(g) PROVE v.agents[a] = "COMPLETED" /\ a \in v.subs
        <5>1. v.agents[a] = "COMPLETED"
          BY <3>1 DEF SomeFailed
        <5>2. a \in Agents /\ a.role = "researcher"
          BY AgentSets, ResearcherParts
        <5> QED BY <5>1, <5>2, <1>4 DEF ResultsFit, Answered
      <4> QED BY <4>1 DEF ResearchComplete, AllCompleted, SubsOf
    <3>3. CASE SomeFailed(v, Researchers(g))
      <4>1. pc'[w] = "failrun"
        BY <1>3, <2>1, <2>5, <3>3 DEF Return, Goto, Before, RunInv, Loop, LoopInv, LoopTyped
      <4>2. pc'[w] = where
        BY <1>6 DEF Goto, Before, RunInv, Loop, LoopInv, LoopTyped
      <4> QED BY <4>1, <4>2, <1>7
    <3>4. CASE ~SomeFailed(v, Researchers(g))
      <4>1. Return(w, "enqueue", {StartJudgingJob(g)})
        BY <1>3, <2>1, <2>5, <3>2, <3>4
      <4>2. StartJudgingJob(g) \in todo'[w]
        BY <4>1 DEF Return, Goto, Before, RunInv, Loop, LoopInv, LoopTyped
      <4>3. Promised(StartJudgingJob(g))'
        BY <4>2 DEF Promised
      <4> QED BY <4>3, <1>0, <1>1, <1>2 DEF GoesOnFrom, ResearchGoesOn
    <3> QED BY <3>3, <3>4
  <2> QED BY <1>4, <2>1, <2>2, <2>3, <2>4, <2>5 DEF RunStatus, Over
<1>8. where \in {"settle", "enqueue"} => HandedOn(j) \/ HandsWell(j)
  <2>1. CASE Enough(view[w], j)
    <3>1. db'.agents[j.agent] = "COMPLETED" /\ db'.gens = db.gens
      BY <1>0, <1>1, <1>6, Scheduling
    <3> QED BY <3>1, <1>0, <1>1, <1>7, <2>1, ScheduledWell
  <2>2. CASE ~Enough(view[w], j)
    BY <1>0, <1>1, <2>2 DEF HandedOn, HandsOn
  <2> QED BY <2>1, <2>2
<1>9. \A h \in Generations : FinalizeJob(h) \notin keys
  BY DEF FinalizeJob, StartJudgingJob, Job
<1>10. Moves
  BY <1>0, <1>1, <1>6, <1>8, <1>9, GotoMoves
<1> QED BY <1>6, <1>10, StaysProceeds DEF Onward, Here

LEMMA FailRunMoves ==
  ASSUME Before, NEW w \in Workers, FailRun(w)
  PROVE  Onward
<1>0. pc[w] = "failrun" /\ view[w] # None /\ Inside(w) /\ db \in Database
  BY DEF FailRun, At, Inside, Before, RunInv
<1>1. PICK j \in Jobs : j = job[w]
  BY <1>0, InsideHolds
<1>2. PICK v \in Reads(w) : IF v.status \in Over THEN Return(w, "settle", {})
                            ELSE CommitStatus(w, db, "FAILED", "settle", {})
  BY DEF FailRun
<1>3. CASE Return(w, "settle", {}) /\ v.status \in Over
  <2>1. view[w].status \in Over
    BY <1>0, <1>3, ReadsFit DEF Before
  <2>2. job[w] # CreateJob
    BY <1>0, <1>1, Scheduling
  <2> QED BY <1>0, <1>3, <2>1, <2>2, GivesUpMoves
<1>4. CASE Raise(w)
  BY <1>0, <1>4, RaiseMoves
<1>5. CASE Commit(w, [db EXCEPT !.status = "FAILED"], "settle", {})
  <2>1. /\ db' = [db EXCEPT !.status = "FAILED"] /\ Goto(w, "settle", {}) /\ UNCHANGED <<jobs, api, job>>
    BY <1>5 DEF Commit
  <2>2. db'.gens = db.gens /\ Here(db') = Here(db) /\ db'.status = "FAILED" /\ db'.agents = db.agents
    BY <2>1, <1>0 DEF Database, Here
  <2>3. GoesOnFrom(j)'
    BY <2>2 DEF GoesOnFrom, IsOver, Over
  <2>4. HandsWell(j)
    BY <1>0, <1>1, <2>2, <2>3, Scheduling, ScheduledWell
  <2>5. Moves
    BY <1>0, <1>1, <2>1, <2>4, GotoMoves
  <2>6. db'.status \in {db.status} \union Over
    BY <2>2 DEF Over
  <2> QED BY <2>2, <2>5, <2>6, StaysProceeds DEF Onward
<1> QED BY <1>2, <1>3, <1>4, <1>5, CommitStatusIs

LEMMA ReportFailureMoves ==
  ASSUME Before, NEW w \in Workers, ReportFailure(w)
  PROVE  Onward
<1> DEFINE a == job[w].agent
<1>0. pc[w] = "terminal" /\ view[w] # None /\ UNCHANGED <<jobs, api, budget>> /\ db \in Database
  BY DEF ReportFailure, At, Before, RunInv
<1>1. /\ job[w] # None /\ job[w] \in Jobs /\ jobs[job[w]].status = "failed" /\ todo[w] = {}
      /\ pc \in [Workers -> UnitsOfWork \union Between] /\ todo \in [Workers -> SUBSET Jobs]
      /\ view \in [Workers -> Database \union {None}] /\ job \in [Workers -> Jobs \union {None}]
  BY <1>0 DEF Before, Calm, RunInv, Loop, LoopInv, LoopTyped, LoopOK, Exclusive
<1>2. PICK v \in Reads(w) :
        IF v.status \in Over THEN UNCHANGED db /\ Drop(w, "idle")
        ELSE \E seen \in {v, db} :
          IF "FAILED" \notin Allowed[seen.status] THEN UNCHANGED db /\ Drop(w, "dead")
          ELSE /\ db' = [IF a = None THEN db ELSE AgentUpdates(db, v, a, "FAILED")
                           EXCEPT !.status = "FAILED"]
               /\ Drop(w, "idle")
  BY DEF ReportFailure
<1>3. v \in Database /\ v.status = view[w].status /\ v.status # "NONE" /\ v.status \in RunStatus
  BY <1>0, ReadsFit, GensType DEF Before
<1>4. CASE v.status \in Over
  <2>1. UNCHANGED db /\ Drop(w, "idle")
    BY <1>2, <1>4
  <2>2. IsOf(job[w]) => Excused(job[w])
    <3>1. PICK j \in Jobs : j = job[w]
      BY <1>1
    <3>2. IsOf(j) => Excused(j)
      BY <1>0, <1>3, <1>4, <3>1 DEF Before, Handed, Excuses, ViewExcused
    <3> QED BY <3>1, <3>2
  <2> QED BY <1>0, <1>1, <2>1, <2>2, DropMoves, JobsAlike
<1>5. ASSUME v.status \notin Over, NEW seen \in {v, db}, "FAILED" \notin Allowed[seen.status],
             UNCHANGED db, Drop(w, "dead")
      PROVE  Onward
  <2>1. v.status \in {"CREATED", "RESEARCHING", "JUDGING"}
    BY <1>3, <1>5 DEF RunStatus, Over
  <2>2. \A s \in {"CREATED", "RESEARCHING", "JUDGING"} : "FAILED" \in Allowed[s]
    BY DEF Allowed, RunStatus
  <2>3. db.status # "NONE" /\ db.status \in RunStatus
    <3>1. Behind(v, db)
      BY <1>0, ReadsFit DEF Before
    <3> QED BY <3>1, <1>0, <1>3, GensType DEF Behind
  <2>4. db.status \in Over
    BY <1>5, <2>1, <2>2, <2>3 DEF RunStatus, Over
  <2> QED BY <1>0, <1>1, <1>5, <2>4, DropMoves, JobsAlike DEF IsOver
<1>6. ASSUME Drop(w, "idle"),
             db' = [IF a = None THEN db ELSE AgentUpdates(db, v, a, "FAILED") EXCEPT !.status = "FAILED"]
      PROVE  Onward
  <2>1. db'.gens = db.gens /\ Here(db') = Here(db) /\ db'.status = "FAILED"
    <3>1. CASE a = None
      <4>1. db' = [db EXCEPT !.status = "FAILED"]
        BY <1>6, <3>1
      <4> QED BY <4>1, <1>0 DEF Database, Here
    <3>2. CASE a # None
      <4> DEFINE e == AgentUpdates(db, v, a, "FAILED")
      <4>1. a \in Here(db)
        BY <1>1, <3>2, HolderFits DEF Before, JobFits
      <4>2. e \in Database /\ Here(e) = Here(db) /\ e.gens = db.gens
        BY <1>0, <4>1, AgentUpdatesKeep DEF AgentStatus
      <4>3. db' = [e EXCEPT !.status = "FAILED"]
        BY <1>6, <3>2
      <4> HIDE DEF e
      <4> QED BY <4>2, <4>3 DEF Database, Here
    <3> QED BY <3>1, <3>2
  <2>2. job'[w] = None /\ todo'[w] = {} /\ None \notin Jobs
    BY <1>1, <1>6, RunSetting DEF Drop, Goto, Setting
  <2>3. \A u \in Workers \ {w} : Unmoved(u)
    BY <1>1, <1>6 DEF Drop, Goto, Unmoved
  <2>4. IsOver'
    BY <2>1 DEF IsOver, Over
  <2>5. Carries(w)
    BY <1>0, <1>1, <2>2, <2>4 DEF Carries
  <2>6. \A u \in Workers \ {w} : Carries(u)
    BY <2>3, UnmovedCarries DEF Before
  <2>7. Moves
    BY <1>0, <2>5, <2>6, JobsAlike DEF Moves
  <2>8. db'.status \in {db.status} \union Over
    BY <2>1 DEF Over
  <2> QED BY <2>1, <2>7, <2>8, StaysProceeds DEF Onward
<1> QED BY <1>2, <1>4, <1>5, <1>6

-----------------------------------------------------------------------------
(* The units of work that move the run on.                                 *)

\* What will be enqueued is promised.
LEMMA KeysPromised ==
  ASSUME Before, NEW w \in Workers, NEW where, NEW keys, Goto(w, where, keys)
  PROVE  (\A k \in keys : Promised(k)') /\ view'[w] = None /\ pc'[w] = where
<1>1. /\ pc \in [Workers -> UnitsOfWork \union Between] /\ todo \in [Workers -> SUBSET Jobs]
      /\ view \in [Workers -> Database \union {None}]
  BY DEF Before, RunInv, Loop, LoopInv, LoopTyped
<1>2. todo'[w] = keys /\ view'[w] = None /\ pc'[w] = where
  BY <1>1 DEF Goto
<1> QED BY <1>2 DEF Promised

LEMMA CreateHandsWell ==
  ASSUME db'.gens > 0
  PROVE  HandsWell(CreateJob)
BY DEF HandsWell, GoesOnFrom, CreateJob, Job

\* The researchers of a generation that comes to be have their jobs promised.
LEMMA ResearchersPromised ==
  ASSUME NEW g \in Generations, \A a \in Researchers(g) : Promised(ResearchJob(a))',
         Here(db') = Here(db) \union Researchers(g)
  PROVE  \A j \in Jobs : (j.agent # None /\ j.agent \in Here(db') \ Here(db)) => Promised(j)'
<1> SUFFICES ASSUME NEW j \in Jobs, j.agent # None, j.agent \in Here(db') \ Here(db)
             PROVE  Promised(j)'
  OBVIOUS
<1>1. PICK a \in Researchers(g) : a = j.agent
  OBVIOUS
<1>2. ResearchJob(a) \in Jobs /\ ResearchJob(a).agent = a
  BY StageJobs
<1>3. j = ResearchJob(a)
  BY <1>1, <1>2, OneJobPerAgent
<1> QED BY <1>3

LEMMA StartRunMoves ==
  ASSUME Before, NEW w \in Workers, StartRun(w)
  PROVE  Onward
<1>0. pc[w] = "create" /\ view[w] # None /\ Inside(w) /\ db \in Database /\ job[w] = CreateJob
  BY InsideFits DEF StartRun, At, Inside, Before, RunInv
<1> DEFINE keys == {ResearchJob(a) : a \in Researchers(0)}
           new == [db EXCEPT !.gens = 1, !.agents = Spawned(@, Researchers(0))]
<1>1. PICK v \in Reads(w) :
        LET first == IF v.gens > 0 THEN db ELSE new
        IN  IF v.status = "FAILED" \/ (v.gens = 0 /\ db.gens > 0) THEN Raise(w)
            ELSE IF v.status = "CREATED" THEN CommitStatus(w, first, "RESEARCHING", "enqueue", keys)
            ELSE IF v.status = "COMPLETED" THEN Commit(w, first, "settle", {})
            ELSE Commit(w, first, "enqueue", keys)
  BY DEF StartRun
<1> HIDE DEF keys, new
<1>2. /\ v \in Database /\ view[w] \in Database /\ Behind(view[w], v) /\ Behind(v, db)
      /\ v.status = view[w].status /\ v.status # "NONE" /\ StatusFits(view[w])
  BY <1>0, ReadsFit DEF Before, RunInv, WorkerFits
<1>3. /\ v.gens \in Nat /\ db.gens \in Nat /\ view[w].gens \in Nat /\ v.status \in RunStatus
      /\ view[w].gens <= v.gens /\ v.gens <= db.gens /\ (view[w].gens = 0 => db.gens = 0)
  BY <1>0, <1>2, GensType DEF Behind, Before, Knows, SeesJudges
<1>4. CASE Raise(w)
  BY <1>0, <1>4, RaiseMoves
<1>5. CASE v.gens > 0 /\ ~Raise(w)
  <2>1. view[w].gens > 0 /\ v.status # "CREATED" /\ v.status # "FAILED"
    BY <1>1, <1>2, <1>3, <1>5 DEF StatusFits
  <2>2. \E where \in {"settle", "enqueue"}, k \in {{}, keys} : Commit(w, db, where, k)
    BY <1>1, <1>3, <1>5, <2>1
  <2>3. PICK where \in {"settle", "enqueue"}, k \in {{}, keys} : Commit(w, db, where, k)
    BY <2>2
  <2>4. Goto(w, where, k) /\ UNCHANGED <<db, jobs, api, job>>
    BY <2>3 DEF Commit
  <2>5. HandsWell(CreateJob)
    BY <1>3, <1>5, <2>4, CreateHandsWell
  <2>6. \A g \in Generations : FinalizeJob(g) \notin k
    BY DEF keys, FinalizeJob, ResearchJob, Job
  <2>7. Moves
    BY <1>0, <2>4, <2>5, <2>6, GotoMoves
  <2> QED BY <2>4, <2>7, StaysProceeds DEF Onward, Here
<1>6. CASE ~(v.gens > 0) /\ ~Raise(w)
  <2>1. v.gens = 0 /\ view[w].gens = 0 /\ db.gens = 0
    BY <1>3, <1>6
  <2>2. v.status = "CREATED"
    <3>1. MaxGenerations # 0
      BY RunCreateAssumption
    <3> QED BY <1>1, <1>2, <1>3, <1>6, <2>1, <3>1 DEF StatusFits, RunStatus
  <2>3. CommitStatus(w, new, "RESEARCHING", "enqueue", keys)
    BY <1>1, <1>3, <1>6, <2>1, <2>2
  <2>4. Commit(w, [new EXCEPT !.status = "RESEARCHING"], "enqueue", keys)
    BY <1>6, <2>3, CommitStatusIs
  <2>5. /\ db' = [new EXCEPT !.status = "RESEARCHING"] /\ Goto(w, "enqueue", keys)
        /\ UNCHANGED <<jobs, api, job>>
    BY <2>4 DEF Commit
  <2>6. 0 \in Generations /\ Researchers(0) \subseteq Agents
    BY GenerationsType, AgentSets
  <2>7. db'.gens = 1 /\ db'.status = "RESEARCHING" /\ db'.agents = Spawned(db.agents, Researchers(0))
    BY <1>0, <2>5 DEF Database, new
  <2>8. Here(db') = Here(db) \union Researchers(0)
    BY <2>6, <2>7 DEF Here, Spawned
  <2>9. \A a \in Researchers(0) : Promised(ResearchJob(a))'
    BY <2>5, KeysPromised DEF keys
  <2>10. NextGeneration
    BY <2>1, <2>6, <2>7, <2>8, <2>9, ResearchersPromised DEF NextGeneration
  <2>11. HandsWell(CreateJob)
    BY <2>7, CreateHandsWell
  <2>12. \A g \in Generations : FinalizeJob(g) \notin keys
    BY DEF keys, FinalizeJob, ResearchJob, Job
  <2>13. Moves
    BY <1>0, <2>5, <2>11, <2>12, GotoMoves
  <2> QED BY <2>10, <2>13 DEF Onward, Proceeds
<1> QED BY <1>4, <1>5, <1>6

\* A job of no agent is handed on well if it is not of the current generation
\* any more, or what must hold of that holds.
LEMMA AgentlessHandsWell ==
  ASSUME NEW j \in Jobs, j # CreateJob, j.agent = None, (j.gen = Current)' => GoesOnFrom(j)'
  PROVE  HandsWell(j)
BY DEF HandsWell

\* A worker that looks at the job of the current generation sees all its judges,
\* and where it has read that the run is being researched, it sees none.
LEMMA NothingJudgedYet ==
  ASSUME Before, NEW w \in Workers, pc[w] = "judging", view[w] # None, NEW v \in Reads(w),
         v.status = "RESEARCHING", IsLatest(v, job[w].gen), view'[w] = None
  PROVE  job[w].gen = Current /\ NothingJudged
<1>0. Inside(w) /\ job[w] = StartJudgingJob(job[w].gen)
  BY InsideFits DEF Inside, Before
<1>1. PICK g \in Generations : g = job[w].gen
  BY <1>0, InsideHolds
<1>2. /\ job[w] # CreateJob /\ g \in Nat /\ job[w] \in Jobs /\ job[w] # None
      /\ jobs[job[w]].status = "running" /\ Known(job[w]) /\ Owns(w)
  BY <1>0, <1>1, InsideHolds, GenerationsType DEF CreateJob, StartJudgingJob, Job
<1>3. /\ v \in Database /\ Behind(view[w], v) /\ Behind(v, db) /\ v.status = view[w].status
      /\ view[w] \in Database /\ JobFits(job[w], view[w]) /\ Shape(db) /\ db \in Database
  BY ReadsFit DEF Before, RunInv, WorkerFits
<1>4. /\ v.gens \in Nat /\ view[w].gens \in Nat /\ db.gens \in Nat
      /\ g < view[w].gens /\ g = v.gens - 1 /\ view[w].gens <= v.gens /\ v.gens <= db.gens
  BY <1>1, <1>2, <1>3, GensType DEF JobFits, IsLatest, Latest, Behind
<1>5. SeesJudges(w)
  BY DEF Before, Knows
<1>6. ASSUME NEW a \in Here(db), a.role = "judge", a.gen = g PROVE FALSE
  <2>1. a \in Here(view[w]) /\ NoJudgeYet(view[w])
    BY <1>1, <1>5, <1>6 DEF SeesJudges
  <2>2. Latest(view[w]) = g
    BY <1>4 DEF Latest
  <2> QED BY <1>3, <1>6, <2>1, <2>2 DEF NoJudgeYet
<1>7. ~JudgesFollow(db, g)
  <2> SUFFICES ASSUME JudgesFollow(db, g) PROVE FALSE
    OBVIOUS
  <2>1. PICK c \in Copies : Agent(g, "judge", 1, c) \in Here(db)
    BY DEF JudgesFollow, JudgeCount
  <2> QED BY <1>6, <2>1 DEF Agent
<1>8. g = Current
  <2>1. ~(g + 1 < db.gens)
    BY <1>1, <1>3, <1>7 DEF Shape
  <2> QED BY <1>2, <1>4, <2>1 DEF Current, Latest
<1>9. ASSUME NEW a \in Here(db), a.gen = g PROVE a.role = "researcher"
  <2>1. a.role \in {"researcher", "judge", "critic"}
    <3>1. PICK h \in Generations : a \in Researchers(h) \/ a \in JudgesOf(h) \/ a \in CriticsOf(h)
      BY DEF Here, Agents
    <3> QED BY <3>1, ResearcherParts, JudgeParts, CriticParts
  <2>2. a.role # "critic"
    BY <1>7, <1>9 DEF Before, Results, ResultsFit, JudgesAnswered
  <2> QED BY <1>6, <1>9, <2>1, <2>2
<1>10. ASSUME NEW u \in Workers, job[u] = StartJudgingJob(g) PROVE ~HandsOn(u) /\ view'[u] = None
  <2>1. job[u] = job[w]
    BY <1>0, <1>1, <1>10
  <2>2. pc[u] # "terminal" /\ Owns(u)
    BY <1>2, <2>1 DEF Before, Calm, RunInv, Loop, LoopInv, Exclusive
  <2>3. u = w
    BY <1>2, <2>1, <2>2 DEF Owns
  <2> QED BY <2>3 DEF HandsOn
<1>11. db.gens > 0 /\ StartJudgingJob(g) = job[w]
  BY <1>0, <1>1, <1>2, <1>4
<1> QED BY <1>1, <1>2, <1>8, <1>9, <1>10, <1>11 DEF NothingJudged

LEMMA StartJudgingMoves ==
  ASSUME Before, NEW w \in Workers, StartJudging(w)
  PROVE  Onward
<1>0. /\ pc[w] = "judging" /\ view[w] # None /\ Inside(w) /\ db \in Database
      /\ job[w] = StartJudgingJob(job[w].gen)
  BY InsideFits DEF StartJudging, At, Inside, Before, RunInv
<1> DEFINE g == job[w].gen
<1>4. PICK v \in Reads(w) :
        \/ v.status = "COMPLETED" /\ Return(w, "settle", {})
        \/ Raise(w)
        \/ ~IsLatest(v, g) /\ Return(w, "settle", {})
        \/ /\ v.status \in {"RESEARCHING", "JUDGING"} /\ IsLatest(v, g)
           /\ ResearchComplete(v, g) /\ Added(w, v) \subseteq JudgesOf(g)
           /\ IF v.status = "RESEARCHING"
                THEN CommitStatus(w, Judging(w, v), "JUDGING", ThenEnqueue(ToJudge(w, v)), ToJudge(w, v))
                ELSE Commit(w, Judging(w, v), ThenEnqueue(ToJudge(w, v)), ToJudge(w, v))
  <2>1. PICK v \in Reads(w) :
        LET h == job[w].gen
            missing == MissingJudges(v, h)
            added == {Agent(h, "judge", i, Cardinality(JudgeCopies(db, h, i)) + 1) : i \in missing}
            kept == {Agent(h, "judge", i, CHOOSE c \in JudgeCopies(v, h, i) : TRUE) :
                       i \in 1..JudgeCount \ missing}
            new == [db EXCEPT !.agents = Spawned(@, added)]
            keys == {JudgeJob(a) : a \in JudgesToRun(added, kept)}
        IN  IF v.status = "COMPLETED" THEN Return(w, "settle", {})
            ELSE IF v.status \notin {"RESEARCHING", "JUDGING"} THEN Raise(w)
            ELSE IF ~IsLatest(v, h) THEN Return(w, "settle", {})
            ELSE IF ~ResearchComplete(v, h) THEN Raise(w)
            ELSE /\ added \subseteq JudgesOf(h)
                 /\ IF v.status = "RESEARCHING"
                      THEN CommitStatus(w, new, "JUDGING", ThenEnqueue(keys), keys)
                      ELSE Commit(w, new, ThenEnqueue(keys), keys)
    BY DEF StartJudging
  <2>2. Missing(w, v) = MissingJudges(v, job[w].gen)
    BY DEF Missing
  <2> QED BY <2>1, <2>2, Zenon DEF Added, Kept, Judging, ToJudge, JudgesToRun
<1> HIDE DEF g
<1>1. g \in Generations /\ g = job[w].gen
  BY <1>0, InsideHolds DEF g
<1>2. PICK j \in Jobs : j = job[w]
  BY <1>0, InsideHolds
<1>3. /\ j = StartJudgingJob(g) /\ j # CreateJob /\ j.agent = None /\ j.gen = g
      /\ j.type = "START_JUDGING" /\ Known(j)
  BY <1>0, <1>1, <1>2, InsideHolds DEF CreateJob, StartJudgingJob, Job
<1>5. v.status = view[w].status
  BY <1>0, ReadsFit DEF Before
<1>6. CASE v.status = "COMPLETED" /\ Return(w, "settle", {})
  BY <1>0, <1>2, <1>3, <1>5, <1>6, GivesUpMoves DEF Over
<1>7. CASE Raise(w)
  BY <1>0, <1>7, RaiseMoves
<1>8. CASE ~IsLatest(v, g) /\ Return(w, "settle", {})
  <2>1. Goto(w, "settle", {}) /\ UNCHANGED <<db, jobs, api, job>>
    BY <1>8 DEF Return
  <2>2. g # Current
    BY <1>0, <1>1, <1>2, <1>3, <1>8, SeenLatest
  <2>3. Current' = Current
    BY <2>1 DEF Current, Latest
  <2>4. HandsWell(j)
    BY <1>3, <2>2, <2>3, AgentlessHandsWell
  <2>5. Moves
    BY <1>0, <1>2, <2>1, <2>4, GotoMoves
  <2> QED BY <2>1, <2>5, StaysProceeds DEF Onward, Here
<1>9. CASE /\ v.status \in {"RESEARCHING", "JUDGING"} /\ IsLatest(v, g)
           /\ ResearchComplete(v, g) /\ Added(w, v) \subseteq JudgesOf(g)
           /\ \E st \in {"JUDGING", db.status} :
                /\ st = db.status \/ v.status = "RESEARCHING"
                /\ Commit(w, [Judging(w, v) EXCEPT !.status = st], ThenEnqueue(ToJudge(w, v)), ToJudge(w, v))
  <2> DEFINE e == Judging(w, v)
             keys == ToJudge(w, v)
  <2>1. /\ e \in Database /\ SpawnsJudges(db, e) /\ Here(e) = Here(db) \union Added(w, v)
        /\ keys \in SUBSET Jobs /\ JudgesFollow(e, g) /\ e.gens = db.gens
    BY <1>0, <1>1, <1>9, SpawnsTheJudges DEF Before, SpawnsJudges
  <2>2. \A a \in Added(w, v) : JudgeJob(a) \in keys
    BY DEF ToJudge
  <2>3. \A h \in Generations : FinalizeJob(h) \notin keys
    BY DEF ToJudge, FinalizeJob, JudgeJob, Job
  <2> HIDE DEF e, keys
  <2>4. PICK st \in {"JUDGING", db.status} :
          /\ st = db.status \/ v.status = "RESEARCHING"
          /\ Commit(w, [e EXCEPT !.status = st], ThenEnqueue(keys), keys)
    BY <1>9 DEF e, keys
  <2>5. db' = [e EXCEPT !.status = st] /\ Goto(w, ThenEnqueue(keys), keys) /\ UNCHANGED <<jobs, api, job>>
    BY <2>4 DEF Commit
  <2>6. st \in RunStatus
    BY <1>0, GensType DEF RunStatus
  <2>7. /\ db'.gens = db.gens /\ Here(db') = Here(db) \union Added(w, v) /\ db'.status = st
        /\ JudgesFollow(db', g)
    BY <2>1, <2>5, <2>6, StatusApart DEF Keeps
  <2>8. GoesOnFrom(j)'
    BY <1>3, <2>7 DEF GoesOnFrom
  <2>9. HandsWell(j)
    BY <1>3, <2>8, AgentlessHandsWell
  <2>95. ThenEnqueue(keys) # "opened"
    BY DEF ThenEnqueue
  <2>10. Moves
    BY <1>0, <1>2, <2>3, <2>5, <2>9, <2>95, GotoMoves
  <2>11. (\A k \in keys : Promised(k)') /\ view'[w] = None
    BY <2>5, KeysPromised
  <2>12. ASSUME NEW k \in Jobs, k.agent # None, k.agent \in Here(db') \ Here(db) PROVE Promised(k)'
    <3>1. PICK a \in Added(w, v) : a = k.agent
      BY <2>7, <2>12
    <3>2. a \in JudgesOf(g)
      BY <1>9
    <3>21. JudgeJob(a) \in Jobs /\ JudgeJob(a).agent = a
      BY <1>1, <3>2, StageJobs
    <3>3. k = JudgeJob(a)
      BY <2>12, <3>1, <3>21, OneJobPerAgent
    <3> QED BY <2>2, <2>11, <3>3
  <2>13. CASE st = db.status
    <3>1. SameGeneration
      BY <2>7, <2>12, <2>13 DEF SameGeneration
    <3>2. StaysOver
      BY <2>7, <2>13 DEF StaysOver, IsOver
    <3> QED BY <2>10, <3>1, <3>2 DEF Onward, Proceeds
  <2>14. CASE v.status = "RESEARCHING"
    <3>1. g = Current /\ NothingJudged
      BY <1>0, <1>1, <1>9, <2>11, <2>14, NothingJudgedYet
    <3>2. SameGeneration
      BY <1>3, <2>7, <2>12, <3>1 DEF SameGeneration
    <3> QED BY <2>10, <3>1, <3>2 DEF Onward, Proceeds
  <2> QED BY <2>4, <2>13, <2>14
<1>10. CASE /\ v.status \in {"RESEARCHING", "JUDGING"} /\ IsLatest(v, g)
            /\ ResearchComplete(v, g) /\ Added(w, v) \subseteq JudgesOf(g)
            /\ IF v.status = "RESEARCHING"
                 THEN CommitStatus(w, Judging(w, v), "JUDGING", ThenEnqueue(ToJudge(w, v)), ToJudge(w, v))
                 ELSE Commit(w, Judging(w, v), ThenEnqueue(ToJudge(w, v)), ToJudge(w, v))
  <2>1. CASE v.status = "RESEARCHING"
    BY <1>7, <1>9, <1>10, <2>1, CommitStatusIs
  <2>2. CASE v.status # "RESEARCHING"
    <3>1. Judging(w, v) \in Database /\ Judging(w, v).status = db.status
      BY <1>0, <1>1, <1>10, SpawnsTheJudges DEF Before
    <3>2. Judging(w, v) = [Judging(w, v) EXCEPT !.status = db.status]
      BY <3>1 DEF Database
    <3>3. Commit(w, [Judging(w, v) EXCEPT !.status = db.status], ThenEnqueue(ToJudge(w, v)), ToJudge(w, v))
      BY <1>10, <2>2, <3>2
    <3> QED BY <1>9, <1>10, <3>3
  <2> QED BY <2>1, <2>2
<1> QED BY <1>4, <1>6, <1>7, <1>8, <1>10

LEMMA FinalizeRunMoves ==
  ASSUME Before, NEW w \in Workers, FinalizeRun(w)
  PROVE  Onward
<1>0. /\ pc[w] = "finalize" /\ view[w] # None /\ Inside(w) /\ db \in Database
      /\ job[w] = FinalizeJob(job[w].gen)
  BY InsideFits DEF FinalizeRun, At, Inside, Before, RunInv
<1> DEFINE g == job[w].gen
           verdicts(v) == IF v.verdict[Target(v, g)] = "NONE" THEN VerdictsOn(v, Target(v, g))
                          ELSE {v.verdict[Target(v, g)]}
<1>1. PICK v \in Reads(w) :
        IF v.status \in Over THEN Return(w, "settle", {})
        ELSE IF ~IsLatest(v, g)
          THEN Return(w, "enqueue", {ResearchJob(a) : a \in Researchers(Latest(v))})
        ELSE IF v.status # "JUDGING" \/ ~JudgingComplete(v, g) THEN Raise(w)
        ELSE IF g + 1 = MaxGenerations THEN CompleteRun(w, v, g)
        ELSE Advance(w, v, g)
  BY DEF FinalizeRun
<1>2. CompleteRun(w, v, g) =>
        \/ Raise(w)
        \/ CommitStatus(w, Staged(v, g), "COMPLETED", "settle", {})
        \/ \E verdict \in verdicts(v), seen \in IF Proposed(v, g) THEN {Staged(v, g)} ELSE {v, db} :
             CommitStatus(w, Judgement(v, g, verdict, seen), "COMPLETED", "settle", {})
  BY Zenon DEF CompleteRun, Target, Proposed, Staged, Judgement
<1>3. Advance(w, v, g) =>
        \/ Raise(w)
        \/ /\ ~(v.gens < db.gens)
           /\ \E selected \in Selections(v, g) :
                CommitStatus(w, Bred(g, selected), "RESEARCHING", "enqueue",
                             {ResearchJob(a) : a \in Researchers(g + 1)})
  BY Zenon DEF Advance, Bred, Parents, Clones
<1>4. g \in Generations /\ g = job[w].gen
  BY <1>0, InsideHolds
<1> HIDE DEF g
<1>5. \/ v.status \in Over /\ Return(w, "settle", {})
      \/ Raise(w)
      \/ ~IsLatest(v, g) /\ Return(w, "enqueue", {ResearchJob(a) : a \in Researchers(Latest(v))})
      \/ CompleteRun(w, v, g)
      \/ IsLatest(v, g) /\ g + 1 # MaxGenerations /\ Advance(w, v, g)
  BY <1>1, Zenon
<1>6. PICK j \in Jobs : j = job[w]
  BY <1>0, InsideHolds
<1>7. j = FinalizeJob(g) /\ j # CreateJob /\ j.agent = None /\ j.gen = g
  BY <1>0, <1>4, <1>6 DEF CreateJob, FinalizeJob, Job
<1>8. /\ v.status = view[w].status /\ v \in Database /\ Behind(v, db) /\ v.gens \in Nat /\ db.gens \in Nat
      /\ v.gens <= db.gens /\ g \in Nat
  BY <1>0, <1>4, ReadsFit, GensType, GenerationsType DEF Before, Behind
<1>9. CASE v.status \in Over /\ Return(w, "settle", {})
  BY <1>0, <1>6, <1>7, <1>8, <1>9, GivesUpMoves
<1>10. CASE Raise(w)
  BY <1>0, <1>10, RaiseMoves
<1>11. CASE ~IsLatest(v, g) /\ Return(w, "enqueue", {ResearchJob(a) : a \in Researchers(Latest(v))})
  <2> DEFINE keys == {ResearchJob(a) : a \in Researchers(Latest(v))}
  <2>1. Goto(w, "enqueue", keys) /\ UNCHANGED <<db, jobs, api, job>>
    BY <1>11 DEF Return
  <2>2. g # Current
    BY <1>0, <1>4, <1>6, <1>7, <1>11, SeenLatest
  <2>3. Current' = Current
    BY <2>1 DEF Current, Latest
  <2>4. HandsWell(j)
    BY <1>7, <2>2, <2>3, AgentlessHandsWell
  <2>5. \A h \in Generations : FinalizeJob(h) \notin keys
    BY DEF FinalizeJob, ResearchJob, Job
  <2> HIDE DEF keys
  <2>6. Moves
    BY <1>0, <1>6, <2>1, <2>4, <2>5, GotoMoves
  <2> QED BY <2>1, <2>6, StaysProceeds DEF Onward, Here
<1>12. ASSUME NEW e \in Database, Keeps(db, e), CommitStatus(w, e, "COMPLETED", "settle", {})
       PROVE  Onward
  <2>1. CASE Commit(w, [e EXCEPT !.status = "COMPLETED"], "settle", {})
    <3>1. /\ db' = [e EXCEPT !.status = "COMPLETED"] /\ Goto(w, "settle", {})
          /\ UNCHANGED <<jobs, api, job>> /\ "COMPLETED" \in RunStatus
      BY <2>1 DEF Commit, RunStatus
    <3>2. db'.gens = db.gens /\ Here(db') = Here(db) /\ db'.status = "COMPLETED"
      BY <1>12, <3>1, StatusApart DEF Keeps
    <3>3. GoesOnFrom(j)'
      BY <3>2 DEF GoesOnFrom, IsOver, Over
    <3>4. HandsWell(j)
      BY <1>7, <3>3, AgentlessHandsWell
    <3>5. Moves
      BY <1>0, <1>6, <3>1, <3>4, GotoMoves
    <3>6. db'.status \in {db.status} \union Over
      BY <3>2 DEF Over
    <3> QED BY <3>2, <3>5, <3>6, StaysProceeds DEF Onward
  <2> QED BY <1>10, <1>12, <2>1, CommitStatusIs
<1>13. /\ Target(v, g) \in Submissions /\ Staged(v, g) \in Database /\ Keeps(db, Staged(v, g))
       /\ \A said \in {"PASSED", "FAILED", "INCONCLUSIVE"} : \A other :
            Judgement(v, g, said, other) \in Database /\ Keeps(db, Judgement(v, g, said, other))
  BY <1>0, <1>4, <1>8, JudgementKeeps
<1>14. CASE CompleteRun(w, v, g)
  <2>1. CASE CommitStatus(w, Staged(v, g), "COMPLETED", "settle", {})
    BY <1>12, <1>13, <2>1
  <2>2. ASSUME NEW verdict \in verdicts(v), NEW seen,
               CommitStatus(w, Judgement(v, g, verdict, seen), "COMPLETED", "settle", {})
        PROVE  Onward
    <3>1. verdict \in {"PASSED", "FAILED", "INCONCLUSIVE"}
      BY <1>8, <1>13, <2>2, VerdictsType, Zenon
    <3> HIDE DEF verdicts
    <3> QED BY <1>12, <1>13, <2>2, <3>1
  <2> QED BY <1>2, <1>10, <1>14, <2>1, <2>2
<1>15. ASSUME NEW selected \in Selections(v, g), IsLatest(v, g), g + 1 # MaxGenerations, ~(v.gens < db.gens),
              CommitStatus(w, Bred(g, selected), "RESEARCHING", "enqueue",
                           {ResearchJob(a) : a \in Researchers(g + 1)})
       PROVE  Onward
  <2> DEFINE e == Bred(g, selected)
             keys == {ResearchJob(a) : a \in Researchers(g + 1)}
  <2>1. selected \in Seq(Submissions) /\ Len(selected) > 0
    BY <1>4, <1>8, SelectionType
  <2>2. g + 1 = db.gens /\ g = db.gens - 1
    BY <1>8, <1>15 DEF IsLatest, Latest
  <2>3. g + 1 \in Generations
    BY <1>4, <1>15, RunCreateAssumption DEF Generations
  <2>4. e \in Database /\ e.gens = db.gens + 1 /\ Here(e) = Here(db) \union Researchers(g + 1)
    BY <1>0, <1>4, <1>15, <2>1, <2>2, BreedsTheNext
  <2>5. \A h \in Generations : FinalizeJob(h) \notin keys
    BY DEF FinalizeJob, ResearchJob, Job
  <2>6. CASE Commit(w, [e EXCEPT !.status = "RESEARCHING"], "enqueue", keys)
    <3>1. /\ db' = [e EXCEPT !.status = "RESEARCHING"] /\ Goto(w, "enqueue", keys)
          /\ UNCHANGED <<jobs, api, job>> /\ "RESEARCHING" \in RunStatus
      BY <2>6 DEF Commit, RunStatus
    <3> HIDE DEF e
    <3>2. /\ db'.gens = db.gens + 1 /\ Here(db') = Here(db) \union Researchers(g + 1)
          /\ db'.status = "RESEARCHING"
      BY <2>4, <3>1, StatusApart DEF Keeps
    <3>3. \A a \in Researchers(g + 1) : Promised(ResearchJob(a))'
      BY <3>1, KeysPromised
    <3>4. NextGeneration
      BY <2>3, <3>2, <3>3, ResearchersPromised DEF NextGeneration
    <3>5. (j.gen # Current)'
      BY <1>7, <1>8, <2>2, <3>2 DEF Current, Latest
    <3>6. HandsWell(j)
      BY <1>7, <3>5, AgentlessHandsWell
    <3> HIDE DEF keys
    <3>7. Moves
      BY <1>0, <1>6, <2>5, <3>1, <3>6, GotoMoves
    <3> QED BY <3>4, <3>7 DEF Onward, Proceeds
  <2> QED BY <1>10, <1>15, <2>6, CommitStatusIs
<1>16. CASE IsLatest(v, g) /\ g + 1 # MaxGenerations /\ Advance(w, v, g)
  BY <1>3, <1>10, <1>15, <1>16
<1> QED BY <1>5, <1>9, <1>10, <1>11, <1>14, <1>16

-----------------------------------------------------------------------------
(* What the judge or critic that ends its stage enqueues.                   *)

\* A judge or a critic that finds its stage over sees a run that is over, or that
\* its generation is judged.
LEMMA JudgingSeen ==
  ASSUME Before, NEW w \in Workers, pc[w] = "schedule", view[w] # None, NEW v \in Reads(w),
         NEW j \in Jobs, job[w] = j, j.type \in {"RUN_JUDGE", "RUN_CRITIC"}, j.gen = Current,
         Enough(view[w], j)
  PROVE  \/ v.status \in Over
         \/ /\ v.status = "JUDGING" /\ IsLatest(v, j.gen) /\ JudgesPresent(v, j.gen)
            /\ SomeFailed(v, JudgesOf(j.gen)) \/ JudgingComplete(v, j.gen)
<1>0. /\ Inside(w) /\ j # CreateJob /\ j.agent \in Agents /\ j.agent # None
      /\ j.agent.gen = j.gen /\ j.agent \in Here(view[w])
  BY Scheduling
<1>1. PICK g \in Generations : g = j.gen
  BY Scheduling
<1>2. /\ v \in Database /\ Behind(view[w], v) /\ Shape(v) /\ v.status = view[w].status
      /\ v.status # "NONE" /\ view[w] \in Database /\ v.status \in RunStatus
  BY ReadsFit, GensType DEF Before
<1>3. /\ AgentsStand(view[w], v) /\ ResultsFit(v) /\ ResultsFit(view[w]) /\ OneOfEach(v)
      /\ view[w] \in Reads(w) /\ StatusFits(view[w])
  BY <1>0, ReadsStand
<1>4. IsLatest(v, g) /\ view[w].gens = db.gens /\ v.gens = db.gens /\ db.gens > 0
  BY <1>0, <1>1, SeenLatest
<1>5. JudgesAnswered(view[w], g)
  <2>1. CASE j.type = "RUN_JUDGE"
    <3>1. JudgingComplete(view[w], g)
      BY <1>1, <2>1 DEF Enough
    <3> QED BY <1>3, <3>1, JudgingAnswered DEF Before
  <2>2. CASE j.type = "RUN_CRITIC"
    <3>1. j.agent.role = "critic"
      BY <2>2, TypeSays, CriticParts
    <3> QED BY <1>0, <1>1, <1>3, <3>1 DEF ResultsFit
  <2> QED BY <2>1, <2>2
<1>6. JudgesFollow(view[w], g) /\ JudgesFollow(v, g)
  BY <1>2, <1>5, FollowStill DEF JudgesAnswered, Behind
<1>7. JudgesPresent(v, g)
  BY <1>2, <1>3, <1>6, JudgesAreEnough
<1>8. v.status # "RESEARCHING"
  <2>1. NoJudgeYet(view[w]) /\ Latest(view[w]) = g
    BY <1>1, <1>4 DEF Before, Knows, SeesJudges, Current, Latest
  <2>2. PICK c \in Copies : Agent(g, "judge", 1, c) \in Here(view[w])
    BY <1>6 DEF JudgesFollow, JudgeCount
  <2> QED BY <1>2, <2>1, <2>2 DEF NoJudgeYet, Agent
<1>9. v.status # "CREATED"
  BY <1>2, <1>3, <1>4 DEF StatusFits
<1>10. ASSUME ~SomeFailed(v, JudgesOf(g)) PROVE JudgingComplete(v, g)
  <2>1. ASSUME NEW a \in Present(v, JudgesOf(g)) PROVE v.agents[a] = "COMPLETED"
    <3>1. a \in JudgesOf(g) /\ a \in Here(v) /\ a \in Agents
      BY <2>1, AgentSets DEF Present, Here
    <3>2. a = Agent(g, "judge", a.index, a.copy) /\ a.index \in 1..JudgeCount /\ a.copy \in Copies
      BY <3>1, JudgeParts
    <3>3. PICK c \in Copies : Agent(g, "judge", a.index, c) \in Here(view[w])
      BY <1>6, <3>2 DEF JudgesFollow
    <3>4. Agent(g, "judge", a.index, c) \in Here(v)
      BY <1>2, <3>3 DEF Behind
    <3>5. c \in JudgeCopies(v, g, a.index) /\ a.copy \in JudgeCopies(v, g, a.index)
      BY <3>1, <3>2, <3>4, CopiesHere
    <3>6. a \in Here(view[w])
      BY <1>3, <3>2, <3>3, <3>5 DEF OneOfEach
    <3>7. view[w].agents[a] \in {"COMPLETED", "FAILED"}
      BY <1>5, <3>1, <3>6 DEF JudgesAnswered
    <3>8. v.agents[a] # "FAILED"
      BY <1>10, <3>1 DEF SomeFailed
    <3> QED BY <1>3, <3>1, <3>7, <3>8 DEF AgentsStand
  <2> QED BY <1>2, <1>3, <1>6, <2>1, JudgesComplete DEF AllCompleted
<1> QED BY <1>1, <1>2, <1>4, <1>7, <1>8, <1>9, <1>10 DEF RunStatus, Over

\* Where the critics of the first opening have answered, and no others are
\* there, there are as many findings as critics.
LEMMA AllAnswers ==
  ASSUME NEW d, FindingsFit(d), NEW g, Heard(d, g),
         \A x \in Answers(d, g) : x.critic \in FirstCritics(g)
  PROVE  Cardinality(Answers(d, g)) = CriticCount
<1> DEFINE T == Answers(d, g)
           h == [x \in T |-> x.critic]
<1>1. IsFiniteSet(T)
  BY FewAnswers
<1>2. \A a \in FirstCritics(g) : \E x \in T : h[x] = a
  <2> SUFFICES ASSUME NEW a \in FirstCritics(g) PROVE \E x \in T : x.critic = a
    OBVIOUS
  <2>1. PICK x \in d.finds : x.critic = a
    BY DEF Heard
  <2> QED BY <2>1, FirstCriticParts DEF Answers
<1>3. h \in Injection(T, FirstCritics(g))
  BY DEF Injection, IsInjective, FindingsFit, Answers
<1> HIDE DEF T, h
<1>4. h \in Bijection(T, FirstCritics(g))
  BY <1>2, <1>3 DEF Bijection, Surjection, Injection
<1>5. Cardinality(T) = CriticCount
  BY <1>1, <1>4, CriticsCounted, FS_Bijection DEF ExistsBijection
<1> QED BY <1>5 DEF T

\* Once a critic of the current generation has failed, the run is over.
LEMMA FailedCritic ==
  ASSUME Before, NEW g \in Generations, g = Current, NEW a \in CriticsOf(g), db.agents[a] = "FAILED"
  PROVE  IsOver
<1>1. a \in Agents
  BY AgentSets
<1>2. /\ CriticJob(a) \in Jobs /\ CriticJob(a).agent = a /\ a # None /\ CriticJob(a).gen = Current
      /\ CriticJob(a).type = "RUN_CRITIC"
  BY <1>1, StageJobs, NoneAssumption
<1>3. Excused(CriticJob(a))
  BY <1>2 DEF Before, Handed, Excuses, IsOf, AgentExcused
<1> QED BY <1>2, <1>3 DEF Excused, CreateJob, Job

\* A critic that finds its stage over counts every answer, unless there are
\* critics twice; and if it then sees a critic that has not completed, that one
\* has failed since, and with it the run.
LEMMA CriticsSeen ==
  ASSUME Before, NEW w \in Workers, pc[w] = "schedule", view[w] # None, NEW v \in Reads(w),
         NEW j \in Jobs, job[w] = j, j.type = "RUN_CRITIC", j.gen = Current, Enough(view[w], j)
  PROVE  \/ CriticsTwice(db, j.gen)
         \/ /\ Cardinality(Answers(v, j.gen)) = CriticCount
            /\ Pending(v, j.gen) # {} => IsOver
<1> SUFFICES ASSUME ~CriticsTwice(db, j.gen)
             PROVE  /\ Cardinality(Answers(v, j.gen)) = CriticCount
                    /\ Pending(v, j.gen) # {} => IsOver
  OBVIOUS
<1>0. Inside(w)
  BY Scheduling
<1>1. PICK g \in Generations : g = j.gen
  BY Scheduling
<1>2. /\ v \in Database /\ Behind(view[w], v) /\ Behind(v, db) /\ Record(v) /\ CriticsFit(v)
  BY ReadsFit, ReadsRecord DEF Before
<1>3. /\ AgentsStand(view[w], v) /\ AgentsStand(v, db) /\ ResultsFit(view[w])
  BY <1>0, ReadsStand
<1>4. ASSUME NEW a \in FirstCritics(g)
      PROVE  a \in CriticsOf(g) /\ a \in Agents /\ a.role = "critic" /\ view[w].agents[a] = "COMPLETED"
  <2>1. AllCompleted(view[w], FirstCritics(g))
    BY <1>1 DEF Enough
  <2> QED BY <2>1, AgentSets, CriticParts, FirstCriticParts DEF AllCompleted
<1>5. Heard(v, g)
  <2> SUFFICES ASSUME NEW a \in FirstCritics(g) PROVE \E f \in v.finds : f.critic = a
    BY DEF Heard
  <2>1. Findings(view[w], a) # {}
    BY <1>3, <1>4 DEF ResultsFit, Answered
  <2> QED BY <1>2, <2>1 DEF Findings, Behind
<1>6. ASSUME NEW a \in CriticsOf(g), a \in Here(v) PROVE a \in FirstCritics(g)
  BY <1>1, <1>2, <1>6 DEF CriticsTwice, Present, Here, Behind
<1>7. Cardinality(Answers(v, g)) = CriticCount
  <2>1. \A x \in Answers(v, g) : x.critic \in FirstCritics(g)
    BY <1>2, <1>6 DEF Answers, CriticsFit
  <2> QED BY <1>2, <1>5, <2>1, AllAnswers DEF Record
<1>8. ASSUME NEW a \in Pending(v, g) PROVE IsOver
  <2>1. a \in FirstCritics(g) /\ v.agents[a] # "COMPLETED"
    BY <1>6, <1>8, AgentSets DEF Pending, Present, Here
  <2>2. a \in Agents /\ db.agents[a] = "FAILED"
    BY <1>3, <1>4, <2>1 DEF AgentsStand
  <2> QED BY <1>1, <1>4, <2>1, <2>2, FailedCritic
<1> QED BY <1>1, <1>7, <1>8

\* What follows for the generation of a scheduling worker's job.
LEMMA SchedulesGoOn ==
  ASSUME NEW j \in Jobs, NEW g \in Generations, g = j.gen, j.type \in {"RUN_JUDGE", "RUN_CRITIC"},
         \/ IsOver' \/ Promised(FinalizeJob(g))'
         \/ j.type = "RUN_JUDGE" /\ CriticCount # 0
         \/ j.type = "RUN_CRITIC" /\ CriticsTwice(db', g),
         CriticCount # 0 => FirstCritics(g) \subseteq Here(db')
  PROVE  GoesOnFrom(j)'
<1>1. CASE IsOver'
  BY <1>1 DEF GoesOnFrom
<1>2. CASE (Promised(FinalizeJob(g))' \/ CriticsTwice(db', g)) /\ j.type = "RUN_CRITIC"
  BY <1>2 DEF GoesOnFrom, CriticsGoOn
<1>3. CASE j.type = "RUN_JUDGE" /\ CriticCount # 0
  BY <1>3 DEF GoesOnFrom, JudgingGoesOn
<1>4. CASE Promised(FinalizeJob(g))' /\ j.type = "RUN_JUDGE" /\ CriticCount = 0
  BY <1>4 DEF GoesOnFrom, JudgingGoesOn
<1> QED BY <1>1, <1>2, <1>3, <1>4

\* A worker that has a judge's or a critic's job, and hands it on well if its
\* stage is over as far as it has seen.
LEMMA SettlesMoves ==
  ASSUME Before, NEW w \in Workers, pc[w] \in {"schedule", "opened"}, view[w] # None,
         NEW j \in Jobs, job[w] = j,
         NEW where \in {"settle", "enqueue"}, NEW keys, Goto(w, where, keys), UNCHANGED <<jobs, job, api>>,
         \A h \in Generations : FinalizeJob(h) \in keys => JudgesAnswered(db, h),
         \A k \in Jobs : (k.agent \in Here(db) /\ OpensFor(w, k)) =>
           k \in keys \/ Known(k) \/ IsOver' \/ k.gen # Current,
         db'.agents = db.agents, db'.gens = db.gens,
         (j.gen = Current /\ (pc[w] = "opened" \/ Enough(view[w], j))) => GoesOnFrom(j)'
  PROVE  Moves
<1>1. Inside(w) /\ db.agents[j.agent] = "COMPLETED"
  BY Scheduling
<1>2. CASE pc[w] = "opened" \/ Enough(view[w], j)
  <2>1. HandsWell(j)
    BY <1>1, <1>2, ScheduledWell
  <2> QED BY <1>1, <2>1, GotoMovesAny
<1>3. CASE pc[w] = "schedule" /\ ~Enough(view[w], j)
  <2>1. HandedOn(j)
    BY <1>3 DEF HandedOn, HandsOn
  <2> QED BY <1>1, <2>1, GotoMovesAny
<1> QED BY <1>2, <1>3

\* The critics are heard: the jobs of those that the worker has spawned itself
\* are enqueued, and what the critics found is handed on.
LEMMA ListensMoves ==
  ASSUME Before, NEW w \in Workers, pc[w] \in {"schedule", "opened"}, view[w] # None,
         NEW j \in Jobs, job[w] = j, j.type \in {"RUN_JUDGE", "RUN_CRITIC"}, NEW g \in Generations, g = j.gen,
         NEW r \in Reads(w), NEW f \in Reads(w), Listens(w, r, f, g),
         CriticCount # 0, FirstCritics(g) \subseteq Here(db),
         pc[w] = "opened" => r = view[w] /\ j.type = "RUN_JUDGE"
  PROVE  Onward
<1>0. Inside(w) /\ db \in Database
  BY Scheduling DEF Before, RunInv
<1>1. /\ AgentsStand(r, db) /\ r \in Database
  BY <1>0, ReadsStand, ReadsFit DEF Before
<1>2. JudgesAnswered(db, g)
  <2>1. Agent(g, "critic", 1, 1) \in Here(db) /\ Agent(g, "critic", 1, 1) \in Agents
    BY FirstCriticParts DEF Here
  <2> QED BY <2>1 DEF Before, Results, ResultsFit, Agent
\* The critics that the worker has spawned are seen.
<1>3. ASSUME NEW k \in Jobs, OpensFor(w, k)
      PROVE  /\ k.gen = g /\ k.agent \in CriticsOf(g) /\ k.agent \in Agents /\ k.agent # None
             /\ k = CriticJob(k.agent) /\ k.agent \in Here(r) /\ pc[w] = "opened"
  <2>1. pc[w] = "opened" /\ k.type = "RUN_CRITIC" /\ k.gen = g /\ k.agent \in Here(r)
    BY <1>3 DEF OpensFor
  <2>2. k.agent \in CriticsOf(g) /\ k.agent \in Agents /\ k.agent # None
    BY <2>1, TypeSays, AgentSets, NoneAssumption DEF AgentJobs
  <2>3. CriticJob(k.agent) \in Jobs /\ CriticJob(k.agent).agent = k.agent
    BY <2>2, StageJobs
  <2>4. k = CriticJob(k.agent)
    BY <2>2, <2>3, OneJobPerAgent
  <2> QED BY <2>1, <2>2, <2>4
<1>4. ASSUME NEW k \in Jobs, OpensFor(w, k), k.agent \notin Pending(r, g) PROVE Known(k)
  <2>1. r.agents[k.agent] = "COMPLETED"
    BY <1>3, <1>4 DEF Pending, Present, Here
  <2>2. db.agents[k.agent] \notin {"ABSENT", "PENDING"}
    BY <1>1, <1>3, <1>4, <2>1 DEF AgentsStand
  <2> QED BY <1>3, <1>4, <2>2 DEF Before, Handed, Beginnings
<1>5. ASSUME SomeFailed(r, CriticsOf(g)), Return(w, "failrun", {}) PROVE Onward
  <2>1. Goto(w, "failrun", {}) /\ UNCHANGED <<db, jobs, api, job>>
    BY <1>5 DEF Return
  <2>2. PICK a \in CriticsOf(g) : r.agents[a] = "FAILED"
    BY <1>5 DEF SomeFailed
  <2>3. db.agents[a] = "FAILED"
    BY <1>1, <2>2, AgentSets DEF AgentsStand
  <2>4. g = Current => IsOver'
    BY <2>1, <2>3, FailedCritic DEF IsOver
  <2>5. \A k \in Jobs : OpensFor(w, k) => IsOver' \/ k.gen # Current
    BY <1>3, <2>4
  <2>6. Moves
    BY <1>0, <2>1, <2>5, GotoMovesAny
  <2> QED BY <2>1, <2>6, StaysProceeds DEF Onward, Here
\* It looks only.
<1>6. ASSUME NEW where \in {"settle", "enqueue"}, NEW keys, Return(w, where, keys),
             \A h \in Generations : FinalizeJob(h) \notin keys,
             \A k \in Jobs : OpensFor(w, k) => k \in keys \/ Known(k),
             Pending(r, g) # {} \/ Cardinality(Answers(f, g)) # CriticCount
      PROVE  Onward
  <2>1. Goto(w, where, keys) /\ UNCHANGED <<db, jobs, api, job>>
    BY <1>6 DEF Return
  <2>2. ASSUME j.gen = Current, pc[w] = "opened" \/ Enough(view[w], j) PROVE GoesOnFrom(j)'
    <3>1. FirstCritics(g) \subseteq Here(db')
      BY <2>1
    <3>2. CASE j.type = "RUN_JUDGE"
      BY <3>1, <3>2, SchedulesGoOn
    <3>3. CASE j.type = "RUN_CRITIC"
      <4>1. CriticsTwice(db, g) \/ IsOver
        BY <1>6, <2>2, <3>3, CriticsSeen
      <4>2. CriticsTwice(db', g) \/ IsOver'
        BY <2>1, <4>1 DEF IsOver
      <4> QED BY <3>1, <3>3, <4>2, SchedulesGoOn
    <3> QED BY <3>2, <3>3
  <2>3. Moves
    BY <1>6, <2>1, <2>2, SettlesMoves
  <2> QED BY <2>1, <2>3, StaysProceeds DEF Onward, Here
<1>7. ASSUME Pending(r, g) # {}, Return(w, "enqueue", {CriticJob(a) : a \in Pending(r, g)}) PROVE Onward
  <2> DEFINE keys == {CriticJob(a) : a \in Pending(r, g)}
  <2>1. \A h \in Generations : FinalizeJob(h) \notin keys
    BY DEF FinalizeJob, CriticJob, Job
  <2>2. \A k \in Jobs : OpensFor(w, k) => k \in keys \/ Known(k)
    <3> SUFFICES ASSUME NEW k \in Jobs, OpensFor(w, k), ~Known(k) PROVE k \in keys
      OBVIOUS
    <3>1. k.agent \in Pending(r, g) /\ k = CriticJob(k.agent)
      BY <1>3, <1>4
    <3> QED BY <3>1
  <2>3. Return(w, "enqueue", keys)
    BY <1>7
  <2> HIDE DEF keys
  <2> QED BY <1>6, <1>7, <2>1, <2>2, <2>3
<1>8. ASSUME Pending(r, g) = {}, Cardinality(Answers(f, g)) # CriticCount, Return(w, "settle", {}) PROVE Onward
  BY <1>4, <1>6, <1>8
<1>9. ASSUME Pending(r, g) = {},
             \E seen \in {f, db} :
               Commit(w, CandidateUpdates(db, seen, Elite(g, {}), Outcome(f, g)), "enqueue", {FinalizeJob(g)})
      PROVE  Onward
  <2>1. PICK seen \in {f, db} :
          Commit(w, CandidateUpdates(db, seen, Elite(g, {}), Outcome(f, g)), "enqueue", {FinalizeJob(g)})
    BY <1>9
  <2>2. Elite(g, {}) \in Submissions /\ Outcome(f, g) \in CandidateStatus /\ Outcome(f, g) # "ABSENT"
    BY EliteParts DEF Outcome, CandidateStatus
  <2>3. /\ db' = CandidateUpdates(db, seen, Elite(g, {}), Outcome(f, g))
        /\ Goto(w, "enqueue", {FinalizeJob(g)}) /\ UNCHANGED <<jobs, api, job>>
    BY <2>1 DEF Commit
  <2>4. db'.agents = db.agents /\ Keeps(db, db') /\ db'.status = db.status
    BY <1>0, <2>2, <2>3, CandidateUpdatesKeep
  <2>5. db'.gens = db.gens /\ Here(db') = Here(db)
    BY <2>4 DEF Keeps
  <2>6. Promised(FinalizeJob(g))'
    BY <2>3, KeysPromised
  <2>7. GoesOnFrom(j)'
    BY <2>5, <2>6, SchedulesGoOn
  <2>8. \A h \in Generations : FinalizeJob(h) \in {FinalizeJob(g)} => JudgesAnswered(db, h)
    BY <1>2 DEF FinalizeJob, Job
  <2>9. Moves
    BY <1>4, <1>9, <2>3, <2>4, <2>5, <2>7, <2>8, SettlesMoves
  <2> QED BY <2>4, <2>5, <2>9, StaysProceeds DEF Onward
<1> QED BY <1>5, <1>7, <1>8, <1>9 DEF Listens

LEMMA AfterOpeningMoves ==
  ASSUME Before, NEW w \in Workers, AfterOpening(w)
  PROVE  Onward
<1>0. pc[w] = "opened" /\ view[w] # None /\ Inside(w)
  BY DEF AfterOpening, At, Inside
<1>1. PICK j \in Jobs : j = job[w]
  BY <1>0, InsideHolds
<1>2. PICK g \in Generations : g = j.gen
  BY <1>0, <1>1, Scheduling
<1>3. PICK f \in {view[w], Now(w)} :
        /\ Listens(w, view[w], f, g) /\ CriticCount # 0 /\ FirstCritics(g) \subseteq Here(view[w])
  BY <1>1, <1>2, AfterOpeningEffect DEF Before
<1>4. view[w] \in Reads(w) /\ f \in Reads(w)
  BY DEF Reads, Now
<1>5. FirstCritics(g) \subseteq Here(db)
  BY <1>0, <1>3, <1>4, ReadsFit DEF Before, Behind
<1>6. j.type = "RUN_JUDGE"
  BY <1>0, <1>1, Scheduling DEF Before, Handed, Beginnings
<1> QED BY <1>0, <1>1, <1>2, <1>3, <1>4, <1>5, <1>6, ListensMoves

\* The stage is opened: the new critics have no jobs before they are heard.
LEMMA OpensMoves ==
  ASSUME Before, NEW w \in Workers, pc[w] = "schedule", view[w] # None,
         NEW j \in Jobs, job[w] = j, j.type \in {"RUN_JUDGE", "RUN_CRITIC"}, NEW g \in Generations, g = j.gen,
         CriticCount # 0, NEW v \in Reads(w), OpensIt(w, v, g)
  PROVE  Onward
<1>0. /\ Inside(w) /\ db \in Database /\ Shape(db) /\ j.agent \in Here(view[w]) /\ j # None
      /\ j.agent \in Agents /\ j.agent # None
  BY Scheduling DEF Before, RunInv
<1>1. PICK c \in {v, Now(w)} : \E s \in {c, Now(w)} :
        /\ Present(c, CriticsOf(g)) = {}
        /\ \/ Raise(w)
           \/ NewCritics(g) \subseteq CriticsOf(g) /\ Commit(w, Opened(s, g), "opened", {})
  BY DEF OpensIt
<1>2. PICK s \in {c, Now(w)} :
        /\ Present(c, CriticsOf(g)) = {}
        /\ \/ Raise(w)
           \/ NewCritics(g) \subseteq CriticsOf(g) /\ Commit(w, Opened(s, g), "opened", {})
  BY <1>1
<1>3. c \in Reads(w) /\ Behind(view[w], c)
  <2>1. c \in Reads(w)
    BY DEF Reads, Now
  <2> QED BY <2>1, ReadsFit DEF Before
<1>4. j.type = "RUN_JUDGE"
  <2>1. ASSUME j.type = "RUN_CRITIC" PROVE FALSE
    <3>1. j.agent \in CriticsOf(g)
      BY <2>1, TypeSays DEF AgentJobs
    <3>2. j.agent \in Here(c)
      BY <1>0, <1>3 DEF Behind
    <3> QED BY <1>2, <3>1, <3>2 DEF Present, Here
  <2> QED BY <2>1
<1>5. CASE Raise(w)
  BY <1>0, <1>5, RaiseMoves
<1>6. CASE NewCritics(g) \subseteq CriticsOf(g) /\ Commit(w, Opened(s, g), "opened", {})
  <2>1. db' = Opened(s, g) /\ Goto(w, "opened", {}) /\ UNCHANGED <<jobs, api, job>>
    BY <1>6 DEF Commit
  <2>2. db'.status = db.status /\ db'.gens = db.gens /\ Here(db') = Here(db) \union NewCritics(g)
    BY <1>0, <1>6, <2>1, OpensTheStage
  <2>3. Moves
    <3>1. \A k \in Jobs : ~OpensFor(w, k)
      BY DEF OpensFor
    <3> QED BY <1>0, <1>4, <2>1, <3>1, GotoMovesAny
  <2>4. pc'[w] = "opened" /\ view'[w] = None
    BY <2>1, KeysPromised
  <2>5. ASSUME NEW k \in Jobs, k.agent # None, k.agent \in Here(db') \ Here(db) PROVE OpensFor(w, k)'
    <3>1. k.agent \in CriticsOf(g)
      BY <1>6, <2>2, <2>5
    <3>2. CriticJob(k.agent) \in Jobs /\ CriticJob(k.agent).agent = k.agent
      BY <3>1, StageJobs
    <3>3. k = CriticJob(k.agent)
      BY <2>5, <3>2, OneJobPerAgent
    <3>4. k.type = "RUN_CRITIC" /\ k.gen = g
      BY <3>1, <3>3, CriticParts DEF CriticJob, Job
    <3> QED BY <1>0, <2>1, <2>4, <3>4 DEF OpensFor
  <2>6. SameGeneration
    BY <2>2, <2>5 DEF SameGeneration
  <2>7. StaysOver
    BY <2>2 DEF StaysOver, IsOver
  <2> QED BY <2>3, <2>6, <2>7 DEF Onward, Proceeds
<1> QED BY <1>2, <1>5, <1>6

LEMMA FindsMoves ==
  ASSUME Before, NEW w \in Workers, pc[w] = "schedule", view[w] # None,
         NEW j \in Jobs, job[w] = j, j.type \in {"RUN_JUDGE", "RUN_CRITIC"}, NEW g \in Generations, g = j.gen,
         CriticCount # 0, NEW v \in Reads(w), FindsItOpen(w, v, g)
  PROVE  Onward
<1>0. Inside(w)
  BY Scheduling
<1>1. \A x \in {v, Now(w)} : x \in Reads(w)
  BY DEF Reads, Now
<1>2. PICK c \in {v, Now(w)} : \E s \in {c, Now(w)} : \E f \in {s, Now(w)} :
        /\ Present(c, CriticsOf(g)) # {}
        /\ \/ /\ ~(Cardinality(Answers(f, g)) >= CriticCount) \/ Pending(c, g) # {}
              /\ Return(w, "settle", {})
           \/ \E r \in {f, Now(w)} : \E h \in {r, Now(w)} : Listens(w, r, h, g)
  BY DEF FindsItOpen
<1>3. PICK s \in {c, Now(w)} : \E f \in {s, Now(w)} :
        /\ Present(c, CriticsOf(g)) # {}
        /\ \/ /\ ~(Cardinality(Answers(f, g)) >= CriticCount) \/ Pending(c, g) # {}
              /\ Return(w, "settle", {})
           \/ \E r \in {f, Now(w)} : \E h \in {r, Now(w)} : Listens(w, r, h, g)
  BY <1>2
<1>4. PICK f \in {s, Now(w)} :
        /\ Present(c, CriticsOf(g)) # {}
        /\ \/ /\ ~(Cardinality(Answers(f, g)) >= CriticCount) \/ Pending(c, g) # {}
              /\ Return(w, "settle", {})
           \/ \E r \in {f, Now(w)} : \E h \in {r, Now(w)} : Listens(w, r, h, g)
  BY <1>3
<1>5. c \in {v, Now(w)} /\ f \in {v, Now(w)}
  OBVIOUS
<1>6. FirstCritics(g) \subseteq Here(db)
  <2>1. c \in Database /\ Shape(c) /\ Behind(c, db)
    BY <1>1, <1>5, ReadsFit DEF Before
  <2>2. FirstCritics(g) \subseteq Here(c)
    BY <1>4, <2>1, FirstAreHere
  <2> QED BY <2>1, <2>2 DEF Behind
<1>7. ASSUME \E r \in {f, Now(w)} : \E h \in {r, Now(w)} : Listens(w, r, h, g) PROVE Onward
  <2>1. PICK r \in {f, Now(w)} : \E h \in {r, Now(w)} : Listens(w, r, h, g)
    BY <1>7
  <2>2. PICK h \in {r, Now(w)} : Listens(w, r, h, g)
    BY <2>1
  <2>3. r \in Reads(w) /\ h \in Reads(w)
    BY <1>1, <1>5
  <2> QED BY <1>6, <2>2, <2>3, ListensMoves
<1>8. ASSUME Return(w, "settle", {}), ~(Cardinality(Answers(f, g)) >= CriticCount) \/ Pending(c, g) # {}
      PROVE  Onward
  <2>1. Goto(w, "settle", {}) /\ UNCHANGED <<db, jobs, api, job>>
    BY <1>8 DEF Return
  <2>2. ASSUME j.gen = Current, Enough(view[w], j) PROVE GoesOnFrom(j)'
    <3>1. FirstCritics(g) \subseteq Here(db')
      BY <1>6, <2>1
    <3>2. CASE j.type = "RUN_JUDGE"
      BY <3>1, <3>2, SchedulesGoOn
    <3>3. CASE j.type = "RUN_CRITIC"
      <4>1. /\ CriticsTwice(db, g) \/ Cardinality(Answers(f, g)) = CriticCount
            /\ CriticsTwice(db, g) \/ (Pending(c, g) # {} => IsOver)
        BY <1>1, <1>5, <2>2, <3>3, CriticsSeen
      <4>2. CriticsTwice(db', g) \/ IsOver'
        BY <1>8, <2>1, <4>1, RunCreateAssumption DEF IsOver
      <4> QED BY <3>1, <3>3, <4>2, SchedulesGoOn
    <3> QED BY <3>2, <3>3
  <2>3. \A k \in Jobs : ~OpensFor(w, k)
    BY DEF OpensFor
  <2>4. Moves
    BY <2>1, <2>2, <2>3, SettlesMoves
  <2> QED BY <2>1, <2>4, StaysProceeds DEF Onward, Here
<1> QED BY <1>4, <1>7, <1>8

LEMMA MaybeScheduleFinalizeMoves ==
  ASSUME Before, NEW w \in Workers, MaybeScheduleFinalize(w)
  PROVE  Onward
<1>0. /\ pc[w] = "schedule" /\ view[w] # None /\ Inside(w) /\ db \in Database
      /\ job[w].type \in {"RUN_JUDGE", "RUN_CRITIC"}
  BY DEF MaybeScheduleFinalize, At, Inside, Before, RunInv
<1>1. PICK j \in Jobs : j = job[w]
  BY <1>0, InsideHolds
<1>2. PICK g \in Generations : g = j.gen
  BY <1>0, <1>1, Scheduling
<1>3. PICK v \in Reads(w) : Schedules(w, v, g)
  BY <1>0, <1>1, <1>2, MaybeScheduleFinalizeEffect
<1>4. v.status = view[w].status
  BY <1>0, ReadsFit DEF Before
<1>5. \A k \in Jobs : ~OpensFor(w, k)
  BY <1>0 DEF OpensFor
<1>6. CASE Return(w, "failrun", {})
  BY <1>0, <1>6, GoesOnMoves DEF Return, Here
<1>7. ASSUME Return(w, "settle", {}),
             \/ v.status # "JUDGING" \/ ~IsLatest(v, g) \/ ~JudgesPresent(v, g)
             \/ ~SomeFailed(v, JudgesOf(g)) /\ ~JudgingComplete(v, g)
      PROVE  Onward
  <2>1. ASSUME j.gen = Current, Enough(view[w], j) PROVE GoesOnFrom(j)'
    <3>1. view[w].status \in Over
      BY <1>0, <1>1, <1>2, <1>4, <1>7, <2>1, JudgingSeen
    <3>2. UNCHANGED <<db, jobs>>
      BY <1>7 DEF Return
    <3> QED BY <1>0, <1>1, <2>1, <3>1, <3>2, OverSeen
  <2>2. Goto(w, "settle", {}) /\ UNCHANGED <<db, jobs, api, job>>
    BY <1>7 DEF Return
  <2>3. Moves
    BY <1>0, <1>1, <1>5, <2>1, <2>2, SettlesMoves
  <2> QED BY <2>2, <2>3, StaysProceeds DEF Onward, Here
<1>8. CASE CriticCount = 0 /\ JudgingComplete(v, g) /\ Return(w, "enqueue", {FinalizeJob(g)})
  <2>1. Goto(w, "enqueue", {FinalizeJob(g)}) /\ UNCHANGED <<db, jobs, api, job>>
    BY <1>8 DEF Return
  <2>2. Promised(FinalizeJob(g))'
    BY <2>1, KeysPromised
  <2>3. GoesOnFrom(j)'
    BY <1>0, <1>1, <1>2, <1>8, <2>2, SchedulesGoOn
  <2>4. JudgesAnswered(db, g)
    BY <1>0, <1>8, JudgingAnswered DEF Before
  <2>5. \A h \in Generations : FinalizeJob(h) \in {FinalizeJob(g)} => JudgesAnswered(db, h)
    BY <2>4 DEF FinalizeJob, Job
  <2>6. Moves
    BY <1>0, <1>1, <1>5, <2>1, <2>3, <2>5, SettlesMoves
  <2> QED BY <2>1, <2>6, StaysProceeds DEF Onward, Here
<1>9. CASE CriticCount # 0 /\ OpensIt(w, v, g)
  BY <1>0, <1>1, <1>2, <1>9, OpensMoves
<1>10. CASE CriticCount # 0 /\ FindsItOpen(w, v, g)
  BY <1>0, <1>1, <1>2, <1>10, FindsMoves
<1> QED BY <1>3, <1>6, <1>7, <1>8, <1>9, <1>10, Zenon DEF Schedules

-----------------------------------------------------------------------------
(* The hand over is an invariant.                                           *)

\* A step that leaves nobody killed or slow was taken where nobody was.
LEMMA CalmBefore ==
  ASSUME RunInv, [Next]_vars, Calm'
  PROVE  Calm
<1>1. budget \in [raises : Nat, lapses : Nat, crashes : Nat, lost : SUBSET Jobs]
  BY DEF RunInv, Loop, LoopInv, LoopTyped
<1>2. budget.lapses = 0
  BY NextAround DEF Around, Calm
<1>3. budget'.crashes = budget.crashes \/ budget'.crashes = budget.crashes + 1
  <2>1. ASSUME NEW w \in Workers, Proceed(w) PROVE budget'.crashes = budget.crashes
    <3>1. CASE Begin(w) \/ ReportFailure(w) \/ EnqueueNext(w) \/ Settle(w) \/ Fail(w)
      BY <3>1 DEF Begin, BeginAt, ReportFailure, EnqueueNext, EnqueueOne, Settle, Fail
    <3>2. CASE Continues(w)
      BY <3>2, <1>1 DEF Continues, Works
    <3> QED BY <2>1, <3>1, <3>2, Zenon, StartRunContinues, MaybeScheduleJudgingContinues,
               StartJudgingContinues, MaybeScheduleFinalizeContinues, AfterOpeningContinues,
               FinalizeRunContinues, FailRunContinues, StartContinues, StoreSubmissionContinues,
               StoreEvaluationsContinues,
               StoreFindingContinues, ProviderAnswersContinues, ProviderFailsContinues
            DEF Proceed, UnitOfWork
  <2>2. ASSUME NEW w \in Workers, CrashWorker(w) PROVE budget'.crashes = budget.crashes + 1
    BY <2>2, <1>1 DEF CrashWorker
  <2>3. ASSUME NEW w \in Workers, Restart(w) PROVE budget'.crashes = budget.crashes
    BY <2>3 DEF Restart
  <2>4. ASSUME NEW w \in Workers, NEW j \in Jobs, Claim(w, j) PROVE budget'.crashes = budget.crashes
    BY <2>4 DEF Claim, ClaimFor
  <2>5. ASSUME NEW j \in Jobs, Lapse(j) PROVE budget'.crashes = budget.crashes
    BY <2>5, <1>1 DEF Lapse
  <2>6. CASE CrashApi
    BY <2>6, <1>1 DEF CrashApi
  <2>7. CASE CreateRun \/ EnqueueCreateGeneration \/ UNCHANGED vars
    BY <2>7 DEF CreateRun, EnqueueCreateGeneration, vars
  <2> QED BY <2>1, <2>2, <2>3, <2>4, <2>5, <2>6, <2>7 DEF Next
<1>4. budget.crashes \in Nat
  BY <1>1
<1> QED BY <1>2, <1>3, <1>4 DEF Calm

LEMMA NextMoves ==
  ASSUME Before, Calm', [Next]_vars
  PROVE  Onward
<1>1. ASSUME NEW w \in Workers, Proceed(w) PROVE Onward
  <2>1. CASE UnitOfWork(w)
    <3>1. CASE StartRun(w) \/ MaybeScheduleJudging(w) \/ StartJudging(w) \/ MaybeScheduleFinalize(w)
      BY Zenon, <3>1, StartRunMoves, MaybeScheduleJudgingMoves, StartJudgingMoves,
         MaybeScheduleFinalizeMoves
    <3>2. CASE AfterOpening(w) \/ FinalizeRun(w) \/ FailRun(w) \/ ReportFailure(w)
      BY Zenon, <3>2, AfterOpeningMoves, FinalizeRunMoves, FailRunMoves, ReportFailureMoves
    <3>3. CASE StartResearch(w) \/ StartJudge(w) \/ StartCritic(w)
      BY Zenon, <3>3, StartMoves
    <3>4. CASE StoreSubmission(w) \/ StoreEvaluations(w) \/ StoreFinding(w)
      BY Zenon, <3>4, StoreSubmissionMoves, StoreEvaluationsMoves, StoreFindingMoves
    <3> QED BY Zenon, <2>1, <3>1, <3>2, <3>3, <3>4 DEF UnitOfWork
  <2>2. CASE Begin(w)
    BY Zenon, <2>2, BeginMoves
  <2>3. CASE ProviderAnswers(w) \/ ProviderFails(w)
    BY Zenon, <2>3, ProviderMoves
  <2>4. CASE EnqueueNext(w) \/ Settle(w) \/ Fail(w)
    BY Zenon, <2>4, EnqueueNextMoves, SettleMoves, FailMoves
  <2> QED BY Zenon, <1>1, <2>1, <2>2, <2>3, <2>4 DEF Proceed
<1>2. ASSUME NEW w \in Workers, Restart(w) PROVE Onward
  BY Zenon, <1>2, RestartMoves
<1>3. ASSUME NEW w \in Workers, NEW j \in Jobs, Claim(w, j) PROVE Onward
  BY Zenon, <1>3, ClaimMoves
<1>4. ASSUME NEW j \in Jobs, Lapse(j) PROVE FALSE
  BY Zenon, <1>4, LapseNever
<1>5. ~CrashApi /\ \A w \in Workers : ~CrashWorker(w)
  BY Zenon, CrashNever
<1>6. CASE CreateRun \/ EnqueueCreateGeneration \/ UNCHANGED vars
  BY Zenon, <1>6, ApiMoves
<1> QED BY Zenon, <1>1, <1>2, <1>3, <1>4, <1>5, <1>6 DEF Next

LEMMA NextKeepsHand ==
  ASSUME RunInv, Undisturbed, RecordInv, ResultsInv, HandInv, [Next]_vars
  PROVE  HandInv'
<1> SUFFICES ASSUME Calm' PROVE Handed'
  BY DEF HandInv
<1>1. Calm
  BY Zenon, CalmBefore
<1>2. /\ budget.lapses = 0 /\ Knows /\ Results /\ Handed
  BY <1>1 DEF Calm, Undisturbed, ResultsInv, HandInv
<1>3. Before
  BY Zenon, <1>1, <1>2 DEF Before
<1>4. Moves /\ Proceeds
  BY Zenon, <1>3, NextMoves DEF Onward
<1>5. RunInv' /\ Around
  BY Zenon, NextKeepsRun, NextAround
<1>6. Changes
  BY Zenon, <1>2, NextResults DEF ResultsStep
<1>7. Setup
  BY Zenon, <1>2, <1>4, <1>5, <1>6 DEF Setup
<1> QED BY Zenon, <1>4, <1>7, HandedKept

LEMMA InitHand ==
  ASSUME Init PROVE HandInv
<1>1. /\ db.agents = [a \in Agents |-> "ABSENT"] /\ db.status = "NONE" /\ db.gens = 0 /\ api = "new"
      /\ jobs = [j \in Jobs |-> NoJob]
      /\ job = [w \in Workers |-> None] /\ view = [w \in Workers |-> None]
      /\ todo = [w \in Workers |-> {}]
  BY DEF Init, LoopInit
<1>2. Here(db) = {}
  BY <1>1 DEF Here
<1>3. /\ \A j \in Jobs : jobs[j].status = "absent"
      /\ \A w \in Workers : job[w] = None /\ view[w] = None /\ todo[w] = {}
  BY <1>1 DEF NoJob
<1>4. \A j \in Jobs : ~Known(j) /\ ~Promised(j)
  BY <1>3 DEF Known, Promised
<1>5. None \notin Jobs
  BY NoneAssumption
<1>6. \A j \in Jobs : ~HandedOn(j)
  BY <1>3, <1>5 DEF HandedOn
<1>7. Beginnings
  <2>1. CreateJob \in Jobs /\ \A g \in Generations : FinalizeJob(g) \in Jobs
    BY JobSets, GenerationsType
  <2>2. \A j \in Jobs : j.agent # None => db.agents[j.agent] = "ABSENT"
    <3>1. \A j \in Jobs : j.agent # None => j.agent \in Agents
      BY JobParts, AgentSets DEF JobShape, CreateJob, StartJudgingJob, FinalizeJob, Job
    <3> QED BY <1>1, <3>1
  <2> QED BY <1>1, <1>2, <1>3, <1>4, <1>6, <2>1, <2>2 DEF Beginnings
<1>8. Excuses
  <2> SUFFICES ASSUME NEW j \in Jobs PROVE FailedExcused(j) /\ AgentExcused(j) /\ ViewExcused(j)
    BY DEF Excuses
  <2>1. FailedExcused(j)
    BY <1>3 DEF FailedExcused
  <2>2. ViewExcused(j)
    BY <1>3 DEF ViewExcused
  <2>3. AgentExcused(j)
    <3>1. j.agent # None => db.agents[j.agent] # "FAILED"
      <4>1. j.agent # None => j.agent \in Agents
        BY JobParts, AgentSets DEF JobShape, CreateJob, StartJudgingJob, FinalizeJob, Job
      <4> QED BY <4>1, <1>1
    <3> QED BY <3>1, <1>6 DEF AgentExcused
  <2> QED BY <2>1, <2>2, <2>3
<1>9. OwnersWork
  BY <1>3 DEF OwnersWork
<1> QED BY <1>1, <1>7, <1>8, <1>9 DEF HandInv, Handed

LEMMA HandInvariant == Spec => [](RunInv /\ Undisturbed /\ RecordInv /\ ResultsInv /\ HandInv)
<1>1. Init => HandInv
  BY InitHand
<1>2. RunInv /\ Undisturbed /\ RecordInv /\ ResultsInv /\ HandInv /\ [Next]_vars => HandInv'
  BY NextKeepsHand
<1> QED BY <1>1, <1>2, ResultsInvariant, PTL DEF Spec

-----------------------------------------------------------------------------
(* No run is left without a job.                                            *)

\* Where nothing is under way, the jobs that are known have ended, and those
\* that are done have been handed on.
LEMMA QuietJobs ==
  ASSUME RunInv, Quiet
  PROVE  /\ \A w \in Workers : job[w] = None /\ todo[w] = {}
         /\ \A j \in Jobs : Promised(j) => jobs[j].status \in {"done", "failed"}
         /\ \A j \in Jobs : HandedOn(j) <=> jobs[j].status = "done"
<1>1. \A w \in Workers : job[w] = None /\ todo[w] = {}
  BY DEF Quiet, RunInv, Loop, LoopInv, LoopOK
<1>2. jobs \in [Jobs -> JobRow] /\ DOMAIN jobs = Jobs
  BY DEF RunInv, Loop, LoopInv, LoopTyped
<1>3. \A j \in Jobs : jobs[j].status \in {"absent", "done", "failed"}
  <2>1. \A j \in Jobs : jobs[j].status \in {"absent", "queued", "running", "done", "failed"}
    BY <1>2 DEF JobRow
  <2> QED BY <1>2, <2>1 DEF Quiet
<1>4. \A j \in Jobs : Promised(j) => jobs[j].status \in {"done", "failed"}
  BY <1>1, <1>3 DEF Promised, Known
<1>5. \A j \in Jobs : HandedOn(j) <=> jobs[j].status = "done"
  BY <1>1, NoneAssumption DEF HandedOn
<1> QED BY <1>1, <1>4, <1>5

\* Then a failed job of the current generation is excused.
LEMMA QuietFailed ==
  ASSUME RunInv, Quiet, Excuses, ~IsOver, NEW j \in Jobs, IsOf(j), jobs[j].status = "failed"
  PROVE  \/ j.type = "RUN_RESEARCH_AGENT" /\ Known(StartJudgingJob(Current))
         \/ j = CreateJob /\ db.gens > 0
<1>1. FailedExcused(j)
  BY DEF Excuses
<1>2. \A w \in Workers : job[w] # j
  BY QuietJobs, NoneAssumption
<1> QED BY <1>1, <1>2 DEF FailedExcused, Excused

\* One stage after the other was handed on, up to the last.
LEMMA QuietIsOver ==
  ASSUME RunInv, Quiet, Handed, api = "done"
  PROVE  IsOver \/ CriticsTwice(db, Current)
<1> SUFFICES ASSUME ~IsOver, ~CriticsTwice(db, Current) PROVE FALSE
  OBVIOUS
<1>1. Beginnings /\ Excuses
  BY DEF Handed
<1>2. CreateJob \in Jobs
  BY JobSets, GenerationsType
<1>3. db.gens > 0
  <2>1. jobs[CreateJob].status \in {"done", "failed"}
    BY <1>1, <1>2, QuietJobs DEF Beginnings, Promised
  <2>2. CASE jobs[CreateJob].status = "done"
    BY <1>1, <1>2, <2>2, QuietJobs DEF Beginnings
  <2>3. CASE jobs[CreateJob].status = "failed"
    <3>1. CreateJob.type # "RUN_RESEARCH_AGENT"
      BY DEF CreateJob, Job
    <3> QED BY <1>1, <1>2, <2>3, <3>1, QuietFailed DEF IsOf
  <2> QED BY <2>1, <2>2, <2>3
<1>4. PICK g \in Generations : g = Current
  BY <1>3, CurrentJobs
<1>5. \A j \in Jobs : (j.gen = g /\ jobs[j].status = "done") => GoesOnFrom(j)
  BY <1>3, <1>4, QuietJobs DEF Handed, GoesOn
\* No worker is about to hear the critics.
<1>51. ASSUME NEW j \in Jobs, j.gen = g, j.agent # None, j.agent \in Here(db) PROVE Promised(j)
  <2>1. Started(j) /\ \A u \in Workers : ~OpensFor(u, j)
    BY <1>1, <1>51, QuietJobs DEF Beginnings, OpensFor
  <2> QED BY <1>4, <1>51, <2>1 DEF Started
\* A job that was promised is done, unless judging has been scheduled without it.
<1>6. ASSUME NEW j \in Jobs, j.gen = g, Promised(j), j.type \notin {"RUN_RESEARCH_AGENT", "CREATE_GENERATION"}
      PROVE  jobs[j].status = "done" /\ GoesOnFrom(j)
  <2>1. j # CreateJob
    BY <1>6 DEF CreateJob, Job
  <2>2. jobs[j].status # "failed"
    BY <1>1, <1>4, <1>6, <2>1, QuietFailed DEF IsOf
  <2>3. jobs[j].status = "done"
    BY <1>6, <2>2, QuietJobs
  <2> QED BY <1>5, <1>6, <2>3
<1>7. StartJudgingJob(g) \in Jobs /\ FinalizeJob(g) \in Jobs
  BY JobSets
<1>8. Promised(StartJudgingJob(g))
  <2> SUFFICES ASSUME ~Promised(StartJudgingJob(g)) PROVE FALSE
    OBVIOUS
  <2>1. ASSUME NEW a \in Researchers(g)
        PROVE  /\ ResearchJob(a) \in Jobs /\ HandedOn(ResearchJob(a)) /\ GoesOnFrom(ResearchJob(a))
    <3>1. a \in Here(db) /\ a.gen = g
      <4>1. a \in Submissions /\ a.gen = g
        BY AgentSets, ResearcherParts
      <4>2. g < db.gens
        BY <1>4, CurrentJobs
      <4> QED BY <4>1, <4>2 DEF RunInv, Shape
    <3>2. ResearchJob(a) \in Jobs /\ a # None
      BY JobSets, AgentSets, NoneAssumption
    <3>3. ResearchJob(a).agent = a /\ ResearchJob(a).gen = g /\ ResearchJob(a).type = "RUN_RESEARCH_AGENT"
      BY <3>1 DEF ResearchJob, Job
    <3>4. Promised(ResearchJob(a))
      BY <1>51, <3>1, <3>2, <3>3
    <3>5. jobs[ResearchJob(a)].status # "failed"
      <4>1. ResearchJob(a) # CreateJob
        BY <3>3 DEF CreateJob, Job
      <4>2. ~Known(StartJudgingJob(Current))
        BY <1>4 DEF Promised
      <4> QED BY <1>1, <1>4, <3>2, <3>3, <4>1, <4>2, QuietFailed DEF IsOf
    <3>6. jobs[ResearchJob(a)].status = "done"
      BY <3>2, <3>4, <3>5, QuietJobs
    <3>7. HandedOn(ResearchJob(a))
      BY <3>2, <3>6, QuietJobs
    <3> QED BY <1>5, <3>2, <3>3, <3>6, <3>7
  <2>2. PICK a \in Researchers(g) : TRUE
    BY RunCreateAssumption DEF Researchers
  <2>3. ResearchJob(a).gen = g /\ ResearchJob(a).type = "RUN_RESEARCH_AGENT"
    BY ResearcherParts DEF ResearchJob, Job
  <2>4. ResearchGoesOn(g)
    BY <2>1, <2>2, <2>3 DEF GoesOnFrom
  <2> QED BY <2>1, <2>4 DEF ResearchGoesOn
<1>9. JudgesFollow(db, g)
  <2>1. StartJudgingJob(g).type = "START_JUDGING" /\ StartJudgingJob(g).gen = g
    BY DEF StartJudgingJob, Job
  <2> QED BY <1>6, <1>7, <1>8, <2>1 DEF GoesOnFrom
\* The agents of a stage that are there have had their jobs.
<1>10. ASSUME NEW j \in Jobs, j.gen = g, j.agent # None, j.agent \in Here(db),
              j.type \in {"RUN_JUDGE", "RUN_CRITIC"}
       PROVE  HandedOn(j) /\ GoesOnFrom(j)
  <2>1. Promised(j)
    BY <1>10, <1>51
  <2> QED BY <1>6, <1>10, <2>1, QuietJobs
<1>11. /\ \A a \in JudgesOf(g) \intersect Here(db) : HandedOn(JudgeJob(a))
       /\ JudgingGoesOn(g)
  <2>1. ASSUME NEW a \in JudgesOf(g) \intersect Here(db)
        PROVE  HandedOn(JudgeJob(a)) /\ GoesOnFrom(JudgeJob(a)) /\ JudgeJob(a).gen = g
    <3>1. JudgeJob(a) \in Jobs /\ a # None
      BY JobSets, AgentSets, NoneAssumption
    <3>2. JudgeJob(a).agent = a /\ JudgeJob(a).gen = g /\ JudgeJob(a).type = "RUN_JUDGE"
      BY JudgeParts DEF JudgeJob, Job
    <3> QED BY <1>10, <3>1, <3>2
  <2>2. PICK a \in JudgesOf(g) \intersect Here(db) : TRUE
    <3>1. 1 \in 1..JudgeCount
      BY DEF JudgeCount
    <3>2. PICK c \in Copies : Agent(g, "judge", 1, c) \in Here(db)
      BY <1>9, <3>1 DEF JudgesFollow
    <3>3. Agent(g, "judge", 1, c) \in JudgesOf(g)
      BY <3>1, <3>2 DEF JudgesOf
    <3> QED BY <3>2, <3>3
  <2>3. JudgeJob(a).type = "RUN_JUDGE"
    BY DEF JudgeJob, Job
  <2>4. JudgingGoesOn(g)
    BY <2>1, <2>2, <2>3 DEF GoesOnFrom
  <2> QED BY <2>1, <2>4
<1>12. Promised(FinalizeJob(g))
  <2>1. CASE CriticCount = 0
    BY <1>11, <2>1 DEF JudgingGoesOn
  <2>2. CASE CriticCount # 0
    <3>1. FirstCritics(g) \subseteq Here(db) /\ FirstCritics(g) \subseteq CriticsOf(g)
      BY <1>11, <2>2, FirstCriticParts DEF JudgingGoesOn
    <3>2. ASSUME NEW a \in FirstCritics(g)
          PROVE  HandedOn(CriticJob(a)) /\ GoesOnFrom(CriticJob(a)) /\ CriticJob(a).gen = g
      <4>1. CriticJob(a) \in Jobs /\ a # None
        BY <3>1, JobSets, AgentSets, NoneAssumption
      <4>2. CriticJob(a).agent = a /\ CriticJob(a).gen = g /\ CriticJob(a).type = "RUN_CRITIC"
        BY <3>1, CriticParts DEF CriticJob, Job
      <4> QED BY <1>10, <3>1, <4>1, <4>2
    <3>3. PICK a \in FirstCritics(g) : TRUE
      BY <2>2, FirstCriticParts
    <3>4. CriticJob(a).type = "RUN_CRITIC"
      BY DEF CriticJob, Job
    <3>5. CriticsGoOn(g)
      BY <3>2, <3>3, <3>4 DEF GoesOnFrom
    <3> QED BY <1>4, <3>2, <3>5 DEF CriticsGoOn
  <2> QED BY <2>1, <2>2
<1>13. FinalizeJob(g).type = "FINALIZE_RUN" /\ FinalizeJob(g).gen = g
  BY DEF FinalizeJob, Job
<1> QED BY <1>6, <1>7, <1>12, <1>13 DEF GoesOnFrom

\* Where no worker is killed or slow, a run without a job that is waiting or
\* under way is over: of the workers that store the results of a stage, one
\* sees it complete and enqueues what comes next, however they interleave. The
\* one exception are the runs whose critics were spawned twice.
THEOREM NeverLeft == Spec => []NeverStranded
<1>1. ASSUME RunInv, HandInv PROVE NeverStranded
  <2> SUFFICES ASSUME Quiet, api = "done", budget.lapses = 0, budget.crashes = 0
               PROVE  db.status \in Over \/ CriticsTwice(db, Latest(db))
    BY DEF NeverStranded
  <2>1. Handed
    BY <1>1 DEF HandInv, Calm
  <2> QED BY <1>1, <2>1, QuietIsOver DEF IsOver, Current
<1> QED BY <1>1, HandInvariant, PTL

-----------------------------------------------------------------------------
(* Why a run fails: what its jobs can rely on, and what they cost.          *)

ResearchDone(d, g) == \A a \in Researchers(g) : a \in d.subs /\ d.agents[a] \in {"COMPLETED", "FAILED"}
CriticsThere(d, g) == \E a \in CriticsOf(g) : a \in Here(d)

\* What a job finds done whenever it is executed, and who is there where a
\* submission is a candidate.
Reliable(j, d) ==
  /\ j.type = "START_JUDGING" => ResearchDone(d, j.gen)
  /\ j.type = "FINALIZE_RUN" =>
       JudgesAnswered(d, j.gen) /\ (CriticCount # 0 => CriticsThere(d, j.gen))
Prepared ==
  /\ \A j \in Jobs : Promised(j) => Reliable(j, db)
  /\ \A w \in Workers : view[w] # None => Reliable(job[w], view[w])
  /\ CriticCount # 0 =>
       \A s \in Submissions : db.cands[s] # "ABSENT" => CriticsThere(db, s.gen)

\* Attempts are used up by failures of providers, and one attempt of a judge's
\* job by another judge's that opened the critic stage first.
Allowance(j) ==
  budget.raises + IF j.type = "RUN_JUDGE" /\ CriticsThere(db, j.gen) THEN 1 ELSE 0
Tries(w) == job[w] # None =>
  LET made == jobs[job[w]].attempt IN
  /\ made - 1 <= Allowance(job[w])
  /\ pc[w] = "raised" => made <= Allowance(job[w])
  /\ made - 1 <= budget.raises \/ (view[w] # None => CriticsThere(view[w], job[w].gen))

\* A worker that is about to move the run on finds it as it has read it.
MovesRun(w) ==
  /\ view[w] # None /\ view[w].gens = job[w].gen + 1
  /\ \/ pc[w] = "judging" /\ view[w].status = "RESEARCHING"
     \/ pc[w] = "finalize" /\ view[w].status = "JUDGING"
NotOvertaken(w) == MovesRun(w) =>
  /\ db.gens = view[w].gens /\ db.status = view[w].status
  /\ pc[w] = "finalize" => \A s \in Researchers(job[w].gen) :
       /\ db.cands[s] # "ABSENT" => view[w].cands[s] # "ABSENT"
       /\ db.verdict[s] # "NONE" => view[w].verdict[s] # "NONE"

\* Nothing has failed, and nobody is about to fail the run.
Untroubled(w) ==
  /\ pc[w] \notin {"failrun", "terminal"} /\ Tries(w) /\ NotOvertaken(w)
  /\ view[w] # None => view[w].status # "FAILED"
Blameless ==
  /\ db.status # "FAILED"
  /\ \A j \in Jobs : /\ jobs[j].status # "failed"
                     /\ jobs[j].status = "queued" => jobs[j].attempt <= Allowance(j)
  /\ \A w \in Workers : Untroubled(w)
\* So many failures of providers, or one less with critics, may fail a run.
PaidFor == MaxAttempts <= budget.raises + IF CriticCount = 0 THEN 0 ELSE 1
CauseInv == Calm => Prepared /\ (PaidFor \/ Blameless)

-----------------------------------------------------------------------------
(* What a job can rely on stays so.                                         *)

LEMMA ReliableStill ==
  ASSUME NEW d, NEW e, NEW j \in Jobs, Reliable(j, d), Here(d) \subseteq Here(e), d.subs \subseteq e.subs,
         AgentsStand(d, e), \A g \in Generations : JudgesAnswered(d, g) => JudgesAnswered(e, g)
  PROVE  Reliable(j, e)
<1>1. j.gen \in Generations /\ Researchers(j.gen) \subseteq Agents
  BY JobParts, AgentSets
<1>2. CriticsThere(d, j.gen) => CriticsThere(e, j.gen)
  BY DEF CriticsThere
<1>3. ResearchDone(d, j.gen) => ResearchDone(e, j.gen)
  BY <1>1 DEF ResearchDone, AgentsStand
<1> QED BY <1>1, <1>2, <1>3 DEF Reliable

\* What a step announces, and what it makes a candidate.
TodoCareful == \A u \in Workers : \A j \in todo'[u] :
  j \in todo[u] \/ j.type \notin {"START_JUDGING", "FINALIZE_RUN"} \/ Reliable(j, db)
CandsCareful == CriticCount # 0 =>
  \A s \in Submissions : (db'.cands[s] # "ABSENT" /\ db.cands[s] = "ABSENT") => CriticsThere(db', s.gen)

LEMMA PreparedKept ==
  ASSUME RunInv, RunInv', Around, Prepared, StandsBy(db, db'), Here(db) \subseteq Here(db'),
         db.subs \subseteq db'.subs, TodoCareful, CandsCareful
  PROVE  Prepared'
<1>1. ASSUME NEW j \in Jobs, Reliable(j, db) PROVE Reliable(j, db')
  BY <1>1, ReliableStill DEF StandsBy
<1>2. ASSUME NEW j \in Jobs, Promised(j)' PROVE Reliable(j, db')
  <2>1. CASE j.type \notin {"START_JUDGING", "FINALIZE_RUN"}
    BY <2>1 DEF Reliable
  <2>2. CASE j.type \in {"START_JUDGING", "FINALIZE_RUN"}
    <3>1. Promised(j) \/ Reliable(j, db)
      <4>1. ASSUME Known(j)' PROVE Promised(j)
        <5>1. j # CreateJob
          BY <2>2 DEF CreateJob, Job
        <5> QED BY <4>1, <5>1 DEF Around, Known, Promised
      <4>2. ASSUME NEW u \in Workers, j \in todo'[u] PROVE Promised(j) \/ Reliable(j, db)
        BY <2>2, <4>2 DEF TodoCareful, Promised
      <4> QED BY <1>2, <4>1, <4>2 DEF Promised
    <3> QED BY <1>1, <3>1 DEF Prepared
  <2> QED BY <2>1, <2>2
<1>3. ASSUME NEW u \in Workers, view'[u] # None PROVE Reliable(job'[u], view'[u])
  <2>1. job'[u] = job[u] /\ (view'[u] = view[u] \/ (view'[u] = db /\ db' = db))
    BY <1>3 DEF Around
  <2>2. CASE view'[u] = view[u]
    BY <1>3, <2>1, <2>2 DEF Prepared
  <2>3. CASE view'[u] = db /\ db' = db
    <3>1. job'[u] # None /\ job'[u] \in Jobs /\ jobs'[job'[u]].status # "absent"
      <4>1. /\ (view'[u] # None => pc'[u] \in UnitsOfWork) /\ (pc'[u] \in {"idle", "dead"} <=> job'[u] = None)
            /\ job'[u] \in Jobs \union {None} /\ (job'[u] # None => jobs'[job'[u]].status # "absent")
        BY DEF RunInv, Loop, LoopInv, LoopOK, LoopTyped, HoldsRow
      <4> QED BY <1>3, <4>1 DEF UnitsOfWork
    <3>2. PICK j \in Jobs : j = job'[u]
      BY <3>1
    <3>3. Promised(j)'
      BY <3>1, <3>2 DEF Promised, Known
    <3> QED BY <1>2, <2>3, <3>2, <3>3
  <2> QED BY <2>1, <2>2, <2>3
<1>4. ASSUME CriticCount # 0, NEW s \in Submissions, db'.cands[s] # "ABSENT" PROVE CriticsThere(db', s.gen)
  <2>1. CASE db.cands[s] = "ABSENT"
    BY <1>4, <2>1 DEF CandsCareful
  <2>2. CASE db.cands[s] # "ABSENT"
    BY <1>4, <2>2 DEF Prepared, CriticsThere
  <2> QED BY <2>1, <2>2
<1> QED BY <1>2, <1>3, <1>4 DEF Prepared

-----------------------------------------------------------------------------
(* Nobody is to blame: what a step has to show.                             *)

Ready == Before /\ Prepared

LEMMA BudgetType ==
  ASSUME Before
  PROVE  /\ budget.raises \in Nat /\ jobs \in [Jobs -> JobRow] /\ MaxAttempts \in Nat
         /\ \A j \in Jobs : jobs[j].attempt \in Nat /\ Allowance(j) \in Nat
         /\ \A j \in Jobs : Allowance(j) \in {budget.raises, budget.raises + 1}
         /\ job \in [Workers -> Jobs \union {None}] /\ pc \in [Workers -> UnitsOfWork \union Between]
         /\ view \in [Workers -> Database \union {None}]
<1>1. /\ budget.raises \in Nat /\ jobs \in [Jobs -> JobRow]
      /\ job \in [Workers -> Jobs \union {None}] /\ pc \in [Workers -> UnitsOfWork \union Between]
      /\ view \in [Workers -> Database \union {None}]
  BY DEF Before, RunInv, Loop, LoopInv, LoopTyped
<1>2. MaxAttempts \in Nat
  BY LoopAssumption
<1>3. \A j \in Jobs : jobs[j].attempt \in Nat
  BY <1>1, <1>2 DEF JobRow
<1>4. \A j \in Jobs : Allowance(j) \in {budget.raises, budget.raises + 1}
  BY <1>1 DEF Allowance
<1>5. \A j \in Jobs : Allowance(j) \in Nat
  BY <1>1, <1>4
<1> QED BY <1>1, <1>2, <1>3, <1>4, <1>5

\* The allowance of a job does not shrink.
LEMMA AllowanceGrows ==
  ASSUME Before, budget'.raises \in Nat, budget'.raises >= budget.raises, Here(db) \subseteq Here(db'),
         NEW j \in Jobs
  PROVE  Allowance(j)' >= Allowance(j) /\ Allowance(j)' \in Nat
<1>1. CriticsThere(db, j.gen) => CriticsThere(db', j.gen)
  BY DEF CriticsThere
<1>2. budget.raises \in Nat
  BY BudgetType
<1> QED BY <1>1, <1>2 DEF Allowance

\* What a step does not have to do to the worker u and its job.
Spared(u) ==
  /\ pc'[u] = pc[u] /\ job'[u] = job[u] /\ view'[u] = view[u]
  /\ job[u] # None => jobs'[job[u]].attempt = jobs[job[u]].attempt
  /\ NotOvertaken(u)'

LEMMA SparedUntroubled ==
  ASSUME Before, RunInv', budget'.raises >= budget.raises, Here(db) \subseteq Here(db'),
         NEW u \in Workers, Untroubled(u), Spared(u)
  PROVE  Untroubled(u)'
<1>1. /\ budget'.raises \in Nat /\ budget.raises \in Nat
  BY BudgetType DEF RunInv, Loop, LoopInv, LoopTyped
<1>2. Tries(u)'
  <2>1. CASE job[u] = None
    BY <2>1 DEF Spared, Tries
  <2>2. CASE job[u] # None
    <3>1. PICK j \in Jobs : j = job[u]
      BY <2>2, BudgetType
    <3>2. /\ jobs'[j].attempt = jobs[j].attempt /\ jobs[j].attempt \in Nat
          /\ Allowance(j)' >= Allowance(j) /\ Allowance(j)' \in Nat /\ Allowance(j) \in Nat
      BY <1>1, <2>2, <3>1, BudgetType, AllowanceGrows DEF Spared
    <3>3. /\ jobs[j].attempt - 1 <= Allowance(j)
          /\ pc[u] = "raised" => jobs[j].attempt <= Allowance(j)
          /\ jobs[j].attempt - 1 <= budget.raises \/ (view[u] # None => CriticsThere(view[u], j.gen))
      BY <2>2, <3>1 DEF Untroubled, Tries
    <3>4. /\ jobs'[j].attempt - 1 <= Allowance(j)'
          /\ pc'[u] = "raised" => jobs'[j].attempt <= Allowance(j)'
      BY <3>2, <3>3 DEF Spared
    <3>5. jobs'[j].attempt - 1 <= budget'.raises \/ (view'[u] # None => CriticsThere(view'[u], j.gen))
      BY <1>1, <3>2, <3>3 DEF Spared
    <3>6. job'[u] = j
      BY <3>1 DEF Spared
    <3> QED BY <3>4, <3>5, <3>6 DEF Tries
  <2> QED BY <2>1, <2>2
<1> QED BY <1>2 DEF Untroubled, Spared

\* Nobody is overtaken by a step that leaves the database alone.
LEMMA StillNotOvertaken ==
  ASSUME db' = db, NEW u \in Workers, NotOvertaken(u),
         pc'[u] = pc[u], job'[u] = job[u], view'[u] = view[u]
  PROVE  NotOvertaken(u)'
BY DEF NotOvertaken, MovesRun

-----------------------------------------------------------------------------
(* Units of work.                                                           *)

\* Why an attempt may fail: a provider, or a judge's that comes too late to open
\* the critic stage.
Forgiven(w) ==
  \/ budget'.raises = budget.raises + 1
  \/ /\ job[w].type = "RUN_JUDGE" /\ CriticsThere(db, job[w].gen)
     /\ jobs[job[w]].attempt - 1 <= budget.raises
\* What a unit of work may move, so that it overtakes no other.
StaysPut ==
  /\ db'.gens = db.gens /\ db'.status = db.status /\ db'.verdict = db.verdict
  /\ \A s \in Submissions : (db'.cands[s] # "ABSENT" /\ db.cands[s] = "ABSENT") =>
       CriticCount # 0 /\ ~CriticsThere(db, s.gen)
RunMoves(w) ==
  \/ StaysPut
  \/ job[w] = CreateJob /\ db.gens = 0
  \/ job[w] = StartJudgingJob(Current) /\ db.status = "RESEARCHING"
  \/ job[w] = FinalizeJob(Current) /\ db.status = "JUDGING"
Spotless(w) ==
  /\ pc'[w] \notin {"failrun", "terminal"} /\ db'.status # "FAILED"
  /\ pc'[w] = "raised" => Forgiven(w)
  /\ RunMoves(w)
Careful(w) == TodoCareful /\ CandsCareful /\ (Blameless => Spotless(w))

LEMMA NotOvertakenKept ==
  ASSUME Ready, Blameless, NEW w \in Workers, Inside(w), RunMoves(w), NEW u \in Workers \ {w},
         pc'[u] = pc[u], job'[u] = job[u], view'[u] = view[u]
  PROVE  NotOvertaken(u)'
<1> SUFFICES ASSUME MovesRun(u)
             PROVE  /\ db'.gens = view[u].gens /\ db'.status = view[u].status
                    /\ pc[u] = "finalize" => \A s \in Researchers(job[u].gen) :
                         /\ db'.cands[s] # "ABSENT" => view[u].cands[s] # "ABSENT"
                         /\ db'.verdict[s] # "NONE" => view[u].verdict[s] # "NONE"
  BY DEF NotOvertaken, MovesRun
<1>1. /\ view[u] # None /\ view[u].gens = job[u].gen + 1 /\ Inside(u) /\ pc[u] \in {"judging", "finalize"}
      /\ db.gens = view[u].gens /\ db.status = view[u].status
      /\ pc[u] = "finalize" => \A s \in Researchers(job[u].gen) :
           /\ db.cands[s] # "ABSENT" => view[u].cands[s] # "ABSENT"
           /\ db.verdict[s] # "NONE" => view[u].verdict[s] # "NONE"
      /\ pc[u] = "judging" => view[u].status = "RESEARCHING"
      /\ pc[u] = "finalize" => view[u].status = "JUDGING"
  BY DEF MovesRun, Inside, Blameless, Untroubled, NotOvertaken
<1>2. /\ job[u] # None /\ job[u] \in Jobs /\ job[u].gen \in Generations
      /\ pc[u] = "judging" => job[u] = StartJudgingJob(job[u].gen)
      /\ pc[u] = "finalize" => job[u] = FinalizeJob(job[u].gen)
  BY <1>1, InsideFits DEF Ready, Before
<1>3. PICK j \in Jobs : j = job[u]
  BY <1>2
<1>4. PICK g \in Generations : g = j.gen
  BY <1>2, <1>3
<1>5. db.gens = g + 1 /\ g \in Nat /\ g = Current
  BY <1>1, <1>3, <1>4, GenerationsType, GensType DEF Current, Latest, Ready, Before, RunInv
<1>6. job[w] # j
  <2>1. pc[w] # "terminal" /\ job[w] # None
    BY InsideFits DEF Inside, Ready, Before
  <2> QED BY <1>1, <1>2, <1>3, <2>1, Alone DEF Ready, Before, Calm
<1>7. CASE StaysPut
  <2>1. ASSUME pc[u] = "finalize", NEW s \in Researchers(g)
        PROVE  /\ db'.cands[s] # "ABSENT" => view[u].cands[s] # "ABSENT"
               /\ db'.verdict[s] # "NONE" => view[u].verdict[s] # "NONE"
    <3>1. s \in Submissions /\ s.gen = g
      BY AgentSets, ResearcherParts
    <3>2. CriticCount # 0 => CriticsThere(db, g)
      <4>1. Reliable(job[u], view[u]) /\ Behind(view[u], db)
        BY <1>1 DEF Ready, Prepared, Before, RunInv, WorkerFits
      <4>2. j.type = "FINALIZE_RUN"
        BY <1>2, <1>3, <2>1 DEF FinalizeJob, Job
      <4>3. CriticCount # 0 => CriticsThere(view[u], g)
        BY <1>3, <1>4, <4>1, <4>2 DEF Reliable
      <4> QED BY <4>1, <4>3 DEF CriticsThere, Behind
    <3>3. db'.cands[s] # "ABSENT" => db.cands[s] # "ABSENT"
      BY <1>7, <3>1, <3>2 DEF StaysPut
    <3> QED BY <1>1, <1>3, <1>4, <1>7, <2>1, <3>3 DEF StaysPut
  <2> QED BY <1>1, <1>3, <1>4, <1>7, <2>1 DEF StaysPut
<1>8. CASE db.gens = 0
  BY <1>5, <1>8
<1>9. CASE job[w] = StartJudgingJob(Current) /\ db.status = "RESEARCHING"
  <2>1. pc[u] = "judging"
    BY <1>1, <1>9
  <2> QED BY <1>2, <1>3, <1>4, <1>5, <1>6, <1>9, <2>1
<1>10. CASE job[w] = FinalizeJob(Current) /\ db.status = "JUDGING"
  <2>1. pc[u] = "finalize"
    BY <1>1, <1>10
  <2> QED BY <1>2, <1>3, <1>4, <1>5, <1>6, <1>10, <2>1
<1> QED BY <1>7, <1>8, <1>9, <1>10 DEF RunMoves

LEMMA ContinuesBlameless ==
  ASSUME Ready, RunInv', Blameless, NEW w \in Workers, Inside(w), Continues(w), Spotless(w)
  PROVE  Blameless'
<1>1. /\ UNCHANGED <<jobs, job>> /\ view' = [view EXCEPT ![w] = None]
      /\ \A u \in Workers \ {w} : pc'[u] = pc[u] /\ view'[u] = view[u]
      /\ view'[w] = None
  BY BudgetType DEF Continues, Works, Ready
<1>2. budget'.raises >= budget.raises /\ budget'.raises \in Nat /\ budget.raises \in Nat
  <2>1. budget' = budget \/ budget' = [budget EXCEPT !.raises = @ + 1]
    BY DEF Continues, Works
  <2>2. budget \in [raises : Nat, lapses : Nat, crashes : Nat, lost : SUBSET Jobs]
    BY DEF Ready, Before, RunInv, Loop, LoopInv, LoopTyped
  <2> QED BY <2>1, <2>2
<1>3. Here(db) \subseteq Here(db')
  <2>1. Behind(db, db')
    BY GrowsAhead DEF Continues, Ready, Before, RunInv
  <2> QED BY <2>1 DEF Behind
<1>4. ASSUME NEW j \in Jobs
      PROVE  jobs'[j].status # "failed" /\ (jobs'[j].status = "queued" => jobs'[j].attempt <= Allowance(j)')
  <2>1. jobs[j].attempt \in Nat /\ Allowance(j) \in Nat /\ Allowance(j)' \in Nat /\ Allowance(j)' >= Allowance(j)
    BY <1>2, <1>3, BudgetType, AllowanceGrows DEF Ready
  <2> QED BY <1>1, <2>1 DEF Blameless
<1>5. ASSUME NEW u \in Workers \ {w} PROVE Untroubled(u)'
  <2>1. pc'[u] = pc[u] /\ job'[u] = job[u] /\ view'[u] = view[u]
    BY <1>1
  <2>2. NotOvertaken(u)'
    BY <2>1, NotOvertakenKept DEF Spotless
  <2>3. Spared(u)
    BY <1>1, <2>1, <2>2 DEF Spared
  <2> QED BY <1>2, <1>3, <2>3, SparedUntroubled DEF Ready, Blameless
<1>6. Untroubled(w)'
  <2>1. PICK j \in Jobs : j = job[w]
    BY InsideFits DEF Ready, Before
  <2>2. job[w] # None
    BY InsideFits DEF Ready, Before
  <2>3. /\ jobs[j].attempt \in Nat /\ Allowance(j) \in Nat /\ Allowance(j)' \in Nat
        /\ Allowance(j)' >= Allowance(j) /\ Allowance(j) \in {budget.raises, budget.raises + 1}
    BY <1>2, <1>3, BudgetType, AllowanceGrows DEF Ready
  <2>4. jobs[j].attempt - 1 <= Allowance(j)
    BY <2>1, <2>2 DEF Blameless, Untroubled, Tries
  <2>5. ASSUME pc'[w] = "raised" PROVE jobs[j].attempt <= Allowance(j)'
    <3>1. CASE budget'.raises = budget.raises + 1
      <4>1. CriticsThere(db, j.gen) => CriticsThere(db', j.gen)
        BY <1>3 DEF CriticsThere
      <4>2. Allowance(j)' >= Allowance(j) + 1
        BY <1>2, <3>1, <4>1 DEF Allowance
      <4> QED BY <2>3, <2>4, <4>2
    <3>2. CASE /\ j.type = "RUN_JUDGE" /\ CriticsThere(db, j.gen)
               /\ jobs[j].attempt - 1 <= budget.raises
      <4>1. Allowance(j) = budget.raises + 1
        BY <3>2 DEF Allowance
      <4> QED BY <1>2, <2>3, <3>2, <4>1
    <3> QED BY <2>1, <2>5, <3>1, <3>2 DEF Spotless, Forgiven
  <2>6. Tries(w)'
    <3>1. job'[w] = j /\ jobs'[j].attempt = jobs[j].attempt
      BY <1>1, <2>1
    <3>2. jobs'[j].attempt - 1 <= Allowance(j)'
      BY <2>3, <2>4, <3>1
    <3> QED BY <1>1, <2>5, <3>1, <3>2 DEF Tries
  <2>7. NotOvertaken(w)'
    BY <1>1 DEF NotOvertaken, MovesRun
  <2> QED BY <1>1, <2>6, <2>7 DEF Untroubled, Spotless
<1> QED BY <1>4, <1>5, <1>6 DEF Blameless, Spotless

-----------------------------------------------------------------------------
(* The steps of the loop.                                                   *)

LEMMA LoopCareful ==
  ASSUME db' = db, \A u \in Workers : todo'[u] \subseteq todo[u]
  PROVE  TodoCareful /\ CandsCareful
BY DEF TodoCareful, CandsCareful

LEMMA LoopBlameless ==
  ASSUME Ready, RunInv', Blameless, UNCHANGED <<db, budget>>, NEW w \in Workers, Untroubled(w)',
         \A u \in Workers \ {w} : pc'[u] = pc[u] /\ job'[u] = job[u] /\ view'[u] = view[u],
         \A u \in Workers \ {w} : job[u] # None => jobs'[job[u]].attempt = jobs[job[u]].attempt,
         \A j \in Jobs : /\ jobs'[j].status # "failed"
                         /\ jobs'[j].status = "queued" => jobs'[j].attempt <= Allowance(j)
  PROVE  Blameless'
<1>1. budget'.raises >= budget.raises /\ Here(db) \subseteq Here(db')
  BY BudgetType DEF Ready
<1>2. ASSUME NEW u \in Workers \ {w} PROVE Untroubled(u)'
  <2>1. NotOvertaken(u)'
    BY StillNotOvertaken DEF Blameless, Untroubled
  <2>2. Spared(u)
    BY <2>1 DEF Spared
  <2> QED BY <1>1, <2>2, SparedUntroubled DEF Ready, Blameless
<1>3. \A j \in Jobs : Allowance(j)' = Allowance(j)
  BY DEF Allowance, CriticsThere
<1> QED BY <1>2, <1>3 DEF Blameless

\* A worker without a job has nothing to answer for.
LEMMA FreeUntroubled ==
  ASSUME NEW w \in Workers, job'[w] = None, view'[w] = None, pc'[w] \notin {"failrun", "terminal"}
  PROVE  Untroubled(w)'
BY DEF Untroubled, Tries, NotOvertaken, MovesRun

Leads == TodoCareful /\ CandsCareful /\ (Blameless => PaidFor' \/ Blameless')

LEMMA DropLeads ==
  ASSUME Ready, RunInv', UNCHANGED <<db, budget>>, NEW w \in Workers, NEW where \in {"idle", "dead"},
         Drop(w, where), \A j \in Jobs : jobs'[j].attempt = jobs[j].attempt,
         Blameless => \A j \in Jobs : /\ jobs'[j].status # "failed"
                                      /\ jobs'[j].status = "queued" => jobs'[j].attempt <= Allowance(j)
  PROVE  Leads
<1>1. /\ pc \in [Workers -> UnitsOfWork \union Between] /\ todo \in [Workers -> SUBSET Jobs]
      /\ view \in [Workers -> Database \union {None}] /\ job \in [Workers -> Jobs \union {None}]
  BY DEF Ready, Before, RunInv, Loop, LoopInv, LoopTyped
<1>2. /\ pc'[w] = where /\ job'[w] = None /\ view'[w] = None
      /\ \A u \in Workers \ {w} : pc'[u] = pc[u] /\ job'[u] = job[u] /\ view'[u] = view[u]
      /\ \A u \in Workers : todo'[u] \subseteq todo[u]
  BY <1>1 DEF Drop, Goto
<1>3. TodoCareful /\ CandsCareful
  BY <1>2, LoopCareful
<1>4. ASSUME Blameless PROVE Blameless'
  <2>1. Untroubled(w)'
    BY <1>2, FreeUntroubled
  <2>2. \A u \in Workers \ {w} : job[u] # None => jobs'[job[u]].attempt = jobs[job[u]].attempt
    BY <1>1
  <2> QED BY <1>2, <1>4, <2>1, <2>2, LoopBlameless
<1> QED BY <1>3, <1>4 DEF Leads

LEMMA RestartLeads ==
  ASSUME Ready, RunInv', NEW w \in Workers, Restart(w)
  PROVE  Leads
BY DropLeads DEF Restart, Blameless

\* Where a job is released its attempts are counted, and whether they are paid for.
LEMMA SettleLeads ==
  ASSUME Ready, RunInv', NEW w \in Workers, Settle(w)
  PROVE  Leads
<1>1. jobs \in [Jobs -> JobRow] /\ UNCHANGED <<db, budget>>
  BY BudgetType DEF Ready, Settle
<1>2. jobs' = jobs \/ jobs' = Released(job[w], "done")
  BY DEF Settle
<1>3. \A j \in Jobs : /\ jobs'[j].attempt = jobs[j].attempt
                      /\ jobs'[j].status = jobs[j].status \/ jobs'[j].status = "done"
  <2>1. PICK j \in Jobs : j = job[w]
    BY HolderFits DEF Settle, Ready, Before, RunInv, Loop, LoopInv, LoopOK
  <2>2. CASE jobs' = Released(j, "done")
    <3>1. \A k \in Jobs : jobs'[k] = IF k = j THEN [jobs[k] EXCEPT !.status = "done", !.owner = None]
                                     ELSE jobs[k]
      BY <1>1, <2>2 DEF Released
    <3>2. \A k \in Jobs : jobs[k] \in JobRow
      BY <1>1
    <3> QED BY <3>1, <3>2 DEF JobRow
  <2> QED BY <1>2, <2>1, <2>2
<1>4. \E where \in {"idle", "dead"} : Drop(w, where)
  BY DEF Settle
<1> QED BY <1>1, <1>3, <1>4, DropLeads DEF Blameless

LEMMA FailLeads ==
  ASSUME Ready, RunInv', NEW w \in Workers, Fail(w)
  PROVE  Leads
<1>0. jobs \in [Jobs -> JobRow] /\ UNCHANGED <<db, budget>> /\ pc[w] = "raised"
  BY BudgetType DEF Ready, Fail
<1>1. PICK j \in Jobs : j = job[w]
  BY HolderFits, <1>0 DEF Ready, Before, RunInv, Loop, LoopInv, LoopOK
<1>2. /\ job[w] # None /\ jobs[j].attempt \in Nat /\ Allowance(j) \in Nat /\ MaxAttempts \in Nat
      /\ budget.raises \in Nat /\ Allowance(j) \in {budget.raises, budget.raises + 1}
  BY <1>1, NoneAssumption, BudgetType DEF Ready
<1>3. Blameless => jobs[j].attempt <= Allowance(j)
  BY <1>0, <1>1, <1>2 DEF Blameless, Untroubled, Tries
<1>4. CASE ~Owns(w)
  <2>1. jobs' = jobs /\ Drop(w, "dead")
    BY <1>4 DEF Fail
  <2> QED BY <1>0, <2>1, DropLeads DEF Blameless
<1>5. CASE Owns(w) /\ ~Exhausted(j)
  <2>1. jobs' = Released(j, "queued") /\ Drop(w, "idle")
    BY <1>1, <1>5 DEF Fail
  <2>2. \A k \in Jobs : /\ jobs'[k].attempt = jobs[k].attempt
                        /\ jobs'[k].status = IF k = j THEN "queued" ELSE jobs[k].status
    BY <1>0, <2>1 DEF Released, JobRow
  <2>3. Blameless => \A k \in Jobs : /\ jobs'[k].status # "failed"
                                     /\ jobs'[k].status = "queued" => jobs'[k].attempt <= Allowance(k)
    BY <1>3, <2>2 DEF Blameless
  <2> QED BY <1>0, <2>1, <2>2, <2>3, DropLeads
<1>6. CASE Owns(w) /\ Exhausted(j)
  <2>1. Goto(w, "terminal", {})
    BY <1>1, <1>6 DEF Fail
  <2>2. todo \in [Workers -> SUBSET Jobs]
    BY DEF Ready, Before, RunInv, Loop, LoopInv, LoopTyped
  <2>3. TodoCareful /\ CandsCareful
    BY <1>0, <2>1, <2>2, LoopCareful DEF Goto
  <2>4. Blameless => MaxAttempts <= Allowance(j)
    BY <1>2, <1>3, <1>6 DEF Exhausted
  <2>5. CriticCount = 0 => Allowance(j) = budget.raises
    <3> SUFFICES ASSUME CriticCount = 0 PROVE ~CriticsThere(db, j.gen)
      BY <1>2 DEF Allowance
    <3> QED BY CriticParts DEF CriticsThere
  <2>6. CriticCount \in Nat
    BY RunCreateAssumption
  <2>7. Blameless => PaidFor'
    BY <1>0, <1>2, <2>4, <2>5, <2>6 DEF PaidFor
  <2> QED BY <2>3, <2>7 DEF Leads
<1> QED BY <1>4, <1>5, <1>6

LEMMA EnqueueNextLeads ==
  ASSUME Ready, RunInv', NEW w \in Workers, EnqueueNext(w)
  PROVE  Leads
<1>1. PICK j \in todo[w] : EnqueueOne(w, j)
  BY DEF EnqueueNext
<1>2. /\ pc \in [Workers -> UnitsOfWork \union Between] /\ todo \in [Workers -> SUBSET Jobs]
      /\ view \in [Workers -> Database \union {None}] /\ job \in [Workers -> Jobs \union {None}]
      /\ jobs \in [Jobs -> JobRow] /\ j \in Jobs
  BY <1>1 DEF Ready, Before, RunInv, Loop, LoopInv, LoopTyped
<1>3. /\ UNCHANGED <<db, budget, job>> /\ pc[w] = "enqueue" /\ pc'[w] \in {"settle", "enqueue"}
      /\ view'[w] = None /\ \A u \in Workers : todo'[u] \subseteq todo[u]
      /\ \A u \in Workers \ {w} : pc'[u] = pc[u] /\ job'[u] = job[u] /\ view'[u] = view[u]
      /\ jobs' = Enqueued(jobs, {j})
  BY <1>1, <1>2 DEF EnqueueOne, Goto
<1>4. TodoCareful /\ CandsCareful
  BY <1>3, LoopCareful
<1>5. \A k \in Jobs : /\ jobs'[k].attempt = jobs[k].attempt
                      /\ \/ jobs'[k].status = jobs[k].status
                         \/ jobs'[k].status = "queued" /\ jobs[k].status = "absent" /\ jobs[k].attempt = 0
  <2>1. \A k \in Jobs : jobs[k].status = "absent" => jobs[k].attempt = 0
    BY DEF Ready, Before, RunInv, Loop, LoopInv, RowsOK, AttemptsLeft
  <2> QED BY <1>2, <1>3, <2>1 DEF Enqueued, JobRow
<1>6. ASSUME Blameless PROVE Blameless'
  <2>1. Untroubled(w)'
    <3>1. job[w] # None /\ job[w] \in Jobs
      BY <1>2, <1>3 DEF Ready, Before, RunInv, Loop, LoopInv, LoopOK
    <3>2. PICK k \in Jobs : k = job[w]
      BY <3>1
    <3>3. jobs[k].attempt - 1 <= Allowance(k)
      BY <1>6, <3>1, <3>2 DEF Blameless, Untroubled, Tries
    <3>4. Allowance(k)' = Allowance(k)
      BY <1>3 DEF Allowance, CriticsThere
    <3>5. job'[w] = k /\ jobs'[k].attempt - 1 <= Allowance(k)' /\ pc'[w] # "raised"
      BY <1>3, <1>5, <3>2, <3>3, <3>4
    <3>6. Tries(w)'
      BY <1>3, <3>5 DEF Tries
    <3>7. NotOvertaken(w)'
      BY <1>3 DEF NotOvertaken, MovesRun
    <3> QED BY <1>3, <3>6, <3>7 DEF Untroubled
  <2>2. \A u \in Workers \ {w} : job[u] # None => jobs'[job[u]].attempt = jobs[job[u]].attempt
    BY <1>2, <1>5
  <2>3. \A k \in Jobs : /\ jobs'[k].status # "failed"
                        /\ jobs'[k].status = "queued" => jobs'[k].attempt <= Allowance(k)
    <3>1. \A k \in Jobs : Allowance(k) \in Nat
      BY BudgetType DEF Ready
    <3> QED BY <1>5, <1>6, <3>1 DEF Blameless
  <2> QED BY <1>3, <1>6, <2>1, <2>2, <2>3, LoopBlameless
<1> QED BY <1>4, <1>6 DEF Leads

-----------------------------------------------------------------------------
(* Claims, and units of work.                                               *)

LEMMA ClaimLeads ==
  ASSUME Ready, RunInv', NEW w \in Workers, NEW j \in Jobs, Claim(w, j)
  PROVE  Leads
<1>1. /\ pc \in [Workers -> UnitsOfWork \union Between] /\ todo \in [Workers -> SUBSET Jobs]
      /\ view \in [Workers -> Database \union {None}] /\ job \in [Workers -> Jobs \union {None}]
      /\ jobs \in [Jobs -> JobRow] /\ (view[w] # None => pc[w] \in UnitsOfWork)
  BY DEF Ready, Before, RunInv, Loop, LoopInv, LoopTyped, LoopOK
<1>2. /\ UNCHANGED <<db, budget, view, todo>> /\ pc[w] = "idle" /\ jobs[j].status = "queued"
      /\ pc' = [pc EXCEPT ![w] = FirstUnit(j.type)] /\ job' = [job EXCEPT ![w] = j]
      /\ jobs' = [jobs EXCEPT ![j] = [status |-> "running", attempt |-> @.attempt + 1, owner |-> w]]
  BY DEF Claim, ClaimFor
<1>3. /\ view'[w] = None /\ job'[w] = j /\ pc'[w] = FirstUnit(j.type)
      /\ \A u \in Workers \ {w} : pc'[u] = pc[u] /\ job'[u] = job[u] /\ view'[u] = view[u]
      /\ jobs'[j].attempt = jobs[j].attempt + 1 /\ jobs'[j].status = "running"
      /\ \A k \in Jobs \ {j} : jobs'[k] = jobs[k]
  BY <1>1, <1>2 DEF UnitsOfWork
<1>4. pc'[w] \in {"create", "judging", "finalize", "start"}
  BY <1>3, TypeSays DEF FirstUnit, AgentJobs
<1>5. TodoCareful /\ CandsCareful
  BY <1>2, LoopCareful
<1>6. ASSUME Blameless PROVE Blameless'
  <2>1. Untroubled(w)'
    <3>1. jobs[j].attempt <= Allowance(j) /\ jobs[j].attempt \in Nat
      BY <1>2, <1>6, BudgetType DEF Blameless, Ready
    <3>2. Allowance(j)' = Allowance(j)
      BY <1>2 DEF Allowance, CriticsThere
    <3>3. jobs'[j].attempt - 1 = jobs[j].attempt
      BY <1>3, <3>1
    <3>4. jobs'[j].attempt - 1 <= Allowance(j)'
      BY <3>1, <3>2, <3>3
    <3>5. Tries(w)'
      BY <1>3, <1>4, <3>4 DEF Tries
    <3>6. NotOvertaken(w)'
      BY <1>3 DEF NotOvertaken, MovesRun
    <3> QED BY <1>3, <1>4, <3>5, <3>6 DEF Untroubled
  <2>2. ASSUME NEW u \in Workers \ {w}, job[u] # None PROVE jobs'[job[u]].attempt = jobs[job[u]].attempt
    <3>1. pc[u] # "terminal"
      BY <1>6 DEF Blameless, Untroubled
    <3>2. jobs[job[u]].status = "running" /\ job[u] \in Jobs
      BY <1>1, <2>2, <3>1 DEF Ready, Before, Calm, RunInv, Loop, LoopInv, Exclusive, Owns
    <3> QED BY <1>2, <1>3, <3>2
  <2>3. \A k \in Jobs : /\ jobs'[k].status # "failed"
                        /\ jobs'[k].status = "queued" => jobs'[k].attempt <= Allowance(k)
    BY <1>3, <1>6 DEF Blameless
  <2> QED BY <1>2, <1>3, <1>6, <2>1, <2>2, <2>3, LoopBlameless
<1> QED BY <1>5, <1>6 DEF Leads

LEMMA BeginLeads ==
  ASSUME Ready, RunInv', NEW w \in Workers, Begin(w)
  PROVE  Leads
<1>1. /\ view \in [Workers -> Database \union {None}] /\ job \in [Workers -> Jobs \union {None}]
      /\ jobs \in [Jobs -> JobRow] /\ (pc[w] \in {"idle", "dead"} <=> job[w] = None)
  BY DEF Ready, Before, RunInv, Loop, LoopInv, LoopTyped, LoopOK
<1>2. /\ UNCHANGED <<db, jobs, api, pc, job, todo, budget>> /\ view' = [view EXCEPT ![w] = db]
      /\ pc[w] \in UnitsOfWork
  BY DEF Begin, BeginAt
<1>3. view'[w] = db /\ \A u \in Workers \ {w} : view'[u] = view[u]
  BY <1>1, <1>2
<1>4. TodoCareful /\ CandsCareful
  BY <1>2, LoopCareful
<1>5. ASSUME Blameless PROVE Blameless'
  <2>1. job[w] # None /\ job[w] \in Jobs /\ pc[w] # "raised"
    BY <1>1, <1>2 DEF UnitsOfWork
  <2>2. PICK j \in Jobs : j = job[w]
    BY <2>1
  <2>3. /\ jobs[j].attempt \in Nat /\ budget.raises \in Nat
        /\ jobs[j].attempt - 1 <= Allowance(j)
    BY <1>5, <2>1, <2>2, BudgetType DEF Blameless, Untroubled, Tries, Ready
  <2>4. jobs[j].attempt - 1 <= budget.raises \/ CriticsThere(db, j.gen)
    BY <2>3 DEF Allowance
  <2>5. Allowance(j)' = Allowance(j)
    BY <1>2 DEF Allowance, CriticsThere
  <2>6. jobs'[j].attempt - 1 <= budget'.raises \/ CriticsThere(view'[w], j.gen)
    BY <1>2, <1>3, <2>4
  <2>7. jobs'[j].attempt - 1 <= Allowance(j)'
    BY <1>2, <2>3, <2>5
  <2>8. Tries(w)'
    BY <1>2, <2>1, <2>2, <2>6, <2>7 DEF Tries
  <2>9. NotOvertaken(w)'
    BY <1>2, <1>3 DEF NotOvertaken
  <2>10. Untroubled(w)'
    BY <1>2, <1>3, <1>5, <2>8, <2>9 DEF Untroubled, Blameless
  <2> QED BY <1>2, <1>3, <1>5, <2>10, LoopBlameless DEF Blameless
<1> QED BY <1>4, <1>5 DEF Leads

LEMMA ApiLeads ==
  ASSUME Ready, RunInv', CreateRun \/ EnqueueCreateGeneration \/ UNCHANGED vars
  PROVE  Leads
<1>1. /\ jobs \in [Jobs -> JobRow] /\ CreateJob \in Jobs /\ db \in Database
      /\ \A k \in Jobs : jobs[k].status = "absent" => jobs[k].attempt = 0
  BY JobSets, GenerationsType
     DEF Ready, Before, RunInv, Loop, LoopInv, LoopTyped, RowsOK, AttemptsLeft
<1>2. UNCHANGED <<pc, job, view, todo, budget>>
  BY DEF CreateRun, EnqueueCreateGeneration, vars, workerVars
<1>3. /\ \/ db' = db
         \/ db' = [db EXCEPT !.status = "CREATED"] /\ db.status = "NONE" /\ jobs' = jobs
      /\ jobs' = jobs \/ jobs' = Enqueued(jobs, {CreateJob})
  BY DEF CreateRun, EnqueueCreateGeneration, vars, Ready, Before, RunInv
<1>4. db'.cands = db.cands /\ Here(db') = Here(db)
  BY <1>1, <1>3 DEF Database, Here
<1>5. TodoCareful /\ CandsCareful
  BY <1>2, <1>4 DEF TodoCareful, CandsCareful
<1>6. \A k \in Jobs : /\ jobs'[k].attempt = jobs[k].attempt
                      /\ \/ jobs'[k].status = jobs[k].status
                         \/ jobs'[k].status = "queued" /\ jobs[k].status = "absent" /\ jobs[k].attempt = 0
  <2>1. CASE jobs' = jobs
    BY <2>1
  <2>2. CASE jobs' = Enqueued(jobs, {CreateJob})
    BY <1>1, <2>2 DEF Enqueued, JobRow
  <2> QED BY <1>3, <2>1, <2>2
<1>7. ASSUME Blameless PROVE Blameless'
  <2>1. \A k \in Jobs : Allowance(k)' = Allowance(k) /\ Allowance(k) \in Nat
    BY <1>2, <1>4, BudgetType DEF Allowance, CriticsThere, Ready
  <2>2. \A k \in Jobs : /\ jobs'[k].status # "failed"
                        /\ jobs'[k].status = "queued" => jobs'[k].attempt <= Allowance(k)'
    BY <1>6, <1>7, <2>1 DEF Blameless
  <2>3. ASSUME NEW u \in Workers PROVE Untroubled(u)'
    <3>1. NotOvertaken(u)'
      <4>1. CASE db' = db
        BY <1>2, <1>7, <4>1, StillNotOvertaken DEF Blameless, Untroubled
      <4>2. CASE db.status = "NONE"
        <5>1. view[u] = None
          BY <4>2 DEF Ready, Before, RunInv, WorkerFits, JobFits, Behind
        <5> QED BY <1>2, <5>1 DEF NotOvertaken, MovesRun
      <4> QED BY <1>3, <4>1, <4>2
    <3>2. job[u] # None => jobs'[job[u]].attempt = jobs[job[u]].attempt
      BY <1>6, BudgetType DEF Ready
    <3>3. Spared(u)
      BY <1>2, <3>1, <3>2 DEF Spared
    <3>4. budget'.raises >= budget.raises
      BY <1>2, BudgetType DEF Ready
    <3> QED BY <1>4, <1>7, <3>3, <3>4, SparedUntroubled DEF Blameless, Ready
  <2>4. db'.status # "FAILED"
    BY <1>1, <1>3, <1>7 DEF Blameless, Database
  <2> QED BY <2>2, <2>3, <2>4 DEF Blameless
<1> QED BY <1>5, <1>7 DEF Leads

\* A unit of work that is careful leads on.
LEMMA CarefulLeads ==
  ASSUME Ready, RunInv', NEW w \in Workers, Inside(w), Continues(w), Careful(w)
  PROVE  Leads
BY ContinuesBlameless DEF Careful, Leads

-----------------------------------------------------------------------------
(* The handlers of the jobs of agents are careful.                          *)

LEMMA GotoCareful ==
  ASSUME Ready, NEW w \in Workers, NEW where, NEW keys, Goto(w, where, keys), CandsCareful,
         \A j \in keys : j.type \notin {"START_JUDGING", "FINALIZE_RUN"} \/ Reliable(j, db),
         Blameless => /\ where \notin {"failrun", "terminal"} /\ db'.status # "FAILED"
                      /\ where = "raised" => Forgiven(w)
                      /\ RunMoves(w)
  PROVE  Careful(w)
<1>1. /\ pc \in [Workers -> UnitsOfWork \union Between] /\ todo \in [Workers -> SUBSET Jobs]
  BY DEF Ready, Before, RunInv, Loop, LoopInv, LoopTyped
<1>2. pc'[w] = where /\ todo'[w] = keys /\ \A u \in Workers \ {w} : todo'[u] = todo[u]
  BY <1>1 DEF Goto
<1>3. TodoCareful
  BY <1>2 DEF TodoCareful
<1> QED BY <1>2, <1>3 DEF Careful, Spotless

\* The database is left as it is.
LEMMA SameIsCareful ==
  ASSUME db' = db
  PROVE  CandsCareful /\ StaysPut
BY DEF CandsCareful, StaysPut

LEMMA ReturnCareful ==
  ASSUME Ready, NEW w \in Workers, NEW where, NEW keys, Return(w, where, keys),
         \A j \in keys : j.type \notin {"START_JUDGING", "FINALIZE_RUN"} \/ Reliable(j, db),
         Blameless => where \notin {"failrun", "terminal"} /\ (where = "raised" => Forgiven(w))
  PROVE  Careful(w)
<1>1. Goto(w, where, keys) /\ db' = db
  BY DEF Return
<1>2. CandsCareful /\ RunMoves(w) /\ (Blameless => db'.status # "FAILED")
  BY <1>1, SameIsCareful DEF RunMoves, Blameless
<1> QED BY <1>1, <1>2, GotoCareful

LEMMA SettlesCareful ==
  ASSUME Ready, NEW w \in Workers, Return(w, "settle", {})
  PROVE  Careful(w)
BY ReturnCareful

\* What cannot happen while nobody is to blame.
LEMMA RaiseCareful ==
  ASSUME Ready, NEW w \in Workers, Raise(w), Blameless => Forgiven(w)
  PROVE  Careful(w)
BY ReturnCareful DEF Raise

LEMMA ProviderCareful ==
  ASSUME Ready, NEW w \in Workers, ProviderAnswers(w) \/ ProviderFails(w)
  PROVE  Careful(w)
<1>1. CASE ProviderAnswers(w)
  BY <1>1, ReturnCareful DEF ProviderAnswers
<1>2. CASE ProviderFails(w)
  <2>1. /\ Goto(w, "raised", {}) /\ db' = db /\ budget' = [budget EXCEPT !.raises = @ + 1]
    BY <1>2 DEF ProviderFails
  <2>2. budget \in [raises : Nat, lapses : Nat, crashes : Nat, lost : SUBSET Jobs]
    BY DEF Ready, Before, RunInv, Loop, LoopInv, LoopTyped
  <2>3. Forgiven(w)
    BY <2>1, <2>2 DEF Forgiven
  <2>4. CandsCareful /\ RunMoves(w) /\ (Blameless => db'.status # "FAILED")
    BY <2>1, SameIsCareful DEF RunMoves, Blameless
  <2> QED BY <2>1, <2>3, <2>4, GotoCareful
<1> QED BY <1>1, <1>2

LEMMA BecomesCareful ==
  ASSUME Ready, NEW w \in Workers, pc[w] \in {"start", "result"},
         NEW new \in Database, Here(new) = Here(db), new.status = db.status, new.gens = db.gens,
         new.cands = db.cands, new.verdict = db.verdict,
         NEW status \in {"RUNNING", "COMPLETED"}, NEW where \in {"calling", "schedule"},
         Becomes(w, new, status, where)
  PROVE  Careful(w)
<1>1. PICK seen \in {view[w], db} :
        Commit(w, AgentUpdates(new, seen, job[w].agent, status), where, {})
  BY DEF Becomes
<1>2. Inside(w)
  BY DEF Inside
<1>3. job[w].agent \in Here(new)
  BY <1>2, InsideFits DEF Ready, Before
<1> DEFINE e == AgentUpdates(new, seen, job[w].agent, status)
<1>4. /\ Here(e) = Here(new) /\ e.status = new.status /\ e.gens = new.gens
      /\ e.cands = new.cands /\ e.verdict = new.verdict
  <2>1. status \in AgentStatus \ {"ABSENT"}
    BY DEF AgentStatus
  <2>2. ASSUME NEW a \in Here(new)
        PROVE  LET f == AgentUpdates(new, seen, a, status)
               IN  /\ Here(f) = Here(new) /\ f.status = new.status /\ f.gens = new.gens
                   /\ f.cands = new.cands /\ f.verdict = new.verdict
    BY <2>1, AgentUpdatesKeep
  <2> QED BY <1>3, <2>2
<1>5. db' = e /\ Goto(w, where, {})
  BY <1>1 DEF Commit
<1> HIDE DEF e
<1>6. CandsCareful /\ StaysPut
  BY <1>4, <1>5 DEF CandsCareful, StaysPut
<1>7. RunMoves(w) /\ (Blameless => db'.status # "FAILED")
  BY <1>4, <1>5, <1>6 DEF RunMoves, Blameless
<1> QED BY <1>5, <1>6, <1>7, GotoCareful

LEMMA ResumeCareful ==
  ASSUME Ready, NEW w \in Workers, pc[w] = "start", Resume(w)
  PROVE  Careful(w)
<1>1. db \in Database
  BY DEF Ready, Before, RunInv
<1>2. CASE Becomes(w, db, "COMPLETED", "schedule")
  BY <1>1, <1>2, BecomesCareful
<1>3. CASE Return(w, "schedule", {})
  BY <1>3, ReturnCareful
<1> QED BY <1>2, <1>3 DEF Resume

LEMMA StartCareful ==
  ASSUME Ready, NEW w \in Workers, StartResearch(w) \/ StartJudge(w) \/ StartCritic(w)
  PROVE  Careful(w)
<1>1. pc[w] = "start" /\ db \in Database
  BY DEF StartResearch, StartJudge, StartCritic, At, Ready, Before, RunInv
<1>2. Resume(w) \/ Becomes(w, db, "RUNNING", "calling") \/ Return(w, "settle", {})
  BY DEF StartResearch, StartJudge, StartCritic
<1> QED BY <1>1, <1>2, ResumeCareful, BecomesCareful, SettlesCareful

LEMMA StoreSubmissionCareful ==
  ASSUME Ready, NEW w \in Workers, StoreSubmission(w)
  PROVE  Careful(w)
<1> DEFINE a == job[w].agent
           new == [db EXCEPT !.subs = @ \union {a}]
<1>1. view[w] # None /\ pc[w] = "result" /\ job[w].type = "RUN_RESEARCH_AGENT"
  BY DEF StoreSubmission, At
<1>2. a \in Submissions /\ db \in Database /\ SameRows(view[w], db, a)
  BY <1>1, OwnSight, AgentSets DEF Ready, Before, Calm
<1>3. /\ new \in Database /\ Here(new) = Here(db) /\ new.status = db.status /\ new.gens = db.gens
      /\ new.cands = db.cands /\ new.verdict = db.verdict
  BY <1>2 DEF Database, Here
<1>4. Becomes(w, new, "COMPLETED", "schedule")
  BY <1>2 DEF StoreSubmission, SameRows
<1> HIDE DEF new
<1> QED BY <1>1, <1>3, <1>4, BecomesCareful

LEMMA StoreEvaluationsCareful ==
  ASSUME Ready, NEW w \in Workers, StoreEvaluations(w)
  PROVE  Careful(w)
<1> DEFINE a == job[w].agent
           fresh == Unjudged(view[w], a)
           new == [db EXCEPT !.evals = @ \union (fresh \X {a})]
<1>1. view[w] # None /\ pc[w] = "result" /\ job[w].type = "RUN_JUDGE"
  BY DEF StoreEvaluations, At
<1>2. /\ a \in JudgesOf(a.gen) /\ a.gen \in Generations /\ db \in Database /\ view[w] \in Database
      /\ SameRows(view[w], db, a)
  BY <1>1, OwnSight DEF Ready, Before, Calm
<1>3. fresh \subseteq Submissions /\ \A s \in fresh : <<s, a>> \notin view[w].evals
  <2>1. view[w].subs \subseteq Submissions
    BY <1>2 DEF Database
  <2> QED BY <2>1 DEF Unjudged, SubsOf
<1>4. fresh \X {a} \subseteq Submissions \X UNION {JudgesOf(g) : g \in Generations}
  BY <1>2, <1>3
<1>5. Becomes(w, new, "COMPLETED", "schedule")
  <2>1. \A s \in fresh : <<s, a>> \notin db.evals
    BY <1>2, <1>3 DEF SameRows
  <2> QED BY <2>1 DEF StoreEvaluations
<1> HIDE DEF fresh, a
<1>6. /\ new \in Database /\ Here(new) = Here(db) /\ new.status = db.status /\ new.gens = db.gens
      /\ new.cands = db.cands /\ new.verdict = db.verdict
  BY <1>2, <1>4 DEF Database, Here
<1> HIDE DEF new
<1> QED BY <1>1, <1>5, <1>6, BecomesCareful

LEMMA StoreFindingCareful ==
  ASSUME Ready, NEW w \in Workers, StoreFinding(w)
  PROVE  Careful(w)
<1> DEFINE a == job[w].agent
<1>1. view[w] # None /\ pc[w] = "result" /\ job[w].type = "RUN_CRITIC"
  BY DEF StoreFinding, At
<1>2. a \in Agents /\ a.gen \in Generations /\ db \in Database /\ Findings(view[w], a) = Findings(db, a)
  BY <1>1, OwnSight DEF Ready, Before, Calm, SameRows
<1>3. CASE Becomes(w, db, "COMPLETED", "schedule")
  BY <1>1, <1>2, <1>3, BecomesCareful
<1>4. ASSUME NEW fatal \in BOOLEAN,
             Becomes(w, [db EXCEPT !.finds = @ \union {[critic |-> a, sub |-> Elite(a.gen, {}), fatal |-> fatal]}],
                     "COMPLETED", "schedule")
      PROVE  Careful(w)
  <2> DEFINE f == [critic |-> a, sub |-> Elite(a.gen, {}), fatal |-> fatal]
             new == [db EXCEPT !.finds = @ \union {f}]
  <2>1. f \in [critic : Agents, sub : Submissions, fatal : BOOLEAN]
    BY <1>2, EliteParts
  <2>2. Becomes(w, new, "COMPLETED", "schedule")
    BY <1>4
  <2> HIDE DEF f
  <2>3. /\ new \in Database /\ Here(new) = Here(db) /\ new.status = db.status /\ new.gens = db.gens
        /\ new.cands = db.cands /\ new.verdict = db.verdict
    BY <1>2, <2>1 DEF Database, Here
  <2> HIDE DEF new
  <2> QED BY <1>1, <2>2, <2>3, BecomesCareful
<1> QED BY <1>2, <1>3, <1>4 DEF StoreFinding

\* Nobody is about to fail the run.
LEMMA FailRunCareful ==
  ASSUME Ready, NEW w \in Workers, FailRun(w)
  PROVE  Careful(w)
<1>1. ~Blameless
  BY DEF FailRun, At, Blameless, Untroubled
<1>2. \E where, new : Commit(w, new, where, {}) /\ new.cands = db.cands
  <2>1. ASSUME NEW where, Return(w, where, {}) PROVE Commit(w, db, where, {})
    BY <2>1 DEF Return, Commit
  <2>2. PICK v \in Reads(w) : Return(w, "settle", {}) \/ CommitStatus(w, db, "FAILED", "settle", {})
    BY DEF FailRun
  <2>3. \/ Return(w, "settle", {}) \/ Return(w, "raised", {})
        \/ Commit(w, [db EXCEPT !.status = "FAILED"], "settle", {})
    BY <2>2, CommitStatusIs DEF Raise
  <2>4. [db EXCEPT !.status = "FAILED"].cands = db.cands
    BY DEF Ready, Before, RunInv, Database
  <2> QED BY <2>1, <2>3, <2>4
<1>3. PICK where, new : Commit(w, new, where, {}) /\ new.cands = db.cands
  BY <1>2
<1>4. CandsCareful /\ Goto(w, where, {})
  BY <1>3 DEF CandsCareful, Commit
<1> QED BY <1>1, <1>4, GotoCareful

LEMMA ReportFailureLeads ==
  ASSUME Ready, NEW w \in Workers, ReportFailure(w)
  PROVE  Leads
<1>1. ~Blameless
  BY DEF ReportFailure, At, Blameless, Untroubled
<1>2. db'.cands = db.cands
  BY ReportFailureDoes DEF Plain, Alike, Ready, Before
<1>3. \E where : Goto(w, where, {})
  BY DEF ReportFailure, Drop
<1>4. todo \in [Workers -> SUBSET Jobs]
  BY DEF Ready, Before, RunInv, Loop, LoopInv, LoopTyped
<1>5. TodoCareful
  BY <1>3, <1>4 DEF TodoCareful, Goto
<1> QED BY <1>1, <1>2, <1>5 DEF Leads, CandsCareful

-----------------------------------------------------------------------------
(* The orchestrator's units of work are careful.                            *)

\* No agent has failed, and none was seen failed.
LEMMA NobodyFailed ==
  ASSUME Ready, Blameless
  PROVE  /\ \A a \in Agents : db.agents[a] # "FAILED"
         /\ \A w \in Workers : view[w] # None => \A v \in Reads(w) : \A a \in Agents : v.agents[a] # "FAILED"
<1>1. ASSUME NEW a \in Agents PROVE db.agents[a] # "FAILED"
  <2>1. \E j \in Jobs : j.agent = a
    <3>1. PICK g \in Generations : a \in Researchers(g) \/ a \in JudgesOf(g) \/ a \in CriticsOf(g)
      BY DEF Agents
    <3> QED BY <3>1, StageJobs
  <2>2. PICK j \in Jobs : j.agent = a
    BY <2>1
  <2>3. j.agent # None /\ jobs[j].status # "failed"
    BY <2>2, NoneAssumption DEF Blameless
  <2> QED BY <2>2, <2>3 DEF Ready, Before, Results, FailedJobs
<1>2. ASSUME NEW w \in Workers, view[w] # None, NEW v \in Reads(w), NEW a \in Agents PROVE v.agents[a] # "FAILED"
  <2>1. AgentsStand(view[w], db)
    BY <1>2 DEF Ready, Before, Results
  <2>2. v = view[w] \/ v.agents = db.agents
    <3>1. [db EXCEPT !.status = view[w].status].agents = db.agents
      BY DEF Ready, Before, RunInv, Database
    <3> QED BY <3>1 DEF Reads
  <2> QED BY <1>1, <2>1, <2>2 DEF AgentsStand
<1> QED BY <1>1, <1>2

\* A run status update that was allowed, as the run was read and as it is, is made.
LEMMA CommitStatusGoes ==
  ASSUME NEW w \in Workers, NEW new, NEW target, NEW where, NEW keys,
         CommitStatus(w, new, target, where, keys),
         target \in Allowed[view[w].status], target \in Allowed[db.status]
  PROVE  Commit(w, [new EXCEPT !.status = target], where, keys)
BY DEF CommitStatus

LEMMA AllowedMoves ==
  /\ "RESEARCHING" \in Allowed["CREATED"] /\ "JUDGING" \in Allowed["RESEARCHING"]
  /\ "RESEARCHING" \in Allowed["JUDGING"] /\ "COMPLETED" \in Allowed["JUDGING"]
BY DEF Allowed, RunStatus

LEMMA CommitCareful ==
  ASSUME Ready, NEW w \in Workers, NEW new \in Database, NEW where, NEW keys, Commit(w, new, where, keys),
         \A j \in keys : j.type \notin {"START_JUDGING", "FINALIZE_RUN"} \/ Reliable(j, db),
         CriticCount # 0 =>
           \A s \in Submissions : (new.cands[s] # "ABSENT" /\ db.cands[s] = "ABSENT") => CriticsThere(new, s.gen),
         Blameless => where \notin {"failrun", "terminal", "raised"} /\ new.status # "FAILED" /\ RunMoves(w)
  PROVE  Careful(w)
<1>1. db' = new /\ Goto(w, where, keys)
  BY DEF Commit
<1>2. CandsCareful
  BY <1>1 DEF CandsCareful
<1> QED BY <1>1, <1>2, GotoCareful

LEMMA MaybeScheduleJudgingCareful ==
  ASSUME Ready, NEW w \in Workers, MaybeScheduleJudging(w)
  PROVE  Careful(w)
<1> DEFINE g == job[w].gen
<1>0. /\ pc[w] = "schedule" /\ view[w] # None /\ Inside(w)
  BY DEF MaybeScheduleJudging, At, Inside
<1>1. PICK v \in Reads(w) :
        \/ Return(w, "settle", {})
        \/ SomeFailed(v, Researchers(g)) /\ Return(w, "failrun", {})
        \/ ResearchComplete(v, g) /\ Return(w, "enqueue", {StartJudgingJob(g)})
  BY DEF MaybeScheduleJudging
<1>2. g \in Generations /\ g = job[w].gen
  BY <1>0, InsideHolds DEF Ready
<1> HIDE DEF g
<1>3. Researchers(g) \subseteq Agents
  BY <1>2, AgentSets
<1>4. CASE Return(w, "settle", {})
  BY <1>4, SettlesCareful
<1>5. CASE SomeFailed(v, Researchers(g)) /\ Return(w, "failrun", {})
  <2>1. ~Blameless
    BY <1>0, <1>3, <1>5, NobodyFailed DEF SomeFailed
  <2> QED BY <1>5, <2>1, ReturnCareful
<1>6. CASE ResearchComplete(v, g) /\ Return(w, "enqueue", {StartJudgingJob(g)})
  <2>1. AgentsStand(v, db) /\ v.subs \subseteq db.subs
    BY <1>0, ReadsStand, ReadsFit DEF Ready, Before, Behind
  <2>2. ResearchDone(db, g)
    BY <1>3, <1>6, <2>1 DEF ResearchComplete, AllCompleted, SubsOf, ResearchDone, AgentsStand
  <2>3. Reliable(StartJudgingJob(g), db)
    BY <2>2 DEF Reliable, StartJudgingJob, Job
  <2> QED BY <1>6, <2>3, ReturnCareful
<1> QED BY <1>1, <1>4, <1>5, <1>6

LEMMA StartRunCareful ==
  ASSUME Ready, NEW w \in Workers, StartRun(w)
  PROVE  Careful(w)
<1>0. /\ pc[w] = "create" /\ view[w] # None /\ Inside(w) /\ db \in Database /\ job[w] = CreateJob /\ Before
  BY InsideFits DEF StartRun, At, Inside, Ready, Before, RunInv
<1> DEFINE keys == {ResearchJob(a) : a \in Researchers(0)}
           new == [db EXCEPT !.gens = 1, !.agents = Spawned(@, Researchers(0))]
<1>1. PICK v \in Reads(w) :
        LET first == IF v.gens > 0 THEN db ELSE new
        IN  IF v.status = "FAILED" \/ (v.gens = 0 /\ db.gens > 0) THEN Raise(w)
            ELSE IF v.status = "CREATED" THEN CommitStatus(w, first, "RESEARCHING", "enqueue", keys)
            ELSE IF v.status = "COMPLETED" THEN Commit(w, first, "settle", {})
            ELSE Commit(w, first, "enqueue", keys)
  BY DEF StartRun
<1> HIDE DEF keys, new
<1>2. /\ v \in Database /\ view[w] \in Database /\ Behind(view[w], v) /\ Behind(v, db)
      /\ v.status = view[w].status /\ v.status # "NONE" /\ StatusFits(view[w]) /\ StatusFits(db)
  BY <1>0, ReadsFit DEF Before, RunInv, WorkerFits
<1>3. /\ v.gens \in Nat /\ db.gens \in Nat /\ view[w].gens \in Nat
      /\ v.status \in RunStatus /\ db.status \in RunStatus
      /\ view[w].gens <= v.gens /\ v.gens <= db.gens /\ (view[w].gens = 0 => db.gens = 0)
  BY <1>0, <1>2, GensType DEF Behind, Before, Knows, SeesJudges
<1>4. \A k \in keys : k.type \notin {"START_JUDGING", "FINALIZE_RUN"}
  BY DEF keys, ResearchJob, Job
<1>5. Blameless => v.status # "FAILED"
  BY <1>0, <1>2 DEF Blameless, Untroubled
<1>6. CASE v.gens > 0
  <2>1. view[w].gens > 0 /\ v.status # "CREATED"
    BY <1>2, <1>3, <1>6 DEF StatusFits
  <2>2. (Raise(w) /\ ~Blameless) \/ Commit(w, db, "settle", {}) \/ Commit(w, db, "enqueue", keys)
    BY <1>1, <1>3, <1>5, <1>6, <2>1
  <2>3. CASE Raise(w) /\ ~Blameless
    BY <2>3, RaiseCareful
  <2>4. ASSUME NEW where \in {"settle", "enqueue"}, NEW k \in {{}, keys}, Commit(w, db, where, k)
        PROVE  Careful(w)
    <3>1. Blameless => db.status # "FAILED" /\ RunMoves(w)
      BY <2>4 DEF Blameless, RunMoves, StaysPut, Commit
    <3> QED BY <1>0, <1>4, <2>4, <3>1, CommitCareful
  <2> QED BY <2>2, <2>3, <2>4
<1>7. CASE ~(v.gens > 0)
  <2>1. v.gens = 0 /\ view[w].gens = 0 /\ db.gens = 0 /\ MaxGenerations # 0
    BY <1>3, <1>7, RunCreateAssumption
  <2>2. v.status \in {"CREATED", "FAILED"} /\ db.status \in {"CREATED", "FAILED"}
    BY <1>0, <1>2, <1>3, <2>1 DEF StatusFits, RunStatus, Behind
  <2>3. CASE v.status = "FAILED"
    <3>1. Raise(w)
      BY <1>1, <2>3
    <3> QED BY <1>5, <2>3, <3>1, RaiseCareful
  <2>4. CASE v.status = "CREATED"
    <3>1. CommitStatus(w, new, "RESEARCHING", "enqueue", keys)
      BY <1>1, <1>3, <1>7, <2>1, <2>4
    <3>2. CASE Commit(w, [new EXCEPT !.status = "RESEARCHING"], "enqueue", keys)
      <4> DEFINE e == [new EXCEPT !.status = "RESEARCHING"]
      <4>1. 0 \in Generations /\ Researchers(0) \subseteq Agents /\ 1 \in 0..MaxGenerations
        BY GenerationsType, AgentSets, RunCreateAssumption
      <4>2. Spawned(db.agents, Researchers(0)) \in [Agents -> AgentStatus]
        BY <1>0 DEF Spawned, Database, AgentStatus
      <4>3. e \in Database /\ e.cands = db.cands /\ e.status = "RESEARCHING"
        BY <1>0, <4>1, <4>2 DEF Database, new, RunStatus
      <4> HIDE DEF e
      <4>4. RunMoves(w)
        BY <1>0, <2>1 DEF RunMoves
      <4>5. Commit(w, e, "enqueue", keys)
        BY <3>2 DEF e
      <4> QED BY <1>4, <4>3, <4>4, <4>5, CommitCareful
    <3>3. CASE Raise(w) /\ ~Commit(w, [new EXCEPT !.status = "RESEARCHING"], "enqueue", keys)
      <4>1. ~Blameless
        <5> SUFFICES ASSUME Blameless PROVE FALSE
          OBVIOUS
        <5>1. db.status = "CREATED" /\ view[w].status = "CREATED"
          BY <1>2, <2>2, <2>4 DEF Blameless
        <5> QED BY <3>1, <3>3, <5>1, CommitStatusGoes, AllowedMoves
      <4> QED BY <3>3, <4>1, RaiseCareful
    <3> QED BY <3>1, <3>2, <3>3, CommitStatusIs
  <2> QED BY <2>2, <2>3, <2>4
<1> QED BY <1>6, <1>7

\* What a job relies on holds as its worker has read the run, and now.
LEMMA PreparedRelies ==
  ASSUME RunInv, Prepared, NEW w \in Workers, Inside(w), view[w] # None, NEW v \in Reads(w)
  PROVE  Reliable(job[w], db) /\ Reliable(job[w], view[w]) /\ Reliable(job[w], v)
<1>0. db \in Database /\ job[w] # None /\ job[w] \in Jobs /\ Known(job[w])
  BY InsideFits DEF RunInv, Loop, LoopInv, HoldsRow, Known
<1>1. PICK j \in Jobs : j = job[w]
  BY <1>0
<1>2. Promised(j)
  BY <1>0, <1>1 DEF Promised
<1>3. Reliable(j, db) /\ Reliable(j, view[w])
  BY <1>0, <1>1, <1>2 DEF Prepared
<1>4. CASE v = view[w]
  BY <1>1, <1>3, <1>4
<1>5. CASE v = [db EXCEPT !.status = view[w].status]
  <2>1. /\ v.agents = db.agents /\ v.subs = db.subs /\ v.evals = db.evals /\ v.finds = db.finds
    BY <1>0, <1>5 DEF Database
  <2>2. Here(v) = Here(db) /\ AgentsStand(db, v)
    BY <2>1 DEF Here, AgentsStand
  <2>3. \A g \in Generations : JudgesAnswered(db, g) => JudgesAnswered(v, g)
    BY <2>1, <2>2 DEF JudgesAnswered, JudgesFollow, Answered, Findings
  <2>4. Reliable(j, v)
    BY <1>3, <2>1, <2>2, <2>3, ReliableStill
  <2> QED BY <1>1, <1>3, <2>4
<1> QED BY <1>4, <1>5 DEF Reads

LEMMA JobRelies ==
  ASSUME Ready, NEW w \in Workers, Inside(w), view[w] # None, NEW v \in Reads(w)
  PROVE  Reliable(job[w], db) /\ Reliable(job[w], view[w]) /\ Reliable(job[w], v)
BY PreparedRelies DEF Ready, Before

LEMMA StartJudgingCareful ==
  ASSUME Ready, NEW w \in Workers, StartJudging(w)
  PROVE  Careful(w)
<1>0. /\ pc[w] = "judging" /\ view[w] # None /\ Inside(w) /\ db \in Database
      /\ job[w] = StartJudgingJob(job[w].gen) /\ Before /\ RunInv
  BY InsideFits DEF StartJudging, At, Inside, Ready, Before, RunInv
<1> DEFINE g == job[w].gen
<1>1. PICK v \in Reads(w) :
        \/ Return(w, "settle", {})
        \/ /\ v.status \notin {"RESEARCHING", "JUDGING", "COMPLETED"} \/ ~ResearchComplete(v, g)
           /\ Raise(w)
        \/ /\ v.status \in {"RESEARCHING", "JUDGING"} /\ IsLatest(v, g)
           /\ ResearchComplete(v, g) /\ Added(w, v) \subseteq JudgesOf(g)
           /\ IF v.status = "RESEARCHING"
                THEN CommitStatus(w, Judging(w, v), "JUDGING", ThenEnqueue(ToJudge(w, v)), ToJudge(w, v))
                ELSE Commit(w, Judging(w, v), ThenEnqueue(ToJudge(w, v)), ToJudge(w, v))
  <2>1. PICK v \in Reads(w) :
        LET h == job[w].gen
            missing == MissingJudges(v, h)
            added == {Agent(h, "judge", i, Cardinality(JudgeCopies(db, h, i)) + 1) : i \in missing}
            kept == {Agent(h, "judge", i, CHOOSE c \in JudgeCopies(v, h, i) : TRUE) :
                       i \in 1..JudgeCount \ missing}
            new == [db EXCEPT !.agents = Spawned(@, added)]
            keys == {JudgeJob(a) : a \in JudgesToRun(added, kept)}
        IN  IF v.status = "COMPLETED" THEN Return(w, "settle", {})
            ELSE IF v.status \notin {"RESEARCHING", "JUDGING"} THEN Raise(w)
            ELSE IF ~IsLatest(v, h) THEN Return(w, "settle", {})
            ELSE IF ~ResearchComplete(v, h) THEN Raise(w)
            ELSE /\ added \subseteq JudgesOf(h)
                 /\ IF v.status = "RESEARCHING"
                      THEN CommitStatus(w, new, "JUDGING", ThenEnqueue(keys), keys)
                      ELSE Commit(w, new, ThenEnqueue(keys), keys)
    BY DEF StartJudging
  <2>2. Missing(w, v) = MissingJudges(v, job[w].gen)
    BY DEF Missing
  <2> QED BY <2>1, <2>2, Zenon DEF Added, Kept, Judging, ToJudge, JudgesToRun
<1> HIDE DEF g
<1>2. g \in Generations /\ g = job[w].gen
  BY <1>0, InsideHolds DEF g
<1>3. /\ v \in Database /\ view[w] \in Database /\ v.status = view[w].status /\ v.status # "NONE"
      /\ StatusFits(view[w]) /\ JobFits(job[w], view[w]) /\ v.status \in RunStatus
  BY <1>0, ReadsFit, GensType DEF RunInv, WorkerFits
<1>4. job[w] # CreateJob /\ g \in Nat /\ job[w].type = "START_JUDGING"
  BY <1>0, <1>2, GenerationsType DEF CreateJob, StartJudgingJob, Job
<1>5. v.status # "CREATED"
  <2>1. view[w].gens \in Nat /\ g < view[w].gens
    BY <1>2, <1>3, <1>4, GensType DEF JobFits
  <2> QED BY <1>3, <1>4, <2>1 DEF StatusFits
<1>6. Blameless => v.status \in {"RESEARCHING", "JUDGING", "COMPLETED"}
  BY <1>0, <1>3, <1>5 DEF Blameless, Untroubled, RunStatus
<1>7. ResearchDone(v, g)
  BY <1>0, <1>2, <1>4, JobRelies DEF Reliable
<1>8. Blameless => ResearchComplete(v, g)
  <2> SUFFICES ASSUME Blameless PROVE ResearchComplete(v, g)
    OBVIOUS
  <2>1. \A a \in Researchers(g) : v.agents[a] = "COMPLETED" /\ a \in v.subs
    BY <1>0, <1>2, <1>7, AgentSets, NobodyFailed DEF ResearchDone
  <2> QED BY <2>1 DEF ResearchComplete, AllCompleted, SubsOf
<1>9. CASE Return(w, "settle", {})
  BY <1>9, SettlesCareful
<1>10. CASE Raise(w) /\ ~Blameless
  BY <1>10, RaiseCareful
<1>11. CASE /\ v.status \in {"RESEARCHING", "JUDGING"} /\ IsLatest(v, g)
            /\ ResearchComplete(v, g) /\ Added(w, v) \subseteq JudgesOf(g)
            /\ IF v.status = "RESEARCHING"
                 THEN CommitStatus(w, Judging(w, v), "JUDGING", ThenEnqueue(ToJudge(w, v)), ToJudge(w, v))
                 ELSE Commit(w, Judging(w, v), ThenEnqueue(ToJudge(w, v)), ToJudge(w, v))
  <2> DEFINE e == Judging(w, v)
             keys == ToJudge(w, v)
             where == ThenEnqueue(keys)
  <2>1. /\ e \in Database /\ e.status = db.status /\ e.cands = db.cands /\ e.verdict = db.verdict
        /\ e.gens = db.gens
    BY <1>0, <1>2, <1>11, SpawnsTheJudges DEF SpawnsJudges
  <2>2. \A k \in keys : k.type \notin {"START_JUDGING", "FINALIZE_RUN"}
    BY DEF ToJudge, JudgeJob, Job
  <2>3. where \in {"settle", "enqueue"}
    BY DEF ThenEnqueue
  <2> HIDE DEF e, keys, where
  <2>4. CASE v.status = "JUDGING"
    <3>1. Commit(w, e, where, keys)
      BY <1>11, <2>4 DEF e, keys, where
    <3>2. db' = e
      BY <3>1 DEF Commit
    <3>3. StaysPut
      BY <2>1, <3>2 DEF StaysPut
    <3>4. Blameless => where \notin {"failrun", "terminal", "raised"} /\ e.status # "FAILED" /\ RunMoves(w)
      BY <2>1, <2>3, <3>3 DEF RunMoves, Blameless
    <3> QED BY <2>1, <2>2, <3>1, <3>4, CommitCareful
  <2>5. CASE v.status = "RESEARCHING"
    <3>1. CommitStatus(w, e, "JUDGING", where, keys)
      BY <1>11, <2>5 DEF e, keys, where
    <3>2. Raise(w) \/ Commit(w, [e EXCEPT !.status = "JUDGING"], where, keys)
      BY <3>1, CommitStatusIs
    <3>3. view'[w] = None
      <4>1. \E there, S : Goto(w, there, S)
        BY <3>2 DEF Raise, Return, Commit
      <4> QED BY <1>0, <4>1, GotoView
    <3>4. g = Current /\ view[w].gens = db.gens
      <4>1. g = Current
        BY <1>0, <1>2, <1>11, <2>5, <3>3, NothingJudgedYet
      <4> QED BY <1>0, <1>2, <1>4, <4>1, SeenLatest
    <3>5. Blameless => db.status = "RESEARCHING" /\ RunMoves(w)
      <4> SUFFICES ASSUME Blameless PROVE db.status = "RESEARCHING" /\ RunMoves(w)
        OBVIOUS
      <4>1. view[w].gens = job[w].gen + 1
        BY <1>0, <1>2, <3>4, GensType DEF Current, Latest
      <4>2. MovesRun(w)
        BY <1>0, <1>3, <2>5, <4>1 DEF MovesRun
      <4>3. db.status = "RESEARCHING"
        BY <1>3, <2>5, <4>2 DEF Blameless, Untroubled, NotOvertaken
      <4> QED BY <1>0, <1>2, <3>4, <4>3 DEF RunMoves
    <3>6. CASE Commit(w, [e EXCEPT !.status = "JUDGING"], where, keys)
      <4> DEFINE f == [e EXCEPT !.status = "JUDGING"]
      <4>1. "JUDGING" \in RunStatus
        BY DEF RunStatus
      <4>2. f \in Database /\ f.status = "JUDGING" /\ f.cands = db.cands
        BY <2>1, <4>1, StatusApart
      <4>3. Commit(w, f, where, keys)
        BY <3>6
      <4> HIDE DEF f
      <4>4. Blameless => where \notin {"failrun", "terminal", "raised"} /\ f.status # "FAILED" /\ RunMoves(w)
        BY <2>3, <3>5, <4>2
      <4> QED BY <2>2, <4>2, <4>3, <4>4, CommitCareful
    <3>7. CASE Raise(w) /\ ~Commit(w, [e EXCEPT !.status = "JUDGING"], where, keys)
      <4>1. ~Blameless
        <5> SUFFICES ASSUME Blameless PROVE FALSE
          OBVIOUS
        <5>1. "JUDGING" \in Allowed[view[w].status] /\ "JUDGING" \in Allowed[db.status]
          BY <1>3, <2>5, <3>5, AllowedMoves
        <5> QED BY <3>1, <3>7, <5>1, CommitStatusGoes
      <4> QED BY <1>10, <3>7, <4>1
    <3> QED BY <3>2, <3>6, <3>7
  <2> QED BY <1>11, <2>4, <2>5
<1> QED BY <1>1, <1>6, <1>8, <1>9, <1>10, <1>11

-----------------------------------------------------------------------------
(* What finalize_run and maybe_schedule_finalize may fail at.               *)

\* As long as nobody is to blame the worker that finalizes a generation finds the
\* run as it has read it, and its judging complete.
LEMMA FinalizesInTime ==
  ASSUME Ready, Blameless, NEW w \in Workers, pc[w] = "finalize", view[w] # None, NEW v \in Reads(w),
         IsLatest(v, job[w].gen), v.status \notin Over
  PROVE  /\ v.status = "JUDGING" /\ db.status = "JUDGING" /\ v.gens = db.gens
         /\ job[w] = FinalizeJob(Current) /\ JudgingComplete(v, job[w].gen)
         /\ \A s \in Researchers(job[w].gen) :
              /\ db.cands[s] # "ABSENT" => v.cands[s] # "ABSENT"
              /\ db.verdict[s] # "NONE" => v.verdict[s] # "NONE"
<1>0. /\ Inside(w) /\ db \in Database /\ job[w] = FinalizeJob(job[w].gen) /\ Before /\ RunInv
  BY InsideFits DEF Inside, Ready, Before, RunInv
<1>1. PICK g \in Generations : g = job[w].gen
  BY <1>0, InsideHolds
<1>2. job[w] # CreateJob /\ g \in Nat /\ job[w].type = "FINALIZE_RUN"
  BY <1>0, <1>1, GenerationsType DEF CreateJob, FinalizeJob, Job
<1>3. /\ v \in Database /\ view[w] \in Database /\ v.status = view[w].status /\ v.status # "NONE"
      /\ StatusFits(view[w]) /\ JobFits(job[w], view[w]) /\ Shape(v) /\ v.status \in RunStatus
  BY <1>0, ReadsFit, GensType DEF RunInv, WorkerFits
<1>4. ResultsFit(v) /\ OneOfEach(v)
  BY <1>0, ReadsStand
<1>5. JudgesAnswered(v, g) /\ JudgesAnswered(view[w], g)
  BY <1>0, <1>1, <1>2, JobRelies DEF Reliable
<1>6. view[w].gens \in Nat /\ g < view[w].gens /\ v.gens \in Nat /\ db.gens \in Nat /\ v.gens = g + 1
  BY <1>0, <1>1, <1>2, <1>3, GensType DEF JobFits, IsLatest, Latest
<1>7. view[w].gens = g + 1
  <2>1. CASE v = view[w]
    BY <1>6, <2>1
  <2>2. CASE v = [db EXCEPT !.status = view[w].status]
    <3>1. v.gens = db.gens
      BY <1>0, <2>2 DEF Database
    <3>2. g = Current
      BY <1>2, <1>6, <3>1 DEF Current, Latest
    <3> QED BY <1>0, <1>1, <1>2, <1>6, <3>1, <3>2, SeenLatest
  <2> QED BY <2>1, <2>2 DEF Reads
<1>8. v.status # "RESEARCHING"
  <2>1. NoJudgeYet(view[w]) /\ Latest(view[w]) = g
    BY <1>0, <1>2, <1>6, <1>7 DEF Before, Knows, SeesJudges, Latest
  <2>2. PICK c \in Copies : Agent(g, "judge", 1, c) \in Here(view[w])
    BY <1>5 DEF JudgesAnswered, JudgesFollow, JudgeCount
  <2> QED BY <1>3, <2>1, <2>2 DEF NoJudgeYet, Agent
<1>9. v.status # "CREATED"
  BY <1>2, <1>3, <1>6 DEF StatusFits
<1>10. v.status = "JUDGING"
  BY <1>3, <1>8, <1>9 DEF RunStatus, Over
<1>11. MovesRun(w)
  BY <1>1, <1>3, <1>7, <1>10 DEF MovesRun
<1>12. /\ db.gens = g + 1 /\ db.status = "JUDGING"
       /\ \A s \in Researchers(g) : /\ db.cands[s] # "ABSENT" => view[w].cands[s] # "ABSENT"
                                    /\ db.verdict[s] # "NONE" => view[w].verdict[s] # "NONE"
  BY <1>1, <1>3, <1>7, <1>10, <1>11 DEF Blameless, Untroubled, NotOvertaken
<1>13. \A s \in Researchers(g) : /\ db.cands[s] # "ABSENT" => v.cands[s] # "ABSENT"
                                 /\ db.verdict[s] # "NONE" => v.verdict[s] # "NONE"
  <2>1. v = view[w] \/ (v.cands = db.cands /\ v.verdict = db.verdict)
    BY <1>0 DEF Reads, Database
  <2> QED BY <1>12, <2>1
<1>14. JudgingComplete(v, g)
  <2>1. JudgesFollow(v, g)
    BY <1>5 DEF JudgesAnswered
  <2>2. ASSUME NEW a \in Present(v, JudgesOf(g)) PROVE v.agents[a] = "COMPLETED"
    <3>1. a \in JudgesOf(g) /\ a \in Here(v) /\ a \in Agents
      BY <2>2, AgentSets DEF Present, Here
    <3> QED BY <1>5, <3>1, NobodyFailed DEF JudgesAnswered
  <2> QED BY <1>3, <1>4, <2>1, <2>2, JudgesComplete DEF AllCompleted
<1>15. g = Current
  BY <1>2, <1>6, <1>12 DEF Current, Latest
<1> QED BY <1>0, <1>1, <1>6, <1>10, <1>12, <1>13, <1>14, <1>15

\* It moves the run on.
LEMMA FinalCommitCareful ==
  ASSUME Ready, NEW w \in Workers, NEW e \in Database, NEW status \in {"COMPLETED", "RESEARCHING"},
         NEW where \in {"settle", "enqueue"}, NEW keys, CommitStatus(w, e, status, where, keys),
         \A j \in keys : j.type \notin {"START_JUDGING", "FINALIZE_RUN"},
         CriticCount # 0 =>
           \A s \in Submissions : (e.cands[s] # "ABSENT" /\ db.cands[s] = "ABSENT") => CriticsThere(e, s.gen),
         Blameless => /\ view[w].status = "JUDGING" /\ db.status = "JUDGING"
                      /\ job[w] = FinalizeJob(Current)
  PROVE  Careful(w)
<1> DEFINE f == [e EXCEPT !.status = status]
<1>1. Raise(w) \/ Commit(w, f, where, keys)
  BY CommitStatusIs
<1>2. CASE Commit(w, f, where, keys)
  <2>1. status \in RunStatus
    BY DEF RunStatus
  <2>2. f \in Database /\ f.status = status /\ f.cands = e.cands /\ Here(f) = Here(e)
    BY <2>1, StatusApart
  <2> HIDE DEF f
  <2>3. CriticCount # 0 =>
           \A s \in Submissions : (f.cands[s] # "ABSENT" /\ db.cands[s] = "ABSENT") => CriticsThere(f, s.gen)
    BY <2>2 DEF CriticsThere
  <2>4. Blameless => where \notin {"failrun", "terminal", "raised"} /\ f.status # "FAILED" /\ RunMoves(w)
    BY <2>2 DEF RunMoves
  <2> QED BY <1>2, <2>2, <2>3, <2>4, CommitCareful
<1>3. CASE Raise(w) /\ ~Commit(w, f, where, keys)
  <2>1. ~Blameless
    <3> SUFFICES ASSUME Blameless PROVE FALSE
      OBVIOUS
    <3>1. status \in Allowed[view[w].status] /\ status \in Allowed[db.status]
      BY AllowedMoves
    <3> QED BY <1>3, <3>1, CommitStatusGoes
  <2> QED BY <1>3, <2>1, RaiseCareful
<1> QED BY <1>1, <1>2, <1>3

LEMMA FinalizeRunCareful ==
  ASSUME Ready, NEW w \in Workers, FinalizeRun(w)
  PROVE  Careful(w)
<1>0. /\ pc[w] = "finalize" /\ view[w] # None /\ Inside(w) /\ db \in Database
      /\ job[w] = FinalizeJob(job[w].gen) /\ Before /\ RunInv
  BY InsideFits DEF FinalizeRun, At, Inside, Ready, Before, RunInv
<1> DEFINE g == job[w].gen
           target(v) == Target(v, g)
           verdicts(v) == IF v.verdict[Target(v, g)] = "NONE" THEN VerdictsOn(v, Target(v, g))
                          ELSE {v.verdict[Target(v, g)]}
<1>1. PICK v \in Reads(w) :
        IF v.status \in Over THEN Return(w, "settle", {})
        ELSE IF ~IsLatest(v, g)
          THEN Return(w, "enqueue", {ResearchJob(a) : a \in Researchers(Latest(v))})
        ELSE IF v.status # "JUDGING" \/ ~JudgingComplete(v, g) THEN Raise(w)
        ELSE IF g + 1 = MaxGenerations THEN CompleteRun(w, v, g)
        ELSE Advance(w, v, g)
  BY DEF FinalizeRun
<1>2. CompleteRun(w, v, g) =>
        \/ v.cands[target(v)] = "ABSENT" /\ db.cands[target(v)] # "ABSENT" /\ Raise(w)
        \/ v.verdict[target(v)] = "NONE" /\ db.verdict[target(v)] # "NONE" /\ Raise(w)
        \/ CommitStatus(w, Staged(v, g), "COMPLETED", "settle", {})
        \/ \E verdict \in verdicts(v), seen \in IF Proposed(v, g) THEN {Staged(v, g)} ELSE {v, db} :
             CommitStatus(w, Judgement(v, g, verdict, seen), "COMPLETED", "settle", {})
  BY Zenon DEF CompleteRun, Target, Proposed, Staged, Judgement
<1>3. Advance(w, v, g) =>
        \/ v.gens < db.gens /\ Raise(w)
        \/ /\ ~(v.gens < db.gens)
           /\ \E selected \in Selections(v, g) :
                CommitStatus(w, Bred(g, selected), "RESEARCHING", "enqueue",
                             {ResearchJob(a) : a \in Researchers(g + 1)})
  BY Zenon DEF Advance, Bred, Parents, Clones
<1>4. g \in Generations /\ g = job[w].gen
  BY <1>0, InsideHolds
<1>5. /\ v \in Database /\ view[w].status = v.status /\ v.gens \in Nat /\ db.gens \in Nat
      /\ v.gens <= db.gens /\ g \in Nat
  BY <1>0, <1>4, ReadsFit, GensType, GenerationsType DEF Behind
<1> HIDE DEF g
<1>6. Blameless /\ IsLatest(v, g) /\ v.status \notin Over =>
         /\ v.status = "JUDGING" /\ db.status = "JUDGING" /\ v.gens = db.gens
         /\ job[w] = FinalizeJob(Current) /\ JudgingComplete(v, g)
         /\ \A s \in Researchers(g) :
              /\ db.cands[s] # "ABSENT" => v.cands[s] # "ABSENT"
              /\ db.verdict[s] # "NONE" => v.verdict[s] # "NONE"
  BY <1>0, <1>4, FinalizesInTime
<1>7. CriticCount # 0 => CriticsThere(db, g)
  <2>1. Reliable(job[w], db) /\ job[w].type = "FINALIZE_RUN"
    <3>1. job[w].type = "FINALIZE_RUN"
      BY <1>0 DEF FinalizeJob, Job
    <3>2. Reliable(job[w], db)
      BY <1>0, JobRelies
    <3> QED BY <3>1, <3>2
  <2> QED BY <1>4, <2>1 DEF Reliable
<1>8. /\ Target(v, g) \in Submissions /\ Target(v, g) \in Researchers(g) /\ Target(v, g).gen = g
      /\ Staged(v, g) \in Database /\ Keeps(db, Staged(v, g))
      /\ \A t \in Submissions : t # Target(v, g) => Staged(v, g).cands[t] = db.cands[t]
      /\ \A said \in {"PASSED", "FAILED", "INCONCLUSIVE"} : \A other :
           /\ Judgement(v, g, said, other) \in Database /\ Keeps(db, Judgement(v, g, said, other))
           /\ \A t \in Submissions : t # Target(v, g) => Judgement(v, g, said, other).cands[t] = db.cands[t]
  <2>1. Target(v, g) \in Submissions /\ Target(v, g) \in Researchers(g)
    BY <1>0, <1>4, <1>5, JudgementKeeps
  <2>2. /\ Staged(v, g) \in Database /\ Keeps(db, Staged(v, g))
        /\ \A t \in Submissions : t # Target(v, g) => Staged(v, g).cands[t] = db.cands[t]
    <3>1. \A t \in Submissions :
            Staged(v, g).cands[t] = IF t = Target(v, g) /\ Proposed(v, g) THEN "VERIFICATION" ELSE db.cands[t]
      BY <1>0, <1>4, <1>5, JudgementKeeps, Zenon
    <3>2. Staged(v, g) \in Database /\ Keeps(db, Staged(v, g))
      BY <1>0, <1>4, <1>5, JudgementKeeps, Zenon
    <3> QED BY <3>1, <3>2
  <2>30. \A said \in {"PASSED", "FAILED", "INCONCLUSIVE"} : \A other :
           LET h == Judgement(v, g, said, other)
           IN  /\ h \in Database /\ Keeps(db, h) /\ h.status = db.status
               /\ h.parent = db.parent /\ h.survivors = db.survivors
               /\ h.verdict = [db.verdict EXCEPT ![Target(v, g)] = said]
               /\ \A t \in Submissions :
                    h.cands[t] = IF t = Target(v, g) /\ other.cands[t] # CandidateAfter[said]
                                 THEN CandidateAfter[said] ELSE Staged(v, g).cands[t]
    <3>1. v \in Database /\ db \in Database /\ g \in Generations
      BY <1>0, <1>4, <1>5
    <3> QED BY <3>1, JudgementKeeps
  <2>3. ASSUME NEW said \in {"PASSED", "FAILED", "INCONCLUSIVE"}, NEW other
        PROVE  /\ Judgement(v, g, said, other) \in Database /\ Keeps(db, Judgement(v, g, said, other))
               /\ \A t \in Submissions : t # Target(v, g) => Judgement(v, g, said, other).cands[t] = db.cands[t]
    BY <2>2, <2>30
  <2>4. Target(v, g).gen = g
    BY <2>1, ResearcherParts
  <2> QED BY <2>1, <2>2, <2>3, <2>4
<1>9. CASE v.status \in Over /\ Return(w, "settle", {})
  BY <1>9, SettlesCareful
<1>10. CASE ~IsLatest(v, g) /\ Return(w, "enqueue", {ResearchJob(a) : a \in Researchers(Latest(v))})
  <2>1. \A j \in {ResearchJob(a) : a \in Researchers(Latest(v))} : j.type \notin {"START_JUDGING", "FINALIZE_RUN"}
    BY DEF ResearchJob, Job
  <2> QED BY <1>10, <2>1, ReturnCareful
<1>11. CASE Raise(w) /\ ~Blameless
  BY <1>11, RaiseCareful
<1>12. ASSUME NEW e \in Database, Keeps(db, e), IsLatest(v, g), v.status \notin Over,
              \A t \in Submissions : t # Target(v, g) => e.cands[t] = db.cands[t],
              CommitStatus(w, e, "COMPLETED", "settle", {})
       PROVE  Careful(w)
  <2>1. ASSUME CriticCount # 0, NEW s \in Submissions, e.cands[s] # "ABSENT", db.cands[s] = "ABSENT"
        PROVE  CriticsThere(e, s.gen)
    <3>1. s = Target(v, g)
      BY <1>12, <2>1
    <3>2. Here(e) = Here(db)
      BY <1>12 DEF Keeps
    <3> QED BY <1>7, <1>8, <2>1, <3>1, <3>2 DEF CriticsThere
  <2>2. \A j \in {} : j.type \notin {"START_JUDGING", "FINALIZE_RUN"}
    OBVIOUS
  <2> QED BY <1>5, <1>6, <1>12, <2>1, <2>2, FinalCommitCareful
<1>13. CASE IsLatest(v, g) /\ v.status \notin Over /\ CompleteRun(w, v, g)
  <2>1. CASE v.cands[target(v)] = "ABSENT" /\ db.cands[target(v)] # "ABSENT" /\ Raise(w)
    BY <1>6, <1>8, <1>11, <1>13, <2>1
  <2>2. CASE v.verdict[target(v)] = "NONE" /\ db.verdict[target(v)] # "NONE" /\ Raise(w)
    BY <1>6, <1>8, <1>11, <1>13, <2>2
  <2>3. CASE CommitStatus(w, Staged(v, g), "COMPLETED", "settle", {})
    BY <1>8, <1>12, <1>13, <2>3
  <2>4. ASSUME NEW verdict \in verdicts(v), NEW seen,
               CommitStatus(w, Judgement(v, g, verdict, seen), "COMPLETED", "settle", {})
        PROVE  Careful(w)
    <3>1. verdict \in {"PASSED", "FAILED", "INCONCLUSIVE"}
      BY <1>5, <1>8, <2>4, VerdictsType, Zenon
    <3> HIDE DEF verdicts
    <3> QED BY <1>8, <1>12, <1>13, <2>4, <3>1
  <2> QED BY <1>2, <1>13, <2>1, <2>2, <2>3, <2>4
<1>14. ASSUME NEW selected \in Selections(v, g), IsLatest(v, g), v.status \notin Over,
              g + 1 # MaxGenerations, ~(v.gens < db.gens),
              CommitStatus(w, Bred(g, selected), "RESEARCHING", "enqueue",
                           {ResearchJob(a) : a \in Researchers(g + 1)})
       PROVE  Careful(w)
  <2> DEFINE e == Bred(g, selected)
             keys == {ResearchJob(a) : a \in Researchers(g + 1)}
  <2>1. selected \in Seq(Submissions) /\ Len(selected) > 0
    BY <1>4, <1>5, SelectionType
  <2>2. g + 1 = db.gens
    BY <1>5, <1>14 DEF IsLatest, Latest
  <2>3. e \in Database /\ e.cands = db.cands
    BY <1>0, <1>4, <1>14, <2>1, <2>2, BreedsTheNext
  <2>4. \A j \in keys : j.type \notin {"START_JUDGING", "FINALIZE_RUN"}
    BY DEF ResearchJob, Job
  <2>5. CommitStatus(w, e, "RESEARCHING", "enqueue", keys)
    BY <1>14
  <2> HIDE DEF e, keys
  <2> QED BY <1>5, <1>6, <1>14, <2>3, <2>4, <2>5, FinalCommitCareful
<1>15. CASE IsLatest(v, g) /\ v.status \notin Over /\ g + 1 # MaxGenerations /\ Advance(w, v, g)
  <2>1. CASE v.gens < db.gens /\ Raise(w)
    <3>1. ~Blameless
      BY <1>5, <1>6, <1>15, <2>1
    <3> QED BY <1>11, <2>1, <3>1
  <2> QED BY <1>3, <1>14, <1>15, <2>1
<1>16. CASE IsLatest(v, g) /\ v.status \notin Over /\ (v.status # "JUDGING" \/ ~JudgingComplete(v, g)) /\ Raise(w)
  BY <1>6, <1>11, <1>16
<1> QED BY <1>1, <1>9, <1>10, <1>13, <1>15, <1>16

\* Where critics are, the candidate under attack is, and its judging is complete.
LEMMA CriticsRely ==
  ASSUME Ready, NEW g \in Generations, CriticsThere(db, g)
  PROVE  Reliable(FinalizeJob(g), db) /\ db.cands[Elite(g, {})] # "ABSENT" /\ ~Unattacked(db, g)
<1>1. PICK a \in CriticsOf(g) : a \in Here(db)
  BY DEF CriticsThere
<1>2. a.gen = g /\ a.role = "critic"
  BY CriticParts
<1>3. JudgesAnswered(db, g) /\ db.cands[Elite(g, {})] # "ABSENT"
  BY <1>1, <1>2 DEF Ready, Before, Results, ResultsFit
<1>4. Elite(g, {}) \in Researchers(g)
  BY EliteIsBest
<1> QED BY <1>3, <1>4 DEF Reliable, FinalizeJob, Job, Unattacked

LEMMA ListensCareful ==
  ASSUME Ready, NEW w \in Workers, Inside(w), view[w] # None, NEW g \in Generations, CriticsThere(db, g),
         NEW r \in Reads(w), NEW f \in Reads(w), Listens(w, r, f, g)
  PROVE  Careful(w)
<1>1. db \in Database
  BY DEF Ready, Before, RunInv
<1>2. CASE Return(w, "settle", {})
  BY <1>2, SettlesCareful
<1>3. CASE SomeFailed(r, CriticsOf(g)) /\ Return(w, "failrun", {})
  <2>1. ~Blameless
    BY <1>3, AgentSets, NobodyFailed DEF SomeFailed
  <2> QED BY <1>3, <2>1, ReturnCareful
<1>4. CASE Return(w, "enqueue", {CriticJob(a) : a \in Pending(r, g)})
  <2>1. \A k \in {CriticJob(a) : a \in Pending(r, g)} : k.type \notin {"START_JUDGING", "FINALIZE_RUN"}
    BY DEF CriticJob, Job
  <2> QED BY <1>4, <2>1, ReturnCareful
<1>5. ASSUME NEW seen,
             Commit(w, CandidateUpdates(db, seen, Elite(g, {}), Outcome(f, g)), "enqueue", {FinalizeJob(g)})
      PROVE  Careful(w)
  <2> DEFINE e == CandidateUpdates(db, seen, Elite(g, {}), Outcome(f, g))
  <2>1. Elite(g, {}) \in Submissions /\ Elite(g, {}).gen = g /\ Outcome(f, g) \in CandidateStatus
    BY EliteParts DEF Outcome, CandidateStatus
  <2>2. e \in Database /\ Keeps(db, e) /\ e.status = db.status /\ e.verdict = db.verdict
    BY <1>1, <2>1, CandidateUpdatesKeep
  <2>3. \A s \in Submissions : s # Elite(g, {}) => e.cands[s] = db.cands[s]
    <3> SUFFICES ASSUME NEW s \in Submissions, s # Elite(g, {}) PROVE e.cands[s] = db.cands[s]
      OBVIOUS
    <3>1. db \in Database /\ Elite(g, {}) \in Submissions /\ Outcome(f, g) \in CandidateStatus
      BY <1>1, <2>1
    <3>2. CandidateUpdates(db, seen, Elite(g, {}), Outcome(f, g)).cands[s]
            = IF s = Elite(g, {}) /\ seen.cands[Elite(g, {})] # Outcome(f, g)
              THEN Outcome(f, g) ELSE db.cands[s]
      BY <3>1 DEF CandidateUpdates, Database
    <3> QED BY <3>2
  <2>4. Commit(w, e, "enqueue", {FinalizeJob(g)})
    BY <1>5
  <2> HIDE DEF e
  <2>5. \A s \in Submissions : ~(e.cands[s] # "ABSENT" /\ db.cands[s] = "ABSENT")
    BY <2>3, CriticsRely
  <2>6. StaysPut
    <3>1. db' = e
      BY <2>4 DEF Commit
    <3> QED BY <2>2, <2>5, <3>1 DEF StaysPut, Keeps
  <2>7. Blameless => "enqueue" \notin {"failrun", "terminal", "raised"} /\ e.status # "FAILED" /\ RunMoves(w)
    BY <2>2, <2>6 DEF RunMoves, Blameless
  <2>8. \A k \in {FinalizeJob(g)} : k.type \notin {"START_JUDGING", "FINALIZE_RUN"} \/ Reliable(k, db)
    BY CriticsRely
  <2> QED BY <2>2, <2>4, <2>5, <2>7, <2>8, CommitCareful
<1> QED BY <1>2, <1>3, <1>4, <1>5 DEF Listens

LEMMA AfterOpeningCareful ==
  ASSUME Ready, NEW w \in Workers, AfterOpening(w)
  PROVE  Careful(w)
<1>0. pc[w] = "opened" /\ view[w] # None /\ Inside(w) /\ Before
  BY DEF AfterOpening, At, Inside, Ready
<1>1. PICK g \in Generations : g = job[w].gen
  BY <1>0, InsideHolds
<1>2. PICK f \in {view[w], Now(w)} :
        /\ Listens(w, view[w], f, g) /\ CriticCount # 0 /\ FirstCritics(g) \subseteq Here(view[w])
  BY <1>0, <1>1, AfterOpeningEffect DEF Before
<1>3. view[w] \in Reads(w) /\ f \in Reads(w)
  BY DEF Reads, Now
<1>4. CriticsThere(db, g)
  <2>1. Behind(view[w], db)
    BY <1>0, <1>3, ReadsFit DEF Before
  <2> QED BY <1>2, <2>1, FirstCriticParts DEF CriticsThere, Behind
<1> QED BY <1>0, <1>2, <1>3, <1>4, ListensCareful

\* The stage is opened, or the worker comes too late for it, which it can only
\* where it had read the run before the stage was open.
LEMMA OpensCareful ==
  ASSUME Ready, NEW w \in Workers, pc[w] = "schedule", view[w] # None,
         NEW j \in Jobs, job[w] = j, j.type \in {"RUN_JUDGE", "RUN_CRITIC"}, NEW g \in Generations, g = j.gen,
         CriticCount # 0, NEW v \in Reads(w), OpensIt(w, v, g)
  PROVE  Careful(w)
<1>0. Inside(w) /\ db \in Database /\ Shape(db) /\ j.agent \in Agents /\ j.agent \in Here(view[w]) /\ j # None
  BY Scheduling DEF Ready, Before, RunInv
<1>1. PICK c \in {v, Now(w)} : \E s \in {c, Now(w)} :
        /\ Present(c, CriticsOf(g)) = {}
        /\ \/ ~Unattacked(db, g) /\ Raise(w)
           \/ /\ Unattacked(s, g) => Unattacked(db, g)
              /\ NewCritics(g) \subseteq CriticsOf(g) /\ Commit(w, Opened(s, g), "opened", {})
  BY DEF OpensIt
<1>2. PICK s \in {c, Now(w)} :
        /\ Present(c, CriticsOf(g)) = {}
        /\ \/ ~Unattacked(db, g) /\ Raise(w)
           \/ /\ Unattacked(s, g) => Unattacked(db, g)
              /\ NewCritics(g) \subseteq CriticsOf(g) /\ Commit(w, Opened(s, g), "opened", {})
  BY <1>1
<1>3. c \in Reads(w) /\ Behind(view[w], c)
  <2>1. c \in Reads(w)
    BY DEF Reads, Now
  <2> QED BY <2>1, ReadsFit DEF Ready, Before
<1>4. ~CriticsThere(view[w], g)
  BY <1>2, <1>3, AgentSets DEF CriticsThere, Present, Here, Behind
<1>5. CASE ~Unattacked(db, g) /\ Raise(w)
  <2>1. j.type = "RUN_JUDGE"
    BY <1>0, <1>4, TypeSays DEF CriticsThere
  <2>2. CriticsThere(db, g)
    <3>1. PICK t \in Researchers(g) : db.cands[t] # "ABSENT"
      BY <1>5 DEF Unattacked
    <3>2. t.gen = g /\ t \in Submissions
      BY <3>1, ResearcherParts DEF Submissions
    <3> QED BY <3>1, <3>2 DEF Ready, Prepared
  <2>3. ASSUME Blameless PROVE Forgiven(w)
    <3>1. Tries(w) /\ job[w] # None
      BY <1>0, <2>3 DEF Blameless, Untroubled
    <3>2. jobs[job[w]].attempt - 1 <= budget.raises
      BY <1>4, <3>1 DEF Tries
    <3> QED BY <2>1, <2>2, <3>2 DEF Forgiven
  <2> QED BY <1>5, <2>3, RaiseCareful
<1>6. CASE /\ Unattacked(s, g) => Unattacked(db, g)
           /\ NewCritics(g) \subseteq CriticsOf(g) /\ Commit(w, Opened(s, g), "opened", {})
  <2> DEFINE e == Opened(s, g)
  <2>1. /\ e \in Database /\ e.status = db.status /\ e.gens = db.gens /\ e.verdict = db.verdict
        /\ e.cands = IF Unattacked(s, g) THEN Opening(g) ELSE db.cands
        /\ FirstCritics(g) \subseteq Here(e)
    BY <1>0, <1>6, OpensTheStage
  <2>2. Commit(w, e, "opened", {})
    BY <1>6
  <2> HIDE DEF e
  <2>3. \A t \in Submissions : (e.cands[t] # "ABSENT" /\ db.cands[t] = "ABSENT") => Unattacked(db, g) /\ t.gen = g
    BY <1>6, <2>1, ResearcherParts DEF Opening
  <2>4. Unattacked(db, g) => ~CriticsThere(db, g)
    BY CriticsRely
  <2>5. CriticsThere(e, g)
    BY <2>1, FirstCriticParts DEF CriticsThere
  <2>6. StaysPut
    <3>1. db' = e
      BY <2>2 DEF Commit
    <3> QED BY <2>1, <2>3, <2>4, <3>1 DEF StaysPut
  <2>7. Blameless => "opened" \notin {"failrun", "terminal", "raised"} /\ e.status # "FAILED" /\ RunMoves(w)
    BY <2>1, <2>6 DEF RunMoves, Blameless
  <2> QED BY <2>1, <2>2, <2>3, <2>5, <2>7, CommitCareful
<1> QED BY <1>2, <1>5, <1>6

LEMMA FindsCareful ==
  ASSUME Ready, NEW w \in Workers, Inside(w), view[w] # None, NEW g \in Generations, NEW v \in Reads(w),
         FindsItOpen(w, v, g)
  PROVE  Careful(w)
<1>1. \A x \in {v, Now(w)} : x \in Reads(w)
  BY DEF Reads, Now
<1>2. PICK c \in {v, Now(w)} : \E s \in {c, Now(w)} : \E f \in {s, Now(w)} :
        /\ Present(c, CriticsOf(g)) # {}
        /\ \/ Return(w, "settle", {})
           \/ \E r \in {f, Now(w)} : \E h \in {r, Now(w)} : Listens(w, r, h, g)
  BY DEF FindsItOpen
<1>3. \/ Return(w, "settle", {})
      \/ \E r, h \in {v, Now(w)} : Listens(w, r, h, g)
  BY <1>2
<1>4. CriticsThere(db, g)
  <2>1. Behind(c, db)
    BY <1>1, ReadsFit DEF Ready, Before
  <2> QED BY <1>2, <2>1, AgentSets DEF CriticsThere, Present, Here, Behind
<1>5. CASE Return(w, "settle", {})
  BY <1>5, SettlesCareful
<1>6. ASSUME NEW r \in {v, Now(w)}, NEW h \in {v, Now(w)}, Listens(w, r, h, g) PROVE Careful(w)
  BY <1>1, <1>4, <1>6, ListensCareful
<1> QED BY <1>3, <1>5, <1>6

LEMMA MaybeScheduleFinalizeCareful ==
  ASSUME Ready, NEW w \in Workers, MaybeScheduleFinalize(w)
  PROVE  Careful(w)
<1>0. /\ pc[w] = "schedule" /\ view[w] # None /\ Inside(w) /\ db \in Database
      /\ job[w].type \in {"RUN_JUDGE", "RUN_CRITIC"} /\ Before
  BY DEF MaybeScheduleFinalize, At, Inside, Ready, Before, RunInv
<1>1. PICK j \in Jobs : j = job[w]
  BY <1>0, InsideHolds
<1>2. PICK g \in Generations : g = j.gen
  BY <1>0, <1>1, Scheduling
<1>3. PICK v \in Reads(w) : Schedules(w, v, g)
  BY <1>0, <1>1, <1>2, MaybeScheduleFinalizeEffect
<1>4. CASE Return(w, "settle", {})
  BY <1>4, SettlesCareful
<1>5. CASE SomeFailed(v, JudgesOf(g)) /\ Return(w, "failrun", {})
  <2>1. ~Blameless
    BY <1>0, <1>5, AgentSets, NobodyFailed DEF SomeFailed
  <2> QED BY <1>5, <2>1, ReturnCareful
<1>6. CASE CriticCount = 0 /\ JudgingComplete(v, g) /\ Return(w, "enqueue", {FinalizeJob(g)})
  <2>1. JudgesAnswered(db, g)
    BY <1>0, <1>6, JudgingAnswered DEF Before
  <2>2. Reliable(FinalizeJob(g), db)
    BY <1>6, <2>1 DEF Reliable, FinalizeJob, Job
  <2> QED BY <1>6, <2>2, ReturnCareful
<1>7. CASE CriticCount # 0 /\ OpensIt(w, v, g)
  BY <1>0, <1>1, <1>2, <1>7, OpensCareful
<1>8. CASE FindsItOpen(w, v, g)
  BY <1>0, <1>8, FindsCareful
<1> QED BY <1>3, <1>4, <1>5, <1>6, <1>7, <1>8, Zenon DEF Schedules

-----------------------------------------------------------------------------
(* Why a run fails is an invariant.                                         *)

LEMMA RaisesGrow ==
  ASSUME RunInv, [Next]_vars
  PROVE  budget.raises \in Nat /\ budget'.raises \in {budget.raises, budget.raises + 1}
<1>1. budget \in [raises : Nat, lapses : Nat, crashes : Nat, lost : SUBSET Jobs]
  BY DEF RunInv, Loop, LoopInv, LoopTyped
<1>2. budget.raises \in Nat
  BY <1>1
<1>3. budget'.raises \in {budget.raises, budget.raises + 1}
  <2>1. ASSUME NEW w \in Workers, Proceed(w) PROVE budget'.raises \in {budget.raises, budget.raises + 1}
    <3>1. CASE Begin(w) \/ ReportFailure(w) \/ EnqueueNext(w) \/ Settle(w) \/ Fail(w)
      BY <3>1 DEF Begin, BeginAt, ReportFailure, EnqueueNext, EnqueueOne, Settle, Fail
    <3>2. CASE Continues(w)
      BY <3>2, <1>1 DEF Continues, Works
    <3> QED BY <2>1, <3>1, <3>2, Zenon, StartRunContinues, MaybeScheduleJudgingContinues,
               StartJudgingContinues, MaybeScheduleFinalizeContinues, AfterOpeningContinues,
               FinalizeRunContinues, FailRunContinues, StartContinues, StoreSubmissionContinues,
               StoreEvaluationsContinues, StoreFindingContinues, ProviderAnswersContinues, ProviderFailsContinues
            DEF Proceed, UnitOfWork
  <2>2. ASSUME NEW w \in Workers, CrashWorker(w) \/ Restart(w)
        PROVE  budget'.raises \in {budget.raises, budget.raises + 1}
    BY <2>2, <1>1 DEF CrashWorker, Restart
  <2>3. ASSUME NEW w \in Workers, NEW j \in Jobs, Claim(w, j)
        PROVE  budget'.raises \in {budget.raises, budget.raises + 1}
    BY <2>3 DEF Claim, ClaimFor
  <2>4. ASSUME NEW j \in Jobs, Lapse(j) PROVE budget'.raises \in {budget.raises, budget.raises + 1}
    BY <2>4, <1>1 DEF Lapse
  <2>5. CASE CrashApi
    BY <2>5, <1>1 DEF CrashApi
  <2>6. CASE CreateRun \/ EnqueueCreateGeneration \/ UNCHANGED vars
    BY <2>6 DEF CreateRun, EnqueueCreateGeneration, vars
  <2> QED BY <2>1, <2>2, <2>3, <2>4, <2>5, <2>6 DEF Next
<1> QED BY <1>2, <1>3

LEMMA UnitLeads ==
  ASSUME Ready, RunInv', NEW w \in Workers, Proceed(w)
  PROVE  Leads
<1>0. RunInv
  BY DEF Ready, Before
<1>1. ASSUME Careful(w), Continues(w), Inside(w) PROVE Leads
  BY <1>1, CarefulLeads
<1>2. CASE StartRun(w) \/ MaybeScheduleJudging(w) \/ StartJudging(w) \/ MaybeScheduleFinalize(w)
  <2>1. Inside(w)
    BY <1>2 DEF StartRun, MaybeScheduleJudging, StartJudging, MaybeScheduleFinalize, At, Inside
  <2>2. Continues(w)
    BY Zenon, <1>0, <1>2, StartRunContinues, MaybeScheduleJudgingContinues, StartJudgingContinues,
       MaybeScheduleFinalizeContinues
  <2>3. Careful(w)
    BY Zenon, <1>2, StartRunCareful, MaybeScheduleJudgingCareful, StartJudgingCareful,
       MaybeScheduleFinalizeCareful
  <2> QED BY <1>1, <2>1, <2>2, <2>3
<1>3. CASE AfterOpening(w) \/ FinalizeRun(w) \/ FailRun(w)
  <2>1. Inside(w)
    BY <1>3 DEF AfterOpening, FinalizeRun, FailRun, At, Inside
  <2>2. Continues(w)
    BY Zenon, <1>0, <1>3, AfterOpeningContinues, FinalizeRunContinues, FailRunContinues
  <2>3. Careful(w)
    BY Zenon, <1>3, AfterOpeningCareful, FinalizeRunCareful, FailRunCareful
  <2> QED BY <1>1, <2>1, <2>2, <2>3
<1>4. CASE \/ StartResearch(w) \/ StartJudge(w) \/ StartCritic(w)
           \/ StoreSubmission(w) \/ StoreEvaluations(w) \/ StoreFinding(w)
  <2>1. Inside(w)
    BY <1>4 DEF StartResearch, StartJudge, StartCritic, StoreSubmission, StoreEvaluations,
                StoreFinding, At, Inside
  <2>2. Continues(w)
    BY Zenon, <1>0, <1>4, StartContinues, StoreSubmissionContinues, StoreEvaluationsContinues,
       StoreFindingContinues
  <2>3. Careful(w)
    BY Zenon, <1>4, StartCareful, StoreSubmissionCareful, StoreEvaluationsCareful, StoreFindingCareful
  <2> QED BY <1>1, <2>1, <2>2, <2>3
<1>5. CASE ProviderAnswers(w) \/ ProviderFails(w)
  <2>1. Inside(w)
    BY <1>5 DEF ProviderAnswers, ProviderFails, Inside
  <2>2. Continues(w)
    BY Zenon, <1>0, <1>5, ProviderAnswersContinues, ProviderFailsContinues
  <2>3. Careful(w)
    BY Zenon, <1>5, ProviderCareful
  <2> QED BY <1>1, <2>1, <2>2, <2>3
<1>6. CASE ReportFailure(w) \/ Begin(w)
  BY Zenon, <1>6, ReportFailureLeads, BeginLeads
<1>7. CASE EnqueueNext(w) \/ Settle(w) \/ Fail(w)
  BY Zenon, <1>7, EnqueueNextLeads, SettleLeads, FailLeads
<1> QED BY Zenon, <1>2, <1>3, <1>4, <1>5, <1>6, <1>7 DEF Proceed, UnitOfWork

LEMMA NextLeads ==
  ASSUME Ready, RunInv', Calm', [Next]_vars
  PROVE  Leads
<1>0. Before
  BY DEF Ready
<1>1. ASSUME NEW w \in Workers, Proceed(w) PROVE Leads
  BY Zenon, <1>1, UnitLeads
<1>2. ASSUME NEW w \in Workers, Restart(w) PROVE Leads
  BY Zenon, <1>2, RestartLeads
<1>3. ASSUME NEW w \in Workers, NEW j \in Jobs, Claim(w, j) PROVE Leads
  BY Zenon, <1>3, ClaimLeads
<1>4. ASSUME NEW j \in Jobs, Lapse(j) PROVE FALSE
  BY Zenon, <1>0, <1>4, LapseNever
<1>5. ~CrashApi /\ \A w \in Workers : ~CrashWorker(w)
  BY Zenon, <1>0, CrashNever
<1>6. CASE CreateRun \/ EnqueueCreateGeneration \/ UNCHANGED vars
  BY Zenon, <1>6, ApiLeads
<1> QED BY Zenon, <1>1, <1>2, <1>3, <1>4, <1>5, <1>6 DEF Next

LEMMA RowsAdded ==
  ASSUME Changes
  PROVE  Here(db) \subseteq Here(db') /\ db.subs \subseteq db'.subs
<1>1. ASSUME NEW new, Spawning(db, db', new) PROVE Here(db) \subseteq Here(db') /\ db.subs \subseteq db'.subs
  BY <1>1 DEF Spawning, Here
<1>2. ASSUME NEW w \in Workers, OwnDoes(w) PROVE Here(db) \subseteq Here(db') /\ db.subs \subseteq db'.subs
  BY <1>2 DEF OwnDoes, Writing, SameRows, Here
<1> QED BY <1>1, <1>2 DEF Changes

LEMMA NextKeepsCause ==
  ASSUME RunInv, Undisturbed, RecordInv, ResultsInv, HandInv, CauseInv, [Next]_vars
  PROVE  CauseInv'
<1> SUFFICES ASSUME Calm' PROVE Prepared' /\ (PaidFor' \/ Blameless')
  BY DEF CauseInv
<1>1. Calm
  BY Zenon, CalmBefore
<1>2. /\ budget.lapses = 0 /\ Knows /\ Results /\ Handed /\ Prepared /\ (PaidFor \/ Blameless)
  BY <1>1 DEF Calm, Undisturbed, ResultsInv, HandInv, CauseInv
<1>3. Ready
  BY Zenon, <1>1, <1>2 DEF Before, Ready
<1>4. RunInv' /\ Around
  BY Zenon, NextKeepsRun, NextAround
<1>5. Leads
  BY Zenon, <1>3, <1>4, NextLeads
<1>6. Changes /\ db' \in Database
  BY Zenon, <1>2, <1>4, NextResults DEF ResultsStep, RunInv
<1>7. StandsBy(db, db') /\ Here(db) \subseteq Here(db') /\ db.subs \subseteq db'.subs
  BY Zenon, <1>2, <1>6, ChangesStand, RowsAdded
<1>8. Prepared'
  BY Zenon, <1>2, <1>4, <1>5, <1>7, PreparedKept DEF Leads
<1>9. PaidFor => PaidFor'
  <2>1. budget.raises \in Nat /\ budget'.raises \in {budget.raises, budget.raises + 1} /\ MaxAttempts \in Nat
    BY RaisesGrow, LoopAssumption
  <2> QED BY <2>1 DEF PaidFor
<1> QED BY <1>2, <1>5, <1>8, <1>9 DEF Leads

LEMMA InitCause ==
  ASSUME Init PROVE CauseInv
<1>1. /\ db.agents = [a \in Agents |-> "ABSENT"] /\ db.status = "NONE"
      /\ db.cands = [s \in Submissions |-> "ABSENT"]
      /\ jobs = [j \in Jobs |-> NoJob] /\ pc = [w \in Workers |-> "idle"]
      /\ job = [w \in Workers |-> None] /\ view = [w \in Workers |-> None]
      /\ todo = [w \in Workers |-> {}]
  BY DEF Init, LoopInit
<1>2. /\ \A j \in Jobs : jobs[j].status = "absent"
      /\ \A w \in Workers : job[w] = None /\ view[w] = None /\ todo[w] = {} /\ pc[w] = "idle"
  BY <1>1 DEF NoJob
<1>3. Prepared
  BY <1>1, <1>2 DEF Prepared, Promised, Known
<1>4. Blameless
  BY <1>1, <1>2 DEF Blameless, Untroubled, Tries, NotOvertaken, MovesRun
<1> QED BY <1>3, <1>4 DEF CauseInv

LEMMA CauseInvariant == Spec => [](RunInv /\ CauseInv)
<1>1. Init => CauseInv
  BY InitCause
<1>2. RunInv /\ Undisturbed /\ RecordInv /\ ResultsInv /\ HandInv /\ CauseInv /\ [Next]_vars => CauseInv'
  BY NextKeepsCause
<1> QED BY <1>1, <1>2, HandInvariant, PTL DEF Spec

\* Where no worker is killed or slow and there are no critics, a run fails only
\* after as many failed calls of providers as a job has attempts: workers that
\* are in each other's way do not fail it.
THEOREM FailsForCause == Spec => [](CriticCount = 0 => FailsOnlyForCause)
<1>1. RunInv /\ CauseInv => (CriticCount = 0 => FailsOnlyForCause)
  <2> SUFFICES ASSUME RunInv, CauseInv, CriticCount = 0, db.status = "FAILED", Calm
               PROVE  budget.raises >= MaxAttempts
    BY DEF FailsOnlyForCause, Calm
  <2>1. PaidFor
    BY DEF CauseInv, Blameless
  <2>2. budget.raises \in Nat /\ MaxAttempts \in Nat
    BY LoopAssumption DEF RunInv, Loop, LoopInv, LoopTyped
  <2> QED BY <2>1, <2>2 DEF PaidFor
<1> QED BY <1>1, CauseInvariant, PTL

\* With critics it may take one failed call less: the judge that comes too late
\* to open the critic stage fails an attempt, but only one. One that reads the
\* candidates of the other loses none, and spawns the critics again.
THEOREM CriticsCostOneAttempt ==
  Spec => []((db.status = "FAILED" /\ Calm) => budget.raises + 1 >= MaxAttempts)
<1>1. RunInv /\ CauseInv => ((db.status = "FAILED" /\ Calm) => budget.raises + 1 >= MaxAttempts)
  <2> SUFFICES ASSUME RunInv, CauseInv, db.status = "FAILED", Calm
               PROVE  budget.raises + 1 >= MaxAttempts
    OBVIOUS
  <2>1. PaidFor
    BY DEF CauseInv, Blameless
  <2>2. budget.raises \in Nat /\ MaxAttempts \in Nat
    BY LoopAssumption DEF RunInv, Loop, LoopInv, LoopTyped
  <2> QED BY <2>1, <2>2 DEF PaidFor
<1> QED BY <1>1, CauseInvariant, PTL

-----------------------------------------------------------------------------
(* Why the end of a run without critics is final, whoever was killed, as    *)
(* long as no live worker has lost a lease.                                 *)

\* A worker that is about to start the run.
AboutToStart(w) == pc[w] = "create" /\ view[w] # None /\ view[w].status = "CREATED"

\* The worker's job is that of an agent which has not answered yet.
Open(w) == job[w].agent # None /\ db.agents[job[w].agent] # "COMPLETED"
Unfinished(w) ==
  /\ pc[w] \in {"calling", "result"} => Open(w)
  /\ pc[w] \in {"raised", "terminal"} => IsOver \/ Open(w)

\* A stage is left only once all of its agents have answered.
StagesDone ==
  /\ \A g \in Generations : g < Current => ResearchDone(db, g) /\ JudgesAnswered(db, g)
  /\ db.status = "JUDGING" => ResearchDone(db, Current)

FailureShows ==
  /\ \A a \in Agents : db.agents[a] = "FAILED" => db.status = "FAILED"
  /\ \A w \in Workers : pc[w] = "failrun" => db.status = "FAILED"

NobodyOvertaken == \A w \in Workers :
  /\ NotOvertaken(w)
  /\ AboutToStart(w) => db.status = "CREATED"
  /\ (view[w] # None /\ view[w].status \in Over) => IsOver

EndsWell ==
  /\ Prepared /\ FailureShows /\ NobodyOvertaken /\ StagesDone
  /\ \A w \in Workers : Unfinished(w)
  /\ db.status = "COMPLETED" =>
       \A w \in Workers : (pc[w] = "terminal" /\ view[w] # None) => view[w].status \in Over
EndsInv == (CriticCount = 0 /\ budget.lapses = 0) => EndsWell

Steady == RunInv /\ Knows /\ Results /\ budget.lapses = 0 /\ CriticCount = 0 /\ EndsWell

\* Who is about to move the run on finds the stage done that it leaves.
LEMMA MoverRelies ==
  ASSUME Steady, NEW w \in Workers, MovesRun(w)
  PROVE  /\ job[w].gen = Current /\ db.gens = Current + 1 /\ Current \in Generations /\ Current \in Nat
         /\ \/ pc[w] = "judging" /\ db.status = "RESEARCHING" /\ job[w] = StartJudgingJob(Current)
            \/ pc[w] = "finalize" /\ db.status = "JUDGING" /\ job[w] = FinalizeJob(Current)
         /\ ResearchDone(db, Current)
         /\ pc[w] = "finalize" => JudgesAnswered(db, Current)
<1>0. RunInv /\ db \in Database /\ Prepared /\ NotOvertaken(w)
  BY DEF Steady, RunInv, EndsWell, NobodyOvertaken
<1>1. /\ view[w] # None /\ view[w].gens = job[w].gen + 1 /\ db.gens = view[w].gens
      /\ db.status = view[w].status
      /\ \/ pc[w] = "judging" /\ db.status = "RESEARCHING"
         \/ pc[w] = "finalize" /\ db.status = "JUDGING"
  BY <1>0 DEF MovesRun, NotOvertaken
<1>2. Inside(w)
  BY <1>1 DEF Inside
<1>3. /\ job[w] \in Jobs /\ job[w] # None /\ job[w].gen \in Generations
      /\ pc[w] = "judging" => job[w] = StartJudgingJob(job[w].gen)
      /\ pc[w] = "finalize" => job[w] = FinalizeJob(job[w].gen)
  BY <1>0, <1>2, InsideFits
<1>4. PICK g \in Generations : g = job[w].gen
  BY <1>3
<1>5. PICK j \in Jobs : j = job[w]
  BY <1>3
<1>6. Reliable(j, db)
  <2>1. jobs[job[w]].status # "absent"
    BY <1>0, <1>3 DEF RunInv, Loop, LoopInv, HoldsRow
  <2> QED BY <1>0, <1>5, <2>1 DEF Prepared, Promised, Known
<1>7. g = Current /\ g \in Nat /\ db.gens = g + 1
  BY <1>0, <1>1, <1>4, GenerationsType, GensType DEF Current, Latest
<1>8. ResearchDone(db, g)
  <2>1. CASE pc[w] = "judging"
    <3>1. j.type = "START_JUDGING" /\ j.gen = g
      BY <1>3, <1>4, <1>5, <2>1 DEF StartJudgingJob, Job
    <3> QED BY <1>6, <3>1 DEF Reliable
  <2>2. CASE db.status = "JUDGING"
    BY <1>7, <2>2 DEF Steady, EndsWell, StagesDone
  <2> QED BY <1>1, <2>1, <2>2
<1>9. pc[w] = "finalize" => JudgesAnswered(db, g)
  <2> SUFFICES ASSUME pc[w] = "finalize" PROVE JudgesAnswered(db, g)
    OBVIOUS
  <2>1. j.type = "FINALIZE_RUN" /\ j.gen = g
    BY <1>3, <1>4, <1>5 DEF FinalizeJob, Job
  <2> QED BY <1>6, <2>1 DEF Reliable
<1> QED BY <1>1, <1>3, <1>4, <1>7, <1>8, <1>9

\* It finds every agent done.
LEMMA MoverFindsAllDone ==
  ASSUME Steady, NEW w \in Workers, MovesRun(w) \/ AboutToStart(w)
  PROVE  ~IsOver /\ \A a \in Here(db) : db.agents[a] = "COMPLETED"
<1>0. RunInv /\ db \in Database /\ FailureShows /\ Shape(db) /\ StatusFits(db)
  BY DEF Steady, RunInv, EndsWell
<1>1. CASE AboutToStart(w)
  <2>1. db.status = "CREATED"
    BY <1>1 DEF Steady, EndsWell, NobodyOvertaken
  <2>2. db.gens = 0
    BY <1>0, <2>1 DEF StatusFits
  <2>3. ASSUME NEW a \in Here(db) PROVE FALSE
    <3>1. a.gen < db.gens /\ a \in Agents
      BY <1>0 DEF Shape, Here
    <3>2. a.gen \in Nat
      BY <3>1, AgentParts, GenerationsType
    <3> QED BY <2>2, <3>1, <3>2
  <2> QED BY <2>1, <2>3 DEF IsOver, Over
<1>2. CASE MovesRun(w)
  <2>1. PICK g \in Generations : g = Current
    BY <1>2, MoverRelies
  <2>2. /\ g \in Nat /\ db.gens = g + 1 /\ ResearchDone(db, g)
        /\ \/ pc[w] = "judging" /\ db.status = "RESEARCHING"
           \/ pc[w] = "finalize" /\ db.status = "JUDGING"
        /\ pc[w] = "finalize" => JudgesAnswered(db, g)
    BY <1>2, <2>1, MoverRelies
  <2>3. ASSUME NEW a \in JudgesOf(g), a \in Here(db) PROVE db.agents[a] \in {"COMPLETED", "FAILED"}
    <3>1. CASE db.status = "RESEARCHING"
      <4>1. NoJudgeYet(db)
        BY DEF Steady, Knows
      <4>2. a.role = "judge" /\ a.gen = g
        BY JudgeParts
      <4> QED BY <2>1, <2>3, <3>1, <4>1, <4>2 DEF NoJudgeYet, Current
    <3>2. CASE pc[w] = "finalize"
      BY <2>2, <2>3, <3>2 DEF JudgesAnswered
    <3> QED BY <2>2, <3>1, <3>2
  <2>4. ~IsOver
    BY <2>2 DEF IsOver, Over
  <2>5. ASSUME NEW a \in Here(db) PROVE db.agents[a] \in {"COMPLETED", "FAILED"}
    <3>1. a \in Agents /\ a.gen \in Generations /\ a.gen < db.gens
      BY <1>0, AgentParts DEF Shape, Here
    <3>2. PICK h \in Generations : h = a.gen
      BY <3>1
    <3>3. h \in Nat /\ h < g + 1
      BY <2>2, <3>1, <3>2, GenerationsType
    <3>4. h < g \/ h = g
      BY <2>2, <3>3
    <3>5. h < g => ResearchDone(db, h) /\ JudgesAnswered(db, h)
      BY <2>1 DEF Steady, EndsWell, StagesDone
    <3>6. CASE a \in Researchers(h)
      BY <2>2, <3>4, <3>5, <3>6 DEF ResearchDone
    <3>7. CASE a \in JudgesOf(h)
      BY <2>3, <3>4, <3>5, <3>7 DEF JudgesAnswered
    <3>8. a \notin CriticsOf(h)
      BY CriticParts DEF Steady
    <3>9. a \in Researchers(h) \/ a \in JudgesOf(h) \/ a \in CriticsOf(h)
      <4>1. PICK x \in Generations : a \in Researchers(x) \/ a \in JudgesOf(x) \/ a \in CriticsOf(x)
        BY <3>1 DEF Agents
      <4>2. a.gen = x
        BY <4>1, ResearcherParts, JudgeParts, CriticParts
      <4> QED BY <3>2, <4>1, <4>2
    <3> QED BY <3>6, <3>7, <3>8, <3>9
  <2>6. \A a \in Here(db) : db.agents[a] # "FAILED"
    BY <1>0, <2>4 DEF FailureShows, Here, IsOver, Over
  <2> QED BY <2>4, <2>5, <2>6
<1> QED BY <1>1, <1>2

\* Nobody else is about to move it on.
LEMMA OneMover ==
  ASSUME Steady, NEW w \in Workers, NEW u \in Workers, MovesRun(w) \/ AboutToStart(w), MovesRun(u) \/ AboutToStart(u)
  PROVE  u = w
<1>0. RunInv /\ budget.lapses = 0
  BY DEF Steady
<1>1. ASSUME NEW x \in Workers, MovesRun(x) \/ AboutToStart(x)
      PROVE  /\ job[x] # None /\ pc[x] # "terminal"
             /\ IF db.status = "CREATED" THEN job[x] = CreateJob
                ELSE IF db.status = "RESEARCHING" THEN job[x] = StartJudgingJob(Current)
                ELSE job[x] = FinalizeJob(Current)
  <2>1. Inside(x) /\ pc[x] # "terminal"
    BY <1>1 DEF Inside, MovesRun, AboutToStart
  <2>2. /\ job[x] # None /\ job[x] \in Jobs /\ job[x].gen \in Generations
        /\ pc[x] = "create" => job[x] = CreateJob
        /\ pc[x] = "judging" => job[x] = StartJudgingJob(job[x].gen)
        /\ pc[x] = "finalize" => job[x] = FinalizeJob(job[x].gen)
    BY <1>0, <2>1, InsideFits
  <2>3. CASE AboutToStart(x)
    <3>1. db.status = "CREATED" /\ pc[x] = "create"
      BY <2>3 DEF Steady, EndsWell, NobodyOvertaken, AboutToStart
    <3> QED BY <2>1, <2>2, <3>1
  <2>4. CASE MovesRun(x)
    BY <2>1, <2>2, <2>4, MoverRelies
  <2> QED BY <1>1, <2>3, <2>4
<1>2. job[u] = job[w]
  BY <1>1
<1> QED BY <1>0, <1>1, <1>2, Alone

-----------------------------------------------------------------------------
(* What a step may do.                                                      *)

\* What it may make of a worker.
Fine(u) ==
  /\ pc'[u] = "failrun" => db.status = "FAILED"
  /\ pc'[u] \in {"calling", "result"} => Open(u)'
  /\ pc'[u] \in {"raised", "terminal"} => IsOver' \/ Open(u)'
Tame(u) == Fine(u) \/ (pc'[u] = pc[u] /\ job'[u] = job[u])

\* Only its own worker completes an agent.
Completers == \A b \in Agents : (db'.agents[b] = "COMPLETED" /\ db.agents[b] # "COMPLETED") =>
  \E w \in Workers : pc[w] \in {"start", "result"} /\ pc'[w] # pc[w] /\ job[w].agent = b

\* How the run goes on.
GoesTo(w) ==
  /\ view'[w] = None
  /\ \/ AboutToStart(w) /\ db'.status = "RESEARCHING" /\ db'.gens = 1
     \/ MovesRun(w) /\ pc[w] = "judging" /\ db'.status = "JUDGING" /\ db'.gens = db.gens
     \/ MovesRun(w) /\ pc[w] = "finalize" /\ db'.status = "COMPLETED" /\ db'.gens = db.gens
     \/ MovesRun(w) /\ pc[w] = "finalize" /\ db'.status = "RESEARCHING" /\ db'.gens = db.gens + 1
Reports(w) ==
  /\ pc[w] = "terminal" /\ view[w] # None /\ view[w].status \notin Over
  /\ db'.status = "FAILED" /\ db'.gens = db.gens
RunGoes ==
  \/ StaysPut
  \/ \E w \in Workers : GoesTo(w) \/ Reports(w)
  \/ db.status = "NONE" /\ db'.status = "CREATED" /\ db'.gens = db.gens
Orderly == TodoCareful /\ Completers /\ RunGoes /\ \A u \in Workers : Tame(u)

LEMMA OverStays ==
  ASSUME Steady, RunGoes, IsOver
  PROVE  db'.status = db.status
<1>1. CASE StaysPut
  BY <1>1 DEF StaysPut
<1>2. ASSUME NEW w \in Workers, GoesTo(w) PROVE FALSE
  <2>1. MovesRun(w) \/ AboutToStart(w)
    BY <1>2 DEF GoesTo
  <2> QED BY <2>1, MoverFindsAllDone
<1>3. ASSUME NEW w \in Workers, Reports(w) PROVE db'.status = db.status
  <2>1. db.status # "COMPLETED"
    BY <1>3 DEF Reports, Steady, EndsWell
  <2> QED BY <1>3, <2>1 DEF Reports, IsOver, Over
<1>4. db.status # "NONE"
  BY DEF IsOver, Over
<1> QED BY <1>1, <1>2, <1>3, <1>4 DEF RunGoes

\* The failure of a job is reported only of a run which nobody is about to move on.
LEMMA ReporterIsAlone ==
  ASSUME Steady, NEW w \in Workers, pc[w] = "terminal", NEW u \in Workers, MovesRun(u) \/ AboutToStart(u)
  PROVE  FALSE
<1>1. ~IsOver /\ \A a \in Here(db) : db.agents[a] = "COMPLETED"
  BY MoverFindsAllDone
<1>2. Open(w)
  BY <1>1 DEF Steady, EndsWell, Unfinished
<1>3. job[w] # None
  BY DEF Steady, RunInv, Loop, LoopInv, LoopOK
<1>4. job[w].agent \in Here(db)
  BY <1>2, <1>3, HolderFits DEF Steady, JobFits, Open
<1> QED BY <1>1, <1>2, <1>4 DEF Open

\* An agent is not completed behind the back of its worker.
LEMMA OpenStays ==
  ASSUME Steady, Completers, NEW u \in Workers, pc[u] \in {"calling", "result", "raised", "terminal"},
         pc'[u] = pc[u], job'[u] = job[u], Open(u)
  PROVE  Open(u)'
<1>0. RunInv /\ budget.lapses = 0 /\ FailedJobs
  BY DEF Steady, Results
<1>1. job[u] # None /\ job[u].agent # None
  BY <1>0 DEF RunInv, Loop, LoopInv, LoopOK, Open
<1>2. /\ job[u] \in Jobs /\ job[u].agent \in Agents
      /\ pc[u] = "terminal" => jobs[job[u]].status = "failed"
  BY <1>0, <1>1, HolderOfAgent
<1> SUFFICES ASSUME db'.agents[job[u].agent] = "COMPLETED" PROVE FALSE
  BY <1>1 DEF Open
<1>3. PICK w \in Workers : pc[w] \in {"start", "result"} /\ pc'[w] # pc[w] /\ job[w].agent = job[u].agent
  BY <1>2 DEF Completers, Open
<1>4. job[w] # None
  BY <1>0, <1>3, InsideFits DEF Inside
<1>5. job[w] \in Jobs /\ jobs[job[w]].status = "running"
  BY <1>0, <1>1, <1>3, <1>4, HolderOfAgent
<1>6. job[w] = job[u]
  BY <1>1, <1>2, <1>3, <1>5, OneJobPerAgent
<1>7. pc[u] # "terminal" /\ pc[w] # "terminal"
  BY <1>2, <1>3, <1>5, <1>6
<1>8. u = w
  BY <1>0, <1>1, <1>4, <1>6, <1>7, Alone
<1> QED BY <1>3, <1>8

\* What the step comes to.
LEMMA EndsOn ==
  ASSUME Steady, RunInv', Around, Changes, db' \in Database, Orderly
  PROVE  EndsWell'
<1>0. /\ RunInv /\ Results /\ budget.lapses = 0 /\ CriticCount = 0 /\ db \in Database
      /\ Prepared /\ FailureShows /\ NobodyOvertaken /\ StagesDone
      /\ TodoCareful /\ Completers /\ RunGoes /\ \A u \in Workers : Tame(u)
  BY DEF Steady, EndsWell, RunInv, Orderly
<1>1. /\ StandsBy(db, db') /\ AgentsStand(db, db') /\ Here(db) \subseteq Here(db') /\ db.subs \subseteq db'.subs
      /\ \A a \in Agents : (db'.agents[a] = "FAILED" /\ db.agents[a] # "FAILED") => db'.status = "FAILED"
  BY <1>0, ChangesStand, RowsAdded DEF StandsBy
<1>2. IsOver => db'.status = db.status /\ IsOver'
  BY <1>0, OverStays DEF IsOver
<1>3. Prepared'
  <2>1. CandsCareful
    BY <1>0 DEF CandsCareful
  <2> QED BY <1>0, <1>1, <2>1, PreparedKept
<1>4. FailureShows'
  <2>1. ASSUME NEW a \in Agents, db'.agents[a] = "FAILED" PROVE db'.status = "FAILED"
    BY <1>0, <1>1, <1>2, <2>1 DEF FailureShows, IsOver, Over
  <2>2. ASSUME NEW u \in Workers, pc'[u] = "failrun" PROVE db'.status = "FAILED"
    <3>1. db.status = "FAILED"
      BY <1>0, <2>2 DEF Tame, Fine, FailureShows
    <3> QED BY <1>2, <3>1 DEF IsOver, Over
  <2> QED BY <2>1, <2>2 DEF FailureShows
<1>5. ASSUME NEW u \in Workers, view'[u] # None
      PROVE  NotOvertaken(u)' /\ (AboutToStart(u)' => db'.status = "CREATED") /\ (view'[u].status \in Over => IsOver')
  <2>1. /\ pc'[u] = pc[u] /\ job'[u] = job[u]
        /\ view'[u] = view[u] \/ (view'[u] = db /\ db' = db)
    BY <1>5 DEF Around
  <2>2. CASE view'[u] = db /\ db' = db
    BY <2>2 DEF NotOvertaken, AboutToStart, IsOver
  <2>3. CASE view'[u] = view[u]
    <3>1. /\ NotOvertaken(u) /\ (AboutToStart(u) => db.status = "CREATED") /\ (view[u].status \in Over => IsOver)
          /\ MovesRun(u)' = MovesRun(u) /\ AboutToStart(u)' = AboutToStart(u)
      BY <1>0, <1>5, <2>1, <2>3 DEF NobodyOvertaken, MovesRun, AboutToStart
    <3>2. CASE StaysPut
      <4>1. ASSUME NEW s \in Submissions, db'.cands[s] # "ABSENT" PROVE db.cands[s] # "ABSENT"
        BY <1>0, <3>2, <4>1 DEF StaysPut
      <4>2. NotOvertaken(u)'
        <5>1. ASSUME MovesRun(u), pc[u] = "finalize" PROVE Researchers(job[u].gen) \subseteq Submissions
          <6>1. job[u].gen \in Generations
            BY <5>1, MoverRelies
          <6> QED BY <6>1, AgentSets
        <5> QED BY <2>1, <2>3, <3>1, <3>2, <4>1, <5>1 DEF NotOvertaken, StaysPut
      <4> QED BY <1>2, <2>3, <3>1, <3>2, <4>2 DEF StaysPut
    <3>3. ASSUME NEW w \in Workers, GoesTo(w) PROVE ~MovesRun(u) /\ ~AboutToStart(u)
      <4> SUFFICES ASSUME MovesRun(u) \/ AboutToStart(u) PROVE FALSE
        OBVIOUS
      <4>1. MovesRun(w) \/ AboutToStart(w)
        BY <3>3 DEF GoesTo
      <4>2. u = w
        BY <4>1, OneMover
      <4> QED BY <1>5, <3>3, <4>2 DEF GoesTo
    <3>4. ASSUME NEW w \in Workers, Reports(w) PROVE ~MovesRun(u) /\ ~AboutToStart(u)
      BY <3>4, ReporterIsAlone DEF Reports
    <3>5. db.status # "NONE"
      BY <1>0, <1>5, <2>3 DEF RunInv, WorkerFits, JobFits, Behind
    <3>6. CASE ~MovesRun(u) /\ ~AboutToStart(u)
      BY <1>2, <2>3, <3>1, <3>6 DEF NotOvertaken
    <3> QED BY <1>0, <3>2, <3>3, <3>4, <3>5, <3>6 DEF RunGoes
  <2> QED BY <2>1, <2>2, <2>3
<1>6. NobodyOvertaken'
  <2>1. ASSUME NEW u \in Workers, view'[u] = None PROVE NotOvertaken(u)' /\ ~AboutToStart(u)'
    BY <2>1 DEF NotOvertaken, MovesRun, AboutToStart
  <2> QED BY <1>5, <2>1 DEF NobodyOvertaken
<1>7. ASSUME NEW u \in Workers PROVE Unfinished(u)'
  <2>1. CASE Fine(u)
    BY <2>1 DEF Fine, Unfinished
  <2>2. CASE pc'[u] = pc[u] /\ job'[u] = job[u]
    <3>1. Unfinished(u)
      BY DEF Steady, EndsWell
    <3>2. (pc[u] \in {"calling", "result", "raised", "terminal"} /\ Open(u)) => Open(u)'
      BY <1>0, <2>2, OpenStays
    <3> QED BY <1>2, <2>2, <3>1, <3>2 DEF Unfinished
  <2> QED BY <1>0, <2>1, <2>2 DEF Tame
<1>8. StagesDone'
  <2>1. \A g \in Generations : /\ ResearchDone(db, g) => ResearchDone(db', g)
                               /\ JudgesAnswered(db, g) => JudgesAnswered(db', g)
    <3>1. ASSUME NEW g \in Generations, ResearchDone(db, g) PROVE ResearchDone(db', g)
      <4>1. Researchers(g) \subseteq Agents
        BY AgentSets
      <4> QED BY <1>1, <3>1, <4>1 DEF ResearchDone, AgentsStand
    <3> QED BY <1>1, <3>1 DEF StandsBy
  <2>2. Current = db.gens - 1 /\ db.gens \in Nat /\ Current' = db'.gens - 1
    BY <1>0, GensType DEF Current, Latest
  <2>3. CASE db'.gens = db.gens /\ db'.status \in {db.status, "FAILED", "COMPLETED"}
    <3>1. Current' = Current
      BY <2>2, <2>3
    <3>2. db'.status = "JUDGING" => db.status = "JUDGING"
      BY <2>3
    <3>3. db.status = "JUDGING" => ResearchDone(db', Current)
      <4> SUFFICES ASSUME db.status = "JUDGING" PROVE ResearchDone(db', Current)
        OBVIOUS
      <4>1. Researchers(Current) \subseteq Agents
        <5>1. db.gens > 0 /\ db.gens <= MaxGenerations
          BY <1>0, GensType DEF RunInv, StatusFits
        <5>2. Current \in Generations
          BY <2>2, <5>1, RunCreateAssumption DEF Generations
        <5> QED BY <5>2, AgentSets
      <4> QED BY <1>0, <1>1, <4>1 DEF StagesDone, ResearchDone, AgentsStand
    <3> QED BY <1>0, <2>1, <3>1, <3>2, <3>3 DEF StagesDone
  <2>4. ASSUME NEW w \in Workers, GoesTo(w) PROVE StagesDone'
    <3>1. CASE AboutToStart(w) /\ db'.status = "RESEARCHING" /\ db'.gens = 1
      <4>1. Current' = 0
        BY <2>2, <3>1
      <4>2. \A g \in Generations : ~(g < Current')
        BY <4>1, GenerationsType
      <4> QED BY <3>1, <4>2 DEF StagesDone
    <3>2. CASE MovesRun(w) /\ pc[w] = "judging" /\ db'.status = "JUDGING" /\ db'.gens = db.gens
      <4>1. ResearchDone(db, Current) /\ Current \in Generations /\ Current' = Current
        BY <2>2, <3>2, MoverRelies
      <4> QED BY <1>0, <2>1, <4>1 DEF StagesDone
    <3>3. CASE MovesRun(w) /\ pc[w] = "finalize" /\ db'.status = "COMPLETED" /\ db'.gens = db.gens
      BY <2>3, <3>3
    <3>4. CASE MovesRun(w) /\ pc[w] = "finalize" /\ db'.status = "RESEARCHING" /\ db'.gens = db.gens + 1
      <4>1. PICK c \in Generations : c = Current
        BY <3>4, MoverRelies
      <4>2. ResearchDone(db, c) /\ JudgesAnswered(db, c) /\ Current' = c + 1 /\ c \in Nat
        BY <2>2, <3>4, <4>1, MoverRelies
      <4>3. ASSUME NEW g \in Generations, g < Current' PROVE ResearchDone(db', g) /\ JudgesAnswered(db', g)
        <5>1. g \in Nat
          BY GenerationsType
        <5>2. g < c \/ g = c
          BY <4>2, <4>3, <5>1
        <5>3. ResearchDone(db, g) /\ JudgesAnswered(db, g)
          BY <1>0, <4>1, <4>2, <5>2 DEF StagesDone
        <5> QED BY <2>1, <5>3
      <4> QED BY <3>4, <4>3 DEF StagesDone
    <3> QED BY <2>4, <3>1, <3>2, <3>3, <3>4 DEF GoesTo
  <2>5. ASSUME db.status = "NONE", db'.status = "CREATED", db'.gens = db.gens PROVE StagesDone'
    BY <1>0, <2>1, <2>2, <2>5 DEF StagesDone
  <2>6. StaysPut => StagesDone'
    BY <2>3 DEF StaysPut
  <2>7. ASSUME NEW w \in Workers, Reports(w) PROVE StagesDone'
    BY <2>3, <2>7 DEF Reports
  <2> QED BY <1>0, <2>4, <2>5, <2>6, <2>7 DEF RunGoes
<1>9. ASSUME db'.status = "COMPLETED", NEW u \in Workers, pc'[u] = "terminal", view'[u] # None
      PROVE  view'[u].status \in Over
  <2>1. /\ pc[u] = "terminal" /\ job'[u] = job[u]
        /\ view'[u] = view[u] \/ (view'[u] = db /\ db' = db)
    BY <1>9 DEF Around
  <2>2. CASE view'[u] = db /\ db' = db
    BY <1>9, <2>2 DEF Over
  <2>3. CASE view'[u] = view[u] /\ db.status = "COMPLETED"
    BY <1>9, <2>1, <2>3 DEF Steady, EndsWell
  <2>4. ASSUME NEW w \in Workers, GoesTo(w) PROVE FALSE
    <3>1. MovesRun(w) \/ AboutToStart(w)
      BY <2>4 DEF GoesTo
    <3> QED BY <2>1, <3>1, ReporterIsAlone
  <2>5. db.status = "COMPLETED"
    BY <1>0, <1>9, <2>4 DEF RunGoes, StaysPut, Reports
  <2> QED BY <2>1, <2>2, <2>3, <2>5
<1> QED BY <1>3, <1>4, <1>6, <1>7, <1>8, <1>9 DEF EndsWell

\* What is the latest generation for the reader was so when it began.
LEMMA ReadLatest ==
  ASSUME Standing, NEW w \in Workers, Inside(w), view[w] # None, NEW v \in Reads(w),
         job[w] # CreateJob, IsLatest(v, job[w].gen)
  PROVE  view[w].gens = job[w].gen + 1
<1>1. PICK g \in Generations : g = job[w].gen
  BY InsideFits DEF Standing
<1>2. v \in Database /\ view[w] \in Database /\ db \in Database /\ g \in Nat
  BY ReadsFit, GenerationsType DEF Standing, RunInv
<1>3. v.gens \in Nat /\ view[w].gens \in Nat /\ db.gens \in Nat /\ g = v.gens - 1
  BY <1>1, <1>2, GensType DEF IsLatest, Latest
<1>4. CASE v = view[w]
  BY <1>1, <1>2, <1>3, <1>4
<1>5. CASE v = [db EXCEPT !.status = view[w].status]
  <2>1. v.gens = db.gens
    BY <1>2, <1>5 DEF Database
  <2>2. g = Current
    BY <1>3, <2>1 DEF Current, Latest
  <2>3. view[w].gens = db.gens
    BY <1>1, <2>2, StandingLatest
  <2> QED BY <1>1, <1>2, <1>3, <2>1, <2>3
<1> QED BY <1>4, <1>5 DEF Reads

-----------------------------------------------------------------------------
(* Every step is orderly.                                                   *)

LEMMA GotoOrderly ==
  ASSUME RunInv, NEW w \in Workers, NEW where, NEW keys, Goto(w, where, keys), UNCHANGED job,
         \A j \in keys : j \in todo[w] \/ j.type \notin {"START_JUDGING", "FINALIZE_RUN"} \/ Reliable(j, db),
         Completers, RunGoes,
         where = "failrun" => db.status = "FAILED",
         where \in {"calling", "result"} => Open(w)',
         where \in {"raised", "terminal"} => IsOver' \/ Open(w)'
  PROVE  Orderly
<1>1. /\ pc \in [Workers -> UnitsOfWork \union Between] /\ todo \in [Workers -> SUBSET Jobs]
  BY DEF RunInv, Loop, LoopInv, LoopTyped
<1>2. /\ pc'[w] = where /\ todo'[w] = keys
      /\ \A u \in Workers \ {w} : todo'[u] = todo[u] /\ pc'[u] = pc[u]
  BY <1>1 DEF Goto
<1>3. TodoCareful
  BY <1>2 DEF TodoCareful
<1>4. Fine(w)
  BY <1>2 DEF Fine
<1>5. \A u \in Workers : Tame(u)
  BY <1>2, <1>4 DEF Tame
<1> QED BY <1>3, <1>5 DEF Orderly

LEMMA SameStays ==
  ASSUME db' = db
  PROVE  StaysPut /\ RunGoes /\ Completers /\ (IsOver' = IsOver)
BY DEF StaysPut, RunGoes, Completers, IsOver

LEMMA ReturnOrderly ==
  ASSUME RunInv, NEW w \in Workers, NEW where, NEW keys, Return(w, where, keys),
         \A j \in keys : j \in todo[w] \/ j.type \notin {"START_JUDGING", "FINALIZE_RUN"} \/ Reliable(j, db),
         where = "failrun" => db.status = "FAILED",
         where = "result" => Open(w),
         where = "raised" => IsOver \/ Open(w),
         where \notin {"calling", "terminal"}
  PROVE  Orderly
<1>1. Goto(w, where, keys) /\ db' = db /\ job' = job
  BY DEF Return
<1>2. Open(w)' = Open(w)
  BY <1>1 DEF Open
<1> QED BY <1>1, <1>2, SameStays, GotoOrderly

LEMMA SettlesOrderly ==
  ASSUME RunInv, NEW w \in Workers, Return(w, "settle", {})
  PROVE  Orderly
BY ReturnOrderly

LEMMA RaiseOrderly ==
  ASSUME RunInv, NEW w \in Workers, Raise(w), IsOver \/ Open(w)
  PROVE  Orderly
BY ReturnOrderly DEF Raise

\* No agent is completed by it.
LEMMA CommitOrderly ==
  ASSUME RunInv, NEW w \in Workers, NEW new, NEW where \in {"settle", "enqueue"}, NEW keys,
         Commit(w, new, where, keys),
         \A j \in keys : j.type \notin {"START_JUDGING", "FINALIZE_RUN"} \/ Reliable(j, db),
         \A b \in Agents : new.agents[b] = "COMPLETED" => db.agents[b] = "COMPLETED",
         RunGoes
  PROVE  Orderly
<1>1. Goto(w, where, keys) /\ db' = new /\ job' = job
  BY DEF Commit
<1>2. Completers
  BY <1>1 DEF Completers
<1> QED BY <1>1, <1>2, GotoOrderly

LEMMA BecomesOrderly ==
  ASSUME Steady, NEW w \in Workers, pc[w] \in {"start", "result"}, view[w] # None,
         NEW new \in Database, Here(new) = Here(db), new.agents = db.agents,
         new.status = db.status, new.gens = db.gens, new.cands = db.cands, new.verdict = db.verdict,
         \/ Becomes(w, new, "RUNNING", "calling") /\ pc[w] = "start"
         \/ Becomes(w, new, "COMPLETED", "schedule")
  PROVE  Orderly
<1>0. RunInv /\ Results /\ budget.lapses = 0
  BY DEF Steady
<1> DEFINE a == job[w].agent
<1>1. a # None /\ a \in Agents /\ a \in Here(new) /\ view[w].agents[a] = db.agents[a]
  BY <1>0, OwnSight DEF SameRows
<1>2. PICK seen \in {view[w], db}, status \in {"RUNNING", "COMPLETED"}, where \in {"calling", "schedule"} :
        /\ Commit(w, AgentUpdates(new, seen, a, status), where, {})
        /\ where = "calling" <=> status = "RUNNING"
  BY DEF Becomes
<1>3. seen.agents[a] = new.agents[a]
  BY <1>1
<1> DEFINE e == AgentUpdates(new, seen, a, status)
<1>4. /\ e.status = new.status /\ e.gens = new.gens /\ e.cands = new.cands /\ e.verdict = new.verdict
      /\ \A b \in Agents : e.agents[b] = new.agents[b] \/ (b = a /\ e.agents[b] = status)
  <2>1. status \in AgentStatus \ {"ABSENT"}
    BY DEF AgentStatus
  <2> HIDE DEF a
  <2> QED BY <1>1, <2>1, AgentUpdatesKeep
<1>5. e.agents[a] = status
  BY <1>1, <1>3 DEF AgentUpdates, Database
<1>6. db' = e /\ Goto(w, where, {}) /\ job' = job
  BY <1>2 DEF Commit
<1> HIDE DEF e
<1>7. StaysPut /\ RunGoes
  BY <1>4, <1>6 DEF StaysPut, RunGoes
<1>8. pc'[w] # pc[w]
  <2>1. pc \in [Workers -> UnitsOfWork \union Between]
    BY <1>0 DEF RunInv, Loop, LoopInv, LoopTyped
  <2> QED BY <1>6, <2>1 DEF Goto
<1>9. Completers
  BY <1>4, <1>6, <1>8 DEF Completers
<1>10. where = "calling" => Open(w)'
  BY <1>1, <1>2, <1>5, <1>6 DEF Open
<1> QED BY <1>0, <1>6, <1>7, <1>9, <1>10, GotoOrderly

LEMMA ResumeOrderly ==
  ASSUME Steady, NEW w \in Workers, pc[w] = "start", view[w] # None, Resume(w)
  PROVE  Orderly
<1>1. db \in Database /\ RunInv
  BY DEF Steady, RunInv
<1>2. CASE Becomes(w, db, "COMPLETED", "schedule")
  BY <1>1, <1>2, BecomesOrderly
<1>3. CASE Return(w, "schedule", {})
  BY <1>1, <1>3, ReturnOrderly
<1> QED BY <1>2, <1>3 DEF Resume

LEMMA StartOrderly ==
  ASSUME Steady, NEW w \in Workers, StartResearch(w) \/ StartJudge(w) \/ StartCritic(w)
  PROVE  Orderly
<1>1. pc[w] = "start" /\ view[w] # None /\ db \in Database /\ RunInv
  BY DEF StartResearch, StartJudge, StartCritic, At, Steady, RunInv
<1>2. Resume(w) \/ Becomes(w, db, "RUNNING", "calling") \/ Return(w, "settle", {})
  BY DEF StartResearch, StartJudge, StartCritic
<1> QED BY <1>1, <1>2, ResumeOrderly, BecomesOrderly, SettlesOrderly

LEMMA StoreOrderly ==
  ASSUME Steady, NEW w \in Workers, StoreSubmission(w) \/ StoreEvaluations(w) \/ StoreFinding(w)
  PROVE  Orderly
<1> DEFINE a == job[w].agent
<1>1. view[w] # None /\ pc[w] = "result" /\ db \in Database /\ RunInv /\ Results /\ budget.lapses = 0
  BY DEF StoreSubmission, StoreEvaluations, StoreFinding, At, Steady, RunInv
<1>2. Open(w)
  BY <1>1 DEF Steady, EndsWell, Unfinished
<1>3. CASE Raise(w)
  BY <1>1, <1>2, <1>3, RaiseOrderly
<1>4. ASSUME NEW new \in Database, Here(new) = Here(db), new.agents = db.agents, new.status = db.status,
             new.gens = db.gens, new.cands = db.cands, new.verdict = db.verdict,
             Becomes(w, new, "COMPLETED", "schedule")
      PROVE  Orderly
  BY <1>1, <1>4, BecomesOrderly
<1>5. CASE StoreSubmission(w)
  <2> DEFINE new == [db EXCEPT !.subs = @ \union {a}]
  <2>1. a \in Submissions
    <3>1. job[w].type = "RUN_RESEARCH_AGENT"
      BY <1>5 DEF StoreSubmission
    <3> QED BY <1>1, <3>1, OwnSight, AgentSets
  <2>2. /\ new \in Database /\ Here(new) = Here(db) /\ new.agents = db.agents /\ new.status = db.status
        /\ new.gens = db.gens /\ new.cands = db.cands /\ new.verdict = db.verdict
    BY <1>1, <2>1 DEF Database, Here
  <2>3. Raise(w) \/ Becomes(w, new, "COMPLETED", "schedule")
    BY <1>5 DEF StoreSubmission
  <2> HIDE DEF new
  <2> QED BY <1>3, <1>4, <2>2, <2>3
<1>6. CASE StoreEvaluations(w)
  <2> DEFINE fresh == Unjudged(view[w], a)
             new == [db EXCEPT !.evals = @ \union (fresh \X {a})]
  <2>1. job[w].type = "RUN_JUDGE"
    BY <1>6 DEF StoreEvaluations
  <2>2. a \in JudgesOf(a.gen) /\ a.gen \in Generations /\ view[w] \in Database
    BY <1>1, <2>1, OwnSight
  <2>3. fresh \subseteq Submissions
    <3>1. view[w].subs \subseteq Submissions
      BY <2>2 DEF Database
    <3> QED BY <3>1 DEF Unjudged, SubsOf
  <2>4. Raise(w) \/ Becomes(w, new, "COMPLETED", "schedule")
    BY <1>6 DEF StoreEvaluations
  <2> HIDE DEF fresh, a
  <2>5. fresh \X {a} \subseteq Submissions \X UNION {JudgesOf(g) : g \in Generations}
    BY <2>2, <2>3
  <2>6. /\ new \in Database /\ Here(new) = Here(db) /\ new.agents = db.agents /\ new.status = db.status
        /\ new.gens = db.gens /\ new.cands = db.cands /\ new.verdict = db.verdict
    BY <1>1, <2>5 DEF Database, Here
  <2> HIDE DEF new
  <2> QED BY <1>3, <1>4, <2>4, <2>6
<1>7. CASE StoreFinding(w)
  <2>1. job[w].type = "RUN_CRITIC"
    BY <1>7 DEF StoreFinding
  <2>2. a \in CriticsOf(a.gen)
    BY <1>1, <2>1, OwnSight
  <2> QED BY <2>2, CriticParts DEF Steady
<1> QED BY <1>5, <1>6, <1>7

LEMMA ProviderOrderly ==
  ASSUME Steady, NEW w \in Workers, ProviderAnswers(w) \/ ProviderFails(w)
  PROVE  Orderly
<1>0. RunInv /\ pc[w] = "calling"
  BY DEF Steady, ProviderAnswers, ProviderFails
<1>1. Open(w)
  BY <1>0 DEF Steady, EndsWell, Unfinished
<1>2. CASE ProviderAnswers(w)
  BY <1>0, <1>1, <1>2, ReturnOrderly DEF ProviderAnswers
<1>3. CASE ProviderFails(w)
  <2>1. Goto(w, "raised", {}) /\ db' = db /\ job' = job
    BY <1>3 DEF ProviderFails
  <2>2. Open(w)'
    BY <1>1, <2>1 DEF Open
  <2> QED BY <1>0, <2>1, <2>2, SameStays, GotoOrderly
<1> QED BY <1>2, <1>3

\* Nothing is seen failed but in a run that has failed.
LEMMA FailedSeen ==
  ASSUME Steady, NEW w \in Workers, Inside(w), view[w] # None, NEW v \in Reads(w),
         NEW a \in Agents, v.agents[a] = "FAILED"
  PROVE  db.status = "FAILED"
<1>1. AgentsStand(v, db)
  BY StandingReads DEF Steady, Standing
<1> QED BY <1>1 DEF AgentsStand, Steady, EndsWell, FailureShows

LEMMA MaybeScheduleJudgingOrderly ==
  ASSUME Steady, NEW w \in Workers, MaybeScheduleJudging(w)
  PROVE  Orderly
<1> DEFINE g == job[w].gen
<1>0. /\ pc[w] = "schedule" /\ view[w] # None /\ Inside(w) /\ RunInv /\ Standing
  BY DEF MaybeScheduleJudging, At, Inside, Steady, Standing
<1>1. PICK v \in Reads(w) :
        \/ Return(w, "settle", {})
        \/ SomeFailed(v, Researchers(g)) /\ Return(w, "failrun", {})
        \/ ResearchComplete(v, g) /\ Return(w, "enqueue", {StartJudgingJob(g)})
  BY DEF MaybeScheduleJudging
<1>2. g \in Generations
  BY <1>0, InsideFits
<1> HIDE DEF g
<1>3. Researchers(g) \subseteq Agents
  BY <1>2, AgentSets
<1>4. CASE Return(w, "settle", {})
  BY <1>0, <1>4, SettlesOrderly
<1>5. CASE SomeFailed(v, Researchers(g)) /\ Return(w, "failrun", {})
  <2>1. db.status = "FAILED"
    BY <1>0, <1>3, <1>5, FailedSeen DEF SomeFailed
  <2> QED BY <1>0, <1>5, <2>1, ReturnOrderly
<1>6. CASE ResearchComplete(v, g) /\ Return(w, "enqueue", {StartJudgingJob(g)})
  <2>1. AgentsStand(v, db) /\ v.subs \subseteq db.subs
    BY <1>0, StandingReads, ReadsFit DEF Behind
  <2>2. ResearchDone(db, g)
    BY <1>3, <1>6, <2>1 DEF ResearchComplete, AllCompleted, SubsOf, ResearchDone, AgentsStand
  <2>3. Reliable(StartJudgingJob(g), db)
    BY <2>2 DEF Reliable, StartJudgingJob, Job
  <2> QED BY <1>0, <1>6, <2>3, ReturnOrderly
<1> QED BY <1>1, <1>4, <1>5, <1>6

LEMMA MaybeScheduleFinalizeOrderly ==
  ASSUME Steady, NEW w \in Workers, MaybeScheduleFinalize(w)
  PROVE  Orderly
<1>0. /\ pc[w] = "schedule" /\ view[w] # None /\ Inside(w) /\ db \in Database
      /\ RunInv /\ Knows /\ Results /\ CriticCount = 0 /\ budget.lapses = 0
  BY DEF MaybeScheduleFinalize, At, Inside, Steady, RunInv
<1>1. PICK g \in Generations : g = job[w].gen
  BY <1>0, InsideFits
<1>2. PICK v \in Reads(w) : Schedules(w, v, g)
  BY <1>0, <1>1, MaybeScheduleFinalizeEffect
<1>3. CASE Return(w, "settle", {})
  BY <1>0, <1>3, SettlesOrderly
<1>4. CASE SomeFailed(v, JudgesOf(g)) /\ Return(w, "failrun", {})
  <2>1. JudgesOf(g) \subseteq Agents
    BY AgentSets
  <2>2. db.status = "FAILED"
    BY <1>0, <1>4, <2>1, FailedSeen DEF SomeFailed
  <2> QED BY <1>0, <1>4, <2>2, ReturnOrderly
<1>5. CASE JudgingComplete(v, g) /\ Return(w, "enqueue", {FinalizeJob(g)})
  <2>1. JudgesAnswered(db, g)
    BY <1>0, <1>5, JudgingAnswered
  <2>2. Reliable(FinalizeJob(g), db)
    BY <1>0, <2>1 DEF Reliable, FinalizeJob, Job
  <2> QED BY <1>0, <1>5, <2>2, ReturnOrderly
<1> QED BY <1>0, <1>2, <1>3, <1>4, <1>5 DEF Schedules

LEMMA FailRunOrderly ==
  ASSUME Steady, NEW w \in Workers, FailRun(w)
  PROVE  Orderly
<1>0. RunInv /\ db \in Database /\ db.status = "FAILED" /\ IsOver
  BY DEF FailRun, At, Steady, RunInv, EndsWell, FailureShows, IsOver, Over
<1>1. PICK v \in Reads(w) : Return(w, "settle", {}) \/ CommitStatus(w, db, "FAILED", "settle", {})
  BY DEF FailRun
<1>2. CASE Return(w, "settle", {})
  BY <1>0, <1>2, SettlesOrderly
<1>3. CASE Raise(w)
  BY <1>0, <1>3, RaiseOrderly
<1>4. CASE Commit(w, [db EXCEPT !.status = "FAILED"], "settle", {})
  <2>1. [db EXCEPT !.status = "FAILED"] = db
    BY <1>0 DEF Database
  <2>2. Commit(w, db, "settle", {})
    BY <1>4, <2>1
  <2>3. RunGoes
    BY <2>2, SameStays DEF Commit
  <2> QED BY <1>0, <2>2, <2>3, CommitOrderly
<1> QED BY <1>1, <1>2, <1>3, <1>4, CommitStatusIs

\* The steps of the loop.
LEMMA DropOrderly ==
  ASSUME RunInv, NEW w \in Workers, NEW where \in {"idle", "dead"}, Drop(w, where), Completers, RunGoes
  PROVE  Orderly
<1>1. /\ pc \in [Workers -> UnitsOfWork \union Between] /\ todo \in [Workers -> SUBSET Jobs]
      /\ job \in [Workers -> Jobs \union {None}]
  BY DEF RunInv, Loop, LoopInv, LoopTyped
<1>2. /\ pc'[w] = where /\ todo'[w] = {}
      /\ \A u \in Workers \ {w} : todo'[u] = todo[u] /\ pc'[u] = pc[u] /\ job'[u] = job[u]
  BY <1>1 DEF Drop, Goto
<1>3. Fine(w)
  BY <1>2 DEF Fine
<1>4. TodoCareful /\ \A u \in Workers : Tame(u)
  BY <1>2, <1>3 DEF TodoCareful, Tame
<1> QED BY <1>4 DEF Orderly

LEMMA LoopOrderly ==
  ASSUME Steady, NEW w \in Workers,
         EnqueueNext(w) \/ Settle(w) \/ Fail(w) \/ CrashWorker(w) \/ Restart(w)
  PROVE  Orderly
<1>0. RunInv
  BY DEF Steady
<1>1. db' = db
  BY DEF EnqueueNext, EnqueueOne, Settle, Fail, CrashWorker, Restart
<1>2. Completers /\ RunGoes /\ IsOver' = IsOver
  BY <1>1, SameStays
<1>3. ASSUME NEW where \in {"idle", "dead"}, Drop(w, where) PROVE Orderly
  BY <1>0, <1>2, <1>3, DropOrderly
<1>4. CASE EnqueueNext(w)
  <2>1. PICK j \in todo[w] : EnqueueOne(w, j)
    BY <1>4 DEF EnqueueNext
  <2>2. PICK where \in {"settle", "enqueue"} : Goto(w, where, todo[w] \ {j}) /\ job' = job
    BY <2>1 DEF EnqueueOne
  <2> QED BY <1>0, <1>2, <2>2, GotoOrderly
<1>5. CASE Fail(w)
  <2>1. CASE Goto(w, "terminal", {}) /\ job' = job
    <3>1. IsOver \/ Open(w)
      BY <1>5 DEF Fail, Steady, EndsWell, Unfinished
    <3>2. IsOver' \/ Open(w)'
      BY <1>1, <1>2, <2>1, <3>1 DEF Open
    <3> QED BY <1>0, <1>2, <2>1, <3>2, GotoOrderly
  <2> QED BY <1>3, <1>5, <2>1 DEF Fail
<1>6. CASE Settle(w) \/ CrashWorker(w) \/ Restart(w)
  BY <1>3, <1>6 DEF Settle, CrashWorker, Restart
<1> QED BY <1>4, <1>5, <1>6

LEMMA StillOrderly ==
  ASSUME UNCHANGED <<pc, job, todo>>, Completers, RunGoes
  PROVE  Orderly
BY DEF Orderly, TodoCareful, Tame

LEMMA OthersOrderly ==
  ASSUME Steady, \/ CreateRun \/ EnqueueCreateGeneration \/ CrashApi \/ UNCHANGED vars
                 \/ (\E j \in Jobs : Lapse(j)) \/ (\E w \in Workers : Begin(w))
  PROVE  Orderly
<1>1. UNCHANGED <<pc, job, todo>>
  BY DEF CreateRun, EnqueueCreateGeneration, CrashApi, Lapse, Begin, BeginAt, vars, workerVars
<1>2. CASE db' = db
  BY <1>1, <1>2, SameStays, StillOrderly
<1>3. CASE CreateRun
  <2>1. db' = [db EXCEPT !.status = "CREATED"] /\ db.status = "NONE" /\ db \in Database
    BY <1>3 DEF CreateRun, Steady, RunInv
  <2>2. db'.status = "CREATED" /\ db'.gens = db.gens /\ db'.agents = db.agents
    BY <2>1 DEF Database
  <2>3. Completers /\ RunGoes
    BY <2>1, <2>2 DEF Completers, RunGoes
  <2> QED BY <1>1, <2>3, StillOrderly
<1> QED BY <1>2, <1>3 DEF EnqueueCreateGeneration, CrashApi, Lapse, Begin, BeginAt, vars

LEMMA ClaimOrderly ==
  ASSUME Steady, NEW w \in Workers, NEW j \in Jobs, Claim(w, j)
  PROVE  Orderly
<1>1. /\ pc \in [Workers -> UnitsOfWork \union Between] /\ job \in [Workers -> Jobs \union {None}]
  BY DEF Steady, RunInv, Loop, LoopInv, LoopTyped
<1>2. /\ UNCHANGED <<db, todo>> /\ pc' = [pc EXCEPT ![w] = FirstUnit(j.type)]
      /\ job' = [job EXCEPT ![w] = j]
  BY DEF Claim, ClaimFor
<1>3. /\ pc'[w] = FirstUnit(j.type)
      /\ \A u \in Workers \ {w} : pc'[u] = pc[u] /\ job'[u] = job[u]
  BY <1>1, <1>2
<1>4. pc'[w] \in {"create", "judging", "finalize", "start"}
  BY <1>3, TypeSays DEF FirstUnit, AgentJobs
<1>5. Fine(w)
  BY <1>4 DEF Fine
<1>6. TodoCareful /\ \A u \in Workers : Tame(u)
  BY <1>2, <1>3, <1>5 DEF TodoCareful, Tame
<1> QED BY <1>2, <1>6, SameStays DEF Orderly

\* handle_terminal_failure.
LEMMA ReportFailureOrderly ==
  ASSUME Steady, NEW w \in Workers, ReportFailure(w)
  PROVE  Orderly
<1>0. RunInv /\ db \in Database /\ pc[w] = "terminal" /\ view[w] # None
  BY DEF ReportFailure, At, Steady, RunInv
<1> DEFINE a == job[w].agent
<1>1. PICK where \in {"idle", "dead"} : Drop(w, where)
  BY DEF ReportFailure
<1>2. PICK v \in Reads(w) :
        \/ db' = db
        \/ /\ v.status \notin Over
           /\ db' = [IF a = None THEN db ELSE AgentUpdates(db, v, a, "FAILED") EXCEPT !.status = "FAILED"]
  BY DEF ReportFailure
<1>3. CASE db' = db
  BY <1>0, <1>1, <1>3, SameStays, DropOrderly
<1>4. CASE /\ v.status \notin Over
           /\ db' = [IF a = None THEN db ELSE AgentUpdates(db, v, a, "FAILED") EXCEPT !.status = "FAILED"]
  <2> DEFINE e == IF a = None THEN db ELSE AgentUpdates(db, v, a, "FAILED")
  <2>1. e \in Database /\ e.gens = db.gens /\ \A b \in Agents : e.agents[b] \in {db.agents[b], "FAILED"}
    <3>1. CASE v.agents[a] = "FAILED" \/ a = None
      BY <1>0, <3>1 DEF AgentUpdates
    <3>2. CASE a # None
      <4>1. job[w] # None
        BY <1>0 DEF RunInv, Loop, LoopInv, LoopOK
      <4>2. a \in Here(db)
        BY <1>0, <3>2, <4>1, HolderFits DEF JobFits
      <4>3. "FAILED" \in AgentStatus \ {"ABSENT"}
        BY DEF AgentStatus
      <4>4. /\ AgentUpdates(db, v, a, "FAILED") \in Database /\ AgentUpdates(db, v, a, "FAILED").gens = db.gens
            /\ \A b \in Agents : \/ AgentUpdates(db, v, a, "FAILED").agents[b] = db.agents[b]
                                 \/ b = a /\ AgentUpdates(db, v, a, "FAILED").agents[b] = "FAILED"
        <5> HIDE DEF a
        <5> QED BY <1>0, <4>2, <4>3, AgentUpdatesKeep
      <4> QED BY <3>2, <4>4
    <3> QED BY <3>1, <3>2
  <2>2. db' = [e EXCEPT !.status = "FAILED"]
    BY <1>4
  <2> HIDE DEF e
  <2>3. db'.status = "FAILED" /\ db'.gens = db.gens /\ db'.agents = e.agents
    BY <2>1, <2>2 DEF Database
  <2>4. Completers
    BY <2>1, <2>3 DEF Completers
  <2>5. v.status = view[w].status
    BY <1>0, ReadsFit
  <2>6. RunGoes
    BY <1>0, <1>4, <2>3, <2>5 DEF RunGoes, Reports
  <2> QED BY <1>0, <1>1, <2>4, <2>6, DropOrderly
<1> QED BY <1>2, <1>3, <1>4

\* The run is moved on by the worker that was about to.
LEMMA MovesOnOrderly ==
  ASSUME Steady, NEW w \in Workers, NEW e \in Database, NEW status, NEW where \in {"settle", "enqueue"},
         NEW keys, CommitStatus(w, e, status, where, keys),
         \A j \in keys : j.type \notin {"START_JUDGING", "FINALIZE_RUN"} \/ Reliable(j, db),
         \A b \in Agents : e.agents[b] = "COMPLETED" => db.agents[b] = "COMPLETED",
         \/ AboutToStart(w) /\ status = "RESEARCHING" /\ e.gens = 1
         \/ MovesRun(w) /\ pc[w] = "judging" /\ status = "JUDGING" /\ e.gens = db.gens
         \/ MovesRun(w) /\ pc[w] = "finalize" /\ status = "COMPLETED" /\ e.gens = db.gens
         \/ MovesRun(w) /\ pc[w] = "finalize" /\ status = "RESEARCHING" /\ e.gens = db.gens + 1
  PROVE  Orderly
<1>0. RunInv
  BY DEF Steady
<1>1. status \in Allowed[view[w].status] /\ status \in Allowed[db.status]
  <2>1. CASE AboutToStart(w) /\ status = "RESEARCHING"
    <3>1. db.status = "CREATED" /\ view[w].status = "CREATED"
      BY <2>1 DEF AboutToStart, Steady, EndsWell, NobodyOvertaken
    <3> QED BY <2>1, <3>1, AllowedMoves
  <2>2. CASE MovesRun(w)
    <3>1. db.status = view[w].status
      BY <2>2 DEF Steady, EndsWell, NobodyOvertaken, NotOvertaken
    <3>2. /\ pc[w] = "judging" => view[w].status = "RESEARCHING"
          /\ pc[w] = "finalize" => view[w].status = "JUDGING"
      BY <2>2 DEF MovesRun
    <3> QED BY <2>2, <3>1, <3>2, AllowedMoves DEF AboutToStart
  <2> QED BY <2>1, <2>2
<1> DEFINE f == [e EXCEPT !.status = status]
<1>2. Commit(w, f, where, keys)
  BY <1>1, CommitStatusGoes
<1>3. f.status = status /\ f.gens = e.gens /\ f.agents = e.agents
  BY DEF Database
<1>4. Goto(w, where, keys) /\ db' = f
  BY <1>2 DEF Commit
<1> HIDE DEF f
<1>5. view'[w] = None
  BY <1>0, <1>4, GotoView
<1>6. RunGoes
  BY <1>3, <1>4, <1>5 DEF RunGoes, GoesTo
<1> QED BY <1>0, <1>2, <1>3, <1>6, CommitOrderly

LEMMA StartRunOrderly ==
  ASSUME Steady, NEW w \in Workers, StartRun(w)
  PROVE  Orderly
<1>0. /\ pc[w] = "create" /\ view[w] # None /\ Inside(w) /\ db \in Database /\ RunInv /\ Knows
  BY DEF StartRun, At, Inside, Steady, RunInv
<1> DEFINE keys == {ResearchJob(a) : a \in Researchers(0)}
           new == [db EXCEPT !.gens = 1, !.agents = Spawned(@, Researchers(0))]
<1>1. PICK v \in Reads(w) :
        LET first == IF v.gens > 0 THEN db ELSE new
        IN  IF v.status = "FAILED" \/ (v.gens = 0 /\ db.gens > 0) THEN Raise(w)
            ELSE IF v.status = "CREATED" THEN CommitStatus(w, first, "RESEARCHING", "enqueue", keys)
            ELSE IF v.status = "COMPLETED" THEN Commit(w, first, "settle", {})
            ELSE Commit(w, first, "enqueue", keys)
  BY DEF StartRun
<1> HIDE DEF keys, new
<1>2. /\ v \in Database /\ view[w] \in Database /\ Behind(view[w], v) /\ Behind(v, db)
      /\ v.status = view[w].status /\ v.status # "NONE" /\ StatusFits(view[w]) /\ StatusFits(db)
  BY <1>0, ReadsFit DEF RunInv, WorkerFits
<1>3. /\ v.gens \in Nat /\ db.gens \in Nat /\ view[w].gens \in Nat
      /\ v.status \in RunStatus /\ db.status \in RunStatus
      /\ view[w].gens <= v.gens /\ v.gens <= db.gens /\ (view[w].gens = 0 => db.gens = 0)
  BY <1>0, <1>2, GensType DEF Behind, Knows, SeesJudges
<1>4. \A k \in keys : k.type \notin {"START_JUDGING", "FINALIZE_RUN"}
  BY DEF keys, ResearchJob, Job
<1>5. v.status = "FAILED" => IsOver
  BY <1>0, <1>2 DEF Steady, EndsWell, NobodyOvertaken, Over
<1>6. CASE v.gens > 0
  <2>1. view[w].gens > 0 /\ v.status # "CREATED"
    BY <1>2, <1>3, <1>6 DEF StatusFits
  <2>2. (Raise(w) /\ IsOver) \/ Commit(w, db, "settle", {}) \/ Commit(w, db, "enqueue", keys)
    BY <1>1, <1>3, <1>5, <1>6, <2>1
  <2>3. CASE Raise(w) /\ IsOver
    BY <1>0, <2>3, RaiseOrderly
  <2>4. ASSUME NEW where \in {"settle", "enqueue"}, NEW k \in {{}, keys}, Commit(w, db, where, k)
        PROVE  Orderly
    <3>1. RunGoes
      BY <2>4, SameStays DEF Commit
    <3> QED BY <1>0, <1>4, <2>4, <3>1, CommitOrderly
  <2> QED BY <2>2, <2>3, <2>4
<1>7. CASE ~(v.gens > 0)
  <2>1. v.gens = 0 /\ view[w].gens = 0 /\ db.gens = 0 /\ MaxGenerations # 0
    BY <1>3, <1>7, RunCreateAssumption
  <2>2. v.status \in {"CREATED", "FAILED"}
    BY <1>2, <1>3, <2>1 DEF StatusFits, RunStatus
  <2>3. CASE v.status = "FAILED"
    <3>1. Raise(w)
      BY <1>1, <2>3
    <3> QED BY <1>0, <1>5, <2>3, <3>1, RaiseOrderly
  <2>4. CASE v.status = "CREATED"
    <3>1. CommitStatus(w, new, "RESEARCHING", "enqueue", keys)
      BY <1>1, <1>3, <1>7, <2>1, <2>4
    <3>2. AboutToStart(w)
      BY <1>0, <1>2, <2>4 DEF AboutToStart
    <3>3. new \in Database /\ new.gens = 1 /\ new.agents = Spawned(db.agents, Researchers(0))
      <4>1. 1 \in 0..MaxGenerations
        BY RunCreateAssumption
      <4>2. Spawned(db.agents, Researchers(0)) \in [Agents -> AgentStatus]
        BY <1>0 DEF Spawned, Database, AgentStatus
      <4> QED BY <1>0, <4>1, <4>2 DEF Database, new
    <3>4. \A b \in Agents : new.agents[b] = "COMPLETED" => db.agents[b] = "COMPLETED"
      BY <3>3 DEF Spawned
    <3> QED BY <1>4, <3>1, <3>2, <3>3, <3>4, MovesOnOrderly
  <2> QED BY <2>2, <2>3, <2>4
<1> QED BY <1>6, <1>7

LEMMA StartJudgingOrderly ==
  ASSUME Steady, NEW w \in Workers, StartJudging(w)
  PROVE  Orderly
<1>0. /\ pc[w] = "judging" /\ view[w] # None /\ Inside(w) /\ db \in Database
      /\ RunInv /\ Standing /\ Prepared
  BY DEF StartJudging, At, Inside, Steady, Standing, RunInv, EndsWell
<1>01. job[w] = StartJudgingJob(job[w].gen) /\ job[w] # None /\ job[w].gen \in Generations
  BY <1>0, InsideFits
<1> DEFINE g == job[w].gen
<1>1. PICK v \in Reads(w) :
        \/ Return(w, "settle", {})
        \/ /\ v.status \notin {"RESEARCHING", "JUDGING", "COMPLETED"} \/ ~ResearchComplete(v, g)
           /\ Raise(w)
        \/ /\ v.status \in {"RESEARCHING", "JUDGING"} /\ IsLatest(v, g)
           /\ ResearchComplete(v, g) /\ Added(w, v) \subseteq JudgesOf(g)
           /\ IF v.status = "RESEARCHING"
                THEN CommitStatus(w, Judging(w, v), "JUDGING", ThenEnqueue(ToJudge(w, v)), ToJudge(w, v))
                ELSE Commit(w, Judging(w, v), ThenEnqueue(ToJudge(w, v)), ToJudge(w, v))
  <2>1. PICK v \in Reads(w) :
        LET h == job[w].gen
            missing == MissingJudges(v, h)
            added == {Agent(h, "judge", i, Cardinality(JudgeCopies(db, h, i)) + 1) : i \in missing}
            kept == {Agent(h, "judge", i, CHOOSE c \in JudgeCopies(v, h, i) : TRUE) :
                       i \in 1..JudgeCount \ missing}
            new == [db EXCEPT !.agents = Spawned(@, added)]
            keys == {JudgeJob(a) : a \in JudgesToRun(added, kept)}
        IN  IF v.status = "COMPLETED" THEN Return(w, "settle", {})
            ELSE IF v.status \notin {"RESEARCHING", "JUDGING"} THEN Raise(w)
            ELSE IF ~IsLatest(v, h) THEN Return(w, "settle", {})
            ELSE IF ~ResearchComplete(v, h) THEN Raise(w)
            ELSE /\ added \subseteq JudgesOf(h)
                 /\ IF v.status = "RESEARCHING"
                      THEN CommitStatus(w, new, "JUDGING", ThenEnqueue(keys), keys)
                      ELSE Commit(w, new, ThenEnqueue(keys), keys)
    BY DEF StartJudging
  <2>2. Missing(w, v) = MissingJudges(v, job[w].gen)
    BY DEF Missing
  <2> QED BY <2>1, <2>2, Zenon DEF Added, Kept, Judging, ToJudge, JudgesToRun
<1> HIDE DEF g
<1>2. g \in Generations /\ g = job[w].gen
  BY <1>01 DEF g
<1>3. /\ v \in Database /\ view[w] \in Database /\ v.status = view[w].status /\ v.status # "NONE"
      /\ StatusFits(view[w]) /\ JobFits(job[w], view[w]) /\ v.status \in RunStatus
  BY <1>0, ReadsFit, GensType DEF RunInv, WorkerFits
<1>4. job[w] # CreateJob /\ g \in Nat /\ job[w].type = "START_JUDGING"
  BY <1>01, <1>2, GenerationsType DEF CreateJob, StartJudgingJob, Job
<1>5. v.status # "CREATED"
  <2>1. view[w].gens \in Nat /\ g < view[w].gens
    BY <1>2, <1>3, <1>4, GensType DEF JobFits
  <2> QED BY <1>3, <1>4, <2>1 DEF StatusFits
<1>6. v.status \in {"RESEARCHING", "JUDGING", "COMPLETED"} \/ IsOver
  BY <1>0, <1>3, <1>5 DEF Steady, EndsWell, NobodyOvertaken, RunStatus, Over
<1>7. ResearchDone(v, g)
  BY <1>0, <1>2, <1>4, PreparedRelies DEF Reliable
<1>8. ResearchComplete(v, g) \/ IsOver
  <2> SUFFICES ASSUME ~IsOver PROVE ResearchComplete(v, g)
    OBVIOUS
  <2>1. ASSUME NEW a \in Researchers(g) PROVE v.agents[a] = "COMPLETED" /\ a \in v.subs
    <3>1. a \in Agents
      BY <1>2, AgentSets
    <3>2. v.agents[a] # "FAILED"
      BY <1>0, <3>1, FailedSeen DEF IsOver, Over
    <3> QED BY <1>7, <3>2 DEF ResearchDone
  <2> QED BY <2>1 DEF ResearchComplete, AllCompleted, SubsOf
<1>9. CASE Return(w, "settle", {})
  BY <1>0, <1>9, SettlesOrderly
<1>10. CASE Raise(w) /\ IsOver
  BY <1>0, <1>10, RaiseOrderly
<1>11. CASE /\ v.status \in {"RESEARCHING", "JUDGING"} /\ IsLatest(v, g)
            /\ ResearchComplete(v, g) /\ Added(w, v) \subseteq JudgesOf(g)
            /\ IF v.status = "RESEARCHING"
                 THEN CommitStatus(w, Judging(w, v), "JUDGING", ThenEnqueue(ToJudge(w, v)), ToJudge(w, v))
                 ELSE Commit(w, Judging(w, v), ThenEnqueue(ToJudge(w, v)), ToJudge(w, v))
  <2> DEFINE e == Judging(w, v)
             keys == ToJudge(w, v)
             where == ThenEnqueue(keys)
  <2>1. e \in Database /\ e.status = db.status /\ e.cands = db.cands /\ e.verdict = db.verdict /\ e.gens = db.gens
    BY <1>0, <1>2, <1>11, SpawnsTheJudges DEF SpawnsJudges
  <2>2. \A b \in Agents : e.agents[b] = "COMPLETED" => db.agents[b] = "COMPLETED"
    BY <1>0 DEF Judging, Spawned, Database
  <2>3. \A k \in keys : k.type \notin {"START_JUDGING", "FINALIZE_RUN"}
    BY DEF ToJudge, JudgeJob, Job
  <2>4. where \in {"settle", "enqueue"}
    BY DEF ThenEnqueue
  <2> HIDE DEF e, keys, where
  <2>5. CASE v.status = "JUDGING"
    <3>1. Commit(w, e, where, keys)
      BY <1>11, <2>5 DEF e, keys, where
    <3>2. RunGoes
      BY <2>1, <3>1 DEF Commit, RunGoes, StaysPut
    <3> QED BY <1>0, <2>2, <2>3, <2>4, <3>1, <3>2, CommitOrderly
  <2>6. CASE v.status = "RESEARCHING"
    <3>1. CommitStatus(w, e, "JUDGING", where, keys)
      BY <1>11, <2>6 DEF e, keys, where
    <3>2. view[w].gens = job[w].gen + 1
      BY <1>0, <1>2, <1>4, <1>11, ReadLatest
    <3>3. MovesRun(w)
      BY <1>0, <1>3, <2>6, <3>2 DEF MovesRun
    <3> QED BY <1>0, <2>1, <2>2, <2>3, <2>4, <3>1, <3>3, MovesOnOrderly
  <2> QED BY <1>11, <2>5, <2>6
<1> QED BY <1>1, <1>6, <1>8, <1>9, <1>10, <1>11

\* finalize_run finds the run as it has read it, and its judging complete.
LEMMA FinalizesRight ==
  ASSUME Steady, NEW w \in Workers, pc[w] = "finalize", view[w] # None, NEW v \in Reads(w),
         IsLatest(v, job[w].gen), v.status \notin Over
  PROVE  /\ MovesRun(w) /\ v.status = "JUDGING" /\ v.gens = db.gens /\ JudgingComplete(v, job[w].gen)
         /\ \A s \in Researchers(job[w].gen) :
              /\ db.cands[s] # "ABSENT" => v.cands[s] # "ABSENT"
              /\ db.verdict[s] # "NONE" => v.verdict[s] # "NONE"
<1>0. Inside(w) /\ db \in Database /\ RunInv /\ Standing /\ Prepared
  BY DEF Inside, Steady, Standing, RunInv, EndsWell
<1>1. PICK g \in Generations : g = job[w].gen
  BY <1>0, InsideFits
<1>2. job[w] # CreateJob /\ g \in Nat /\ job[w].type = "FINALIZE_RUN" /\ job[w].gen < db.gens
  <2>1. job[w] = FinalizeJob(job[w].gen) /\ job[w].gen < db.gens
    BY <1>0, InsideFits
  <2>2. job[w].type = "FINALIZE_RUN" /\ job[w] # CreateJob
    BY <2>1 DEF CreateJob, FinalizeJob, Job
  <2> QED BY <2>1, <2>2, GenerationsType
<1>3. /\ v \in Database /\ view[w] \in Database /\ v.status = view[w].status /\ v.status # "NONE"
      /\ StatusFits(view[w]) /\ Shape(v) /\ v.status \in RunStatus /\ Behind(v, db)
  BY <1>0, ReadsFit, GensType DEF RunInv, WorkerFits
<1>4. ResultsFit(v) /\ OneOfEach(v)
  BY <1>0, StandingReads
<1>5. JudgesAnswered(v, g) /\ JudgesAnswered(view[w], g)
  BY <1>0, <1>1, <1>2, PreparedRelies DEF Reliable
<1>6. view[w].gens \in Nat /\ v.gens \in Nat /\ db.gens \in Nat /\ v.gens = g + 1 /\ view[w].gens = g + 1
  BY <1>0, <1>1, <1>2, <1>3, GensType, ReadLatest DEF IsLatest, Latest
<1>7. v.status # "RESEARCHING"
  <2>1. NoJudgeYet(view[w]) /\ Latest(view[w]) = g
    BY <1>0, <1>2, <1>6 DEF Standing, Knows, SeesJudges, Latest
  <2>2. PICK c \in Copies : Agent(g, "judge", 1, c) \in Here(view[w])
    BY <1>5 DEF JudgesAnswered, JudgesFollow, JudgeCount
  <2> QED BY <1>3, <2>1, <2>2 DEF NoJudgeYet, Agent
<1>8. v.status # "CREATED"
  BY <1>2, <1>3, <1>6 DEF StatusFits
<1>9. v.status = "JUDGING"
  BY <1>3, <1>7, <1>8 DEF RunStatus, Over
<1>10. MovesRun(w)
  BY <1>1, <1>3, <1>6, <1>9 DEF MovesRun
<1>11. /\ db.gens = g + 1
       /\ \A s \in Researchers(g) : /\ db.cands[s] # "ABSENT" => view[w].cands[s] # "ABSENT"
                                    /\ db.verdict[s] # "NONE" => view[w].verdict[s] # "NONE"
  BY <1>1, <1>6, <1>10 DEF Steady, EndsWell, NobodyOvertaken, NotOvertaken
<1>12. \A s \in Researchers(g) : /\ db.cands[s] # "ABSENT" => v.cands[s] # "ABSENT"
                                 /\ db.verdict[s] # "NONE" => v.verdict[s] # "NONE"
  <2>1. v = view[w] \/ (v.cands = db.cands /\ v.verdict = db.verdict)
    BY <1>0 DEF Reads, Database
  <2> QED BY <1>11, <2>1
<1>13. JudgingComplete(v, g)
  <2>1. JudgesFollow(v, g)
    BY <1>5 DEF JudgesAnswered
  <2>2. ~IsOver
    BY <1>10, MoverFindsAllDone
  <2>3. ASSUME NEW a \in Present(v, JudgesOf(g)) PROVE v.agents[a] = "COMPLETED"
    <3>1. a \in JudgesOf(g) /\ a \in Here(v) /\ a \in Agents
      BY <2>3, AgentSets DEF Present, Here
    <3>2. v.agents[a] # "FAILED"
      BY <1>0, <2>2, <3>1, FailedSeen DEF IsOver, Over
    <3> QED BY <1>5, <3>1, <3>2 DEF JudgesAnswered
  <2> QED BY <1>3, <1>4, <2>1, <2>3, JudgesComplete DEF AllCompleted
<1> QED BY <1>1, <1>6, <1>9, <1>10, <1>11, <1>12, <1>13

LEMMA FinalizeRunOrderly ==
  ASSUME Steady, NEW w \in Workers, FinalizeRun(w)
  PROVE  Orderly
<1>0. /\ pc[w] = "finalize" /\ view[w] # None /\ Inside(w) /\ db \in Database /\ RunInv
  BY DEF FinalizeRun, At, Inside, Steady, RunInv
<1> DEFINE g == job[w].gen
           target(v) == Target(v, g)
           verdicts(v) == IF v.verdict[Target(v, g)] = "NONE" THEN VerdictsOn(v, Target(v, g))
                          ELSE {v.verdict[Target(v, g)]}
<1>1. PICK v \in Reads(w) :
        IF v.status \in Over THEN Return(w, "settle", {})
        ELSE IF ~IsLatest(v, g)
          THEN Return(w, "enqueue", {ResearchJob(a) : a \in Researchers(Latest(v))})
        ELSE IF v.status # "JUDGING" \/ ~JudgingComplete(v, g) THEN Raise(w)
        ELSE IF g + 1 = MaxGenerations THEN CompleteRun(w, v, g)
        ELSE Advance(w, v, g)
  BY DEF FinalizeRun
<1>2. CompleteRun(w, v, g) =>
        \/ v.cands[target(v)] = "ABSENT" /\ db.cands[target(v)] # "ABSENT" /\ Raise(w)
        \/ v.verdict[target(v)] = "NONE" /\ db.verdict[target(v)] # "NONE" /\ Raise(w)
        \/ CommitStatus(w, Staged(v, g), "COMPLETED", "settle", {})
        \/ \E verdict \in verdicts(v), seen \in IF Proposed(v, g) THEN {Staged(v, g)} ELSE {v, db} :
             CommitStatus(w, Judgement(v, g, verdict, seen), "COMPLETED", "settle", {})
  BY Zenon DEF CompleteRun, Target, Proposed, Staged, Judgement
<1>3. Advance(w, v, g) =>
        \/ v.gens < db.gens /\ Raise(w)
        \/ /\ ~(v.gens < db.gens)
           /\ \E selected \in Selections(v, g) :
                CommitStatus(w, Bred(g, selected), "RESEARCHING", "enqueue",
                             {ResearchJob(a) : a \in Researchers(g + 1)})
  BY Zenon DEF Advance, Bred, Parents, Clones
<1>4. g \in Generations /\ g = job[w].gen
  BY <1>0, InsideFits
<1>5. /\ v \in Database /\ v.gens \in Nat /\ db.gens \in Nat /\ g \in Nat
  BY <1>0, <1>4, ReadsFit, GensType, GenerationsType
<1> HIDE DEF g
<1>6. IsLatest(v, g) /\ v.status \notin Over =>
         /\ MovesRun(w) /\ v.status = "JUDGING" /\ v.gens = db.gens /\ JudgingComplete(v, g)
         /\ \A s \in Researchers(g) :
              /\ db.cands[s] # "ABSENT" => v.cands[s] # "ABSENT"
              /\ db.verdict[s] # "NONE" => v.verdict[s] # "NONE"
  BY <1>0, <1>4, FinalizesRight
<1>7. /\ Target(v, g) \in Submissions /\ Target(v, g) \in Researchers(g)
      /\ Staged(v, g) \in Database /\ Keeps(db, Staged(v, g)) /\ Staged(v, g).agents = db.agents
  <2>1. /\ Target(v, g) \in Submissions /\ Target(v, g) \in Researchers(g)
        /\ Staged(v, g) \in Database /\ Keeps(db, Staged(v, g))
    BY <1>0, <1>4, <1>5, JudgementKeeps, Zenon
  <2>2. Staged(v, g).agents = db.agents
    BY <1>0 DEF Staged, Database
  <2> QED BY <2>1, <2>2
<1>8. \A said \in {"PASSED", "FAILED", "INCONCLUSIVE"} : \A other :
        /\ Judgement(v, g, said, other) \in Database /\ Keeps(db, Judgement(v, g, said, other))
        /\ Judgement(v, g, said, other).agents = db.agents
  <2>1. \A said \in {"PASSED", "FAILED", "INCONCLUSIVE"} : \A other :
           LET h == Judgement(v, g, said, other)
           IN  /\ h \in Database /\ Keeps(db, h) /\ h.status = db.status
               /\ h.parent = db.parent /\ h.survivors = db.survivors
               /\ h.verdict = [db.verdict EXCEPT ![Target(v, g)] = said]
               /\ \A t \in Submissions :
                    h.cands[t] = IF t = Target(v, g) /\ other.cands[t] # CandidateAfter[said]
                                 THEN CandidateAfter[said] ELSE Staged(v, g).cands[t]
    <3>1. v \in Database /\ db \in Database /\ g \in Generations
      BY <1>0, <1>4, <1>5
    <3> QED BY <3>1, JudgementKeeps
  <2>2. ASSUME NEW said \in {"PASSED", "FAILED", "INCONCLUSIVE"}, NEW other
        PROVE  Judgement(v, g, said, other).agents = db.agents
    BY <1>7 DEF Judgement, CandidateUpdates, Database
  <2> QED BY <2>1, <2>2
<1>9. CASE v.status \in Over /\ Return(w, "settle", {})
  BY <1>0, <1>9, SettlesOrderly
<1>10. CASE Return(w, "enqueue", {ResearchJob(a) : a \in Researchers(Latest(v))})
  <2>1. \A j \in {ResearchJob(a) : a \in Researchers(Latest(v))} : j.type \notin {"START_JUDGING", "FINALIZE_RUN"}
    BY DEF ResearchJob, Job
  <2> QED BY <1>0, <1>10, <2>1, ReturnOrderly
<1>11. ASSUME NEW e \in Database, Keeps(db, e), e.agents = db.agents, IsLatest(v, g), v.status \notin Over,
              CommitStatus(w, e, "COMPLETED", "settle", {})
       PROVE  Orderly
  <2>1. e.gens = db.gens
    BY <1>11 DEF Keeps
  <2> QED BY <1>0, <1>6, <1>11, <2>1, MovesOnOrderly
<1>12. CASE IsLatest(v, g) /\ v.status \notin Over /\ CompleteRun(w, v, g)
  <2>1. ~(v.cands[target(v)] = "ABSENT" /\ db.cands[target(v)] # "ABSENT" /\ Raise(w))
    BY <1>6, <1>7, <1>12
  <2>2. ~(v.verdict[target(v)] = "NONE" /\ db.verdict[target(v)] # "NONE" /\ Raise(w))
    BY <1>6, <1>7, <1>12
  <2>3. CASE CommitStatus(w, Staged(v, g), "COMPLETED", "settle", {})
    BY <1>7, <1>11, <1>12, <2>3
  <2>4. ASSUME NEW verdict \in verdicts(v), NEW seen,
               CommitStatus(w, Judgement(v, g, verdict, seen), "COMPLETED", "settle", {})
        PROVE  Orderly
    <3>1. verdict \in {"PASSED", "FAILED", "INCONCLUSIVE"}
      BY <1>5, <1>7, <2>4, VerdictsType, Zenon
    <3> HIDE DEF verdicts
    <3> QED BY <1>8, <1>11, <1>12, <2>4, <3>1
  <2> QED BY <1>2, <1>12, <2>1, <2>2, <2>3, <2>4
<1>13. ASSUME NEW selected \in Selections(v, g), IsLatest(v, g), v.status \notin Over, g + 1 # MaxGenerations,
              CommitStatus(w, Bred(g, selected), "RESEARCHING", "enqueue",
                           {ResearchJob(a) : a \in Researchers(g + 1)})
       PROVE  Orderly
  <2> DEFINE e == Bred(g, selected)
             keys == {ResearchJob(a) : a \in Researchers(g + 1)}
  <2>1. selected \in Seq(Submissions) /\ Len(selected) > 0
    BY <1>4, <1>5, <1>13, SelectionType
  <2>2. g + 1 = db.gens
    BY <1>5, <1>6, <1>13 DEF IsLatest, Latest
  <2>3. e \in Database /\ e.gens = db.gens + 1
    BY <1>0, <1>4, <1>13, <2>1, <2>2, BreedsTheNext
  <2>4. \A b \in Agents : e.agents[b] = "COMPLETED" => db.agents[b] = "COMPLETED"
    BY <1>0 DEF Bred, Spawned, Database
  <2>5. \A j \in keys : j.type \notin {"START_JUDGING", "FINALIZE_RUN"}
    BY DEF ResearchJob, Job
  <2>6. CommitStatus(w, e, "RESEARCHING", "enqueue", keys) /\ MovesRun(w)
    BY <1>6, <1>13
  <2> HIDE DEF e, keys
  <2> QED BY <1>0, <2>3, <2>4, <2>5, <2>6, MovesOnOrderly
<1>14. CASE IsLatest(v, g) /\ v.status \notin Over /\ g + 1 # MaxGenerations /\ Advance(w, v, g)
  <2>1. ~(v.gens < db.gens)
    BY <1>5, <1>6, <1>14
  <2> QED BY <1>3, <1>13, <1>14, <2>1
<1> QED BY <1>1, <1>6, <1>9, <1>10, <1>12, <1>14

-----------------------------------------------------------------------------
(* The end of a run without critics is final.                               *)

LEMMA NextOrderly ==
  ASSUME Steady, [Next]_vars
  PROVE  Orderly
<1>1. ASSUME NEW w \in Workers, Proceed(w) PROVE Orderly
  <2>1. CASE StartRun(w) \/ StartJudging(w) \/ FinalizeRun(w)
    BY Zenon, <2>1, StartRunOrderly, StartJudgingOrderly, FinalizeRunOrderly
  <2>2. CASE MaybeScheduleJudging(w) \/ MaybeScheduleFinalize(w) \/ FailRun(w) \/ ReportFailure(w)
    BY Zenon, <2>2, MaybeScheduleJudgingOrderly, MaybeScheduleFinalizeOrderly, FailRunOrderly,
       ReportFailureOrderly
  <2>3. CASE \/ StartResearch(w) \/ StartJudge(w) \/ StartCritic(w)
             \/ StoreSubmission(w) \/ StoreEvaluations(w) \/ StoreFinding(w)
             \/ ProviderAnswers(w) \/ ProviderFails(w)
    BY Zenon, <2>3, StartOrderly, StoreOrderly, ProviderOrderly
  <2>4. CASE Begin(w) \/ EnqueueNext(w) \/ Settle(w) \/ Fail(w)
    BY Zenon, <2>4, OthersOrderly, LoopOrderly
  <2>5. ~AfterOpening(w)
    BY <1>1, AfterOpeningEffect DEF Steady
  <2> QED BY Zenon, <1>1, <2>1, <2>2, <2>3, <2>4, <2>5 DEF Proceed, UnitOfWork
<1>2. ASSUME NEW w \in Workers, CrashWorker(w) \/ Restart(w) PROVE Orderly
  BY Zenon, <1>2, LoopOrderly
<1>3. ASSUME NEW w \in Workers, NEW j \in Jobs, Claim(w, j) PROVE Orderly
  BY Zenon, <1>3, ClaimOrderly
<1>4. CASE CreateRun \/ EnqueueCreateGeneration \/ CrashApi \/ UNCHANGED vars \/ \E j \in Jobs : Lapse(j)
  BY Zenon, <1>4, OthersOrderly
<1> QED BY Zenon, <1>1, <1>2, <1>3, <1>4 DEF Next

LEMMA NextKeepsEnds ==
  ASSUME RunInv, Undisturbed, RecordInv, ResultsInv, EndsInv, [Next]_vars
  PROVE  EndsInv'
<1> SUFFICES ASSUME CriticCount = 0, budget'.lapses = 0 PROVE EndsWell'
  BY DEF EndsInv
<1>1. RunInv' /\ Around
  BY Zenon, NextKeepsRun, NextAround
<1>2. budget.lapses = 0
  BY <1>1 DEF Around
<1>3. Steady
  BY <1>2 DEF Steady, Undisturbed, ResultsInv, EndsInv
<1>4. Changes /\ db' \in Database
  BY Zenon, <1>1, <1>2, <1>3, NextResults DEF ResultsStep, RunInv, Steady
<1>5. Orderly
  BY Zenon, <1>3, NextOrderly
<1> QED BY Zenon, <1>1, <1>3, <1>4, <1>5, EndsOn

LEMMA InitEnds ==
  ASSUME Init PROVE EndsInv
<1>1. /\ db.agents = [a \in Agents |-> "ABSENT"] /\ db.status = "NONE" /\ db.gens = 0
      /\ db.cands = [s \in Submissions |-> "ABSENT"]
      /\ jobs = [j \in Jobs |-> NoJob] /\ pc = [w \in Workers |-> "idle"]
      /\ job = [w \in Workers |-> None] /\ view = [w \in Workers |-> None]
      /\ todo = [w \in Workers |-> {}]
  BY DEF Init, LoopInit
<1>2. /\ \A j \in Jobs : jobs[j].status = "absent"
      /\ \A w \in Workers : job[w] = None /\ view[w] = None /\ todo[w] = {} /\ pc[w] = "idle"
  BY <1>1 DEF NoJob
<1>3. Prepared
  BY <1>1, <1>2 DEF Prepared, Promised, Known
<1>4. FailureShows /\ NobodyOvertaken /\ \A w \in Workers : Unfinished(w)
  BY <1>1, <1>2 DEF FailureShows, NobodyOvertaken, NotOvertaken, MovesRun, AboutToStart, Unfinished
<1>5. StagesDone
  <2>1. Current = -1
    BY <1>1 DEF Current, Latest
  <2>2. \A g \in Generations : ~(g < Current)
    BY <2>1, GenerationsType
  <2> QED BY <1>1, <2>2 DEF StagesDone
<1> QED BY <1>1, <1>3, <1>4, <1>5 DEF EndsInv, EndsWell

LEMMA EndsInvariant == Spec => [](RunInv /\ Undisturbed /\ RecordInv /\ ResultsInv /\ EndsInv)
<1>1. Init => EndsInv
  BY InitEnds
<1>2. RunInv /\ Undisturbed /\ RecordInv /\ ResultsInv /\ EndsInv /\ [Next]_vars => EndsInv'
  BY NextKeepsEnds
<1> QED BY <1>1, <1>2, ResultsInvariant, PTL DEF Spec

\* COMPLETED and FAILED are ends of a run without critics, however many workers
\* there are and whichever are killed: no step takes one, until a live worker has
\* lost its lease.
THEOREM EndsForGood == CriticCount = 0 => (Spec => TerminalIsFinal)
<1>1. CriticCount = 0 /\ RunInv /\ Undisturbed /\ ResultsInv /\ EndsInv /\ [Next]_vars =>
        [(db.status \in Over /\ budget.lapses = 0) => db'.status = db.status]_vars
  <2> SUFFICES ASSUME CriticCount = 0, RunInv, Undisturbed, ResultsInv, EndsInv, [Next]_vars,
                      db.status \in Over, budget.lapses = 0
               PROVE  db'.status = db.status
    OBVIOUS
  <2>1. Steady
    BY DEF Steady, Undisturbed, ResultsInv, EndsInv
  <2>2. Orderly
    BY Zenon, <2>1, NextOrderly
  <2> QED BY <2>1, <2>2, OverStays DEF Orderly, IsOver
<1> SUFFICES ASSUME CriticCount = 0 PROVE Spec => TerminalIsFinal
  OBVIOUS
<1>2. RunInv /\ Undisturbed /\ ResultsInv /\ EndsInv /\ [Next]_vars =>
        [(db.status \in Over /\ budget.lapses = 0) => db'.status = db.status]_vars
  BY <1>1
<1> QED BY <1>2, EndsInvariant, PTL DEF Spec, TerminalIsFinal
=============================================================================
