------------------------ MODULE TournamentRecordProofs ------------------------
(***************************************************************************)
(* More theorems of Tournament, on the invariant RunInv of                 *)
(* TournamentProofs: what the workers know of the judges as long as no     *)
(* live one has lost a lease (Undisturbed), and, whatever happens, what    *)
(* the database records of critics, candidates, verdicts and lineage       *)
(* (RecordInv); that verdicts stand with one worker or without critics     *)
(* (VerdictInv); and, as long as no live worker has lost a lease, that     *)
(* what an agent has done is stored and stays (ResultsInv).                *)
(***************************************************************************)
EXTENDS TournamentProofs

\* Of the run while its generation is researched or judged.
NoJudgeYet(d) == d.status = "RESEARCHING" => \A a \in Here(d) : a.role = "judge" => a.gen # Latest(d)
JudgesStand(d) == d.status = "JUDGING" => JudgesFollow(d, Latest(d))
OneOfEach(d) == \A g \in Generations, i \in 1..JudgeCount : \A c, e \in JudgeCopies(d, g, i) : c = e

\* What a worker has read still says of the judges and the generation it is to
\* create what the database says.
SeesJudges(w) == view[w] # None =>
  /\ NoJudgeYet(view[w])
  /\ (view[w].gens = db.gens /\ db.status = "RESEARCHING") => view[w].status = "RESEARCHING"
  /\ (pc[w] = "create" /\ view[w].gens = 0) => db.gens = 0
  /\ pc[w] = "judging" =>
       \A a \in Here(db) : (a.role = "judge" /\ a.gen = job[w].gen) => a \in Here(view[w])

Knows == NoJudgeYet(db) /\ JudgesStand(db) /\ OneOfEach(db) /\ \A w \in Workers : SeesJudges(w)
Undisturbed == budget.lapses = 0 => Knows

\* One finding per critic, and on the submission under attack.
FindingsFit(d) == \A f \in d.finds :
  /\ f.critic \in CriticsOf(f.critic.gen) /\ f.sub = Elite(f.critic.gen, {})
  /\ \A h \in d.finds : h.critic = f.critic => h = f

\* Every critic of the first opening has answered; and where the run goes on,
\* what they answered is the state of the candidate they attacked.
Heard(d, g) == \A a \in FirstCritics(g) : \E f \in d.finds : f.critic = a
Ruling(d, g) ==
  IF \E f \in d.finds : f.critic \in FirstCritics(g) /\ f.fatal THEN "REFUTED" ELSE "VERIFICATION"
Settled(d, g) == CriticCount > 0 =>
  Heard(d, g) /\ (g + 1 < MaxGenerations => d.cands[Elite(g, {})] = Ruling(d, g))

\* Before the last generation only the candidate under attack can be refuted,
\* and only by its critics.
CandidatesFit(d) == \A s \in Submissions : s.gen + 1 < MaxGenerations =>
  /\ d.cands[s] # "ABSENT" => CriticCount > 0
  /\ s # Elite(s.gen, {}) => d.cands[s] \in {"ABSENT", "PROMISING", "PROPOSED"}
  /\ s = Elite(s.gen, {}) =>
       \/ d.cands[s] \in {"ABSENT", "UNDER_ATTACK"}
       \/ Heard(d, s.gen) /\ d.cands[s] = Ruling(d, s.gen)

LeftBehindFit(d) == \A g \in Generations : g + 1 < d.gens => Settled(d, g)

VerdictsFit(d) == \A s \in Submissions :
  /\ d.verdict[s] = "PASSED" =>
       /\ s = Elite(s.gen, {}) /\ CriticCount > 0
       /\ Heard(d, s.gen) /\ Ruling(d, s.gen) = "VERIFICATION"
  /\ d.cands[s] = "VERIFIED" => d.verdict[s] = "PASSED"

LineageFits(d) ==
  /\ \A g \in Generations : g + 1 >= d.gens => d.survivors[g] = <<>>
  /\ \A a \in Submissions :
       LET p == d.parent[a] IN
       /\ p # None <=> (a.gen \in 1..Latest(d) /\ a.index <= Population - FreshCount)
       /\ p # None =>
            /\ p.gen = a.gen - 1
            /\ \E i \in DOMAIN d.survivors[p.gen] : d.survivors[p.gen][i] = p
            /\ p \in Viable(p.gen, Refuted(d, p.gen))

Record(d) ==
  FindingsFit(d) /\ CandidatesFit(d) /\ LeftBehindFit(d) /\ VerdictsFit(d) /\ LineageFits(d)

\* Critics that answer are there, those that have completed have answered, and
\* no candidate has a state before the first critics of its generation are there.
CriticsFit(d) ==
  /\ \A f \in d.finds : f.critic \in Here(d)
  /\ \A a \in Agents : (a.role = "critic" /\ d.agents[a] = "COMPLETED") => Findings(d, a) # {}
  /\ CriticCount # 0 =>
       \A s \in Submissions : d.cands[s] # "ABSENT" => FirstCritics(s.gen) \subseteq Here(d)

\* What was once decided stays so: a verdict, and the answer of the critics
\* where the run goes on.
Decided(s, status) ==
  s.gen + 1 < MaxGenerations /\ s = Elite(s.gen, {}) /\ status \notin {"ABSENT", "UNDER_ATTACK"}
Stands(d, e) ==
  /\ d.finds \subseteq e.finds
  /\ \A s \in Submissions :
       /\ d.verdict[s] # "NONE" => e.verdict[s] = d.verdict[s]
       /\ Decided(s, d.cands[s]) => e.cands[s] = d.cands[s]

\* A generation is finalized only after its critics.
CriticsFirst(j, d) == j.type = "FINALIZE_RUN" => Settled(d, j.gen)

RecordInv ==
  /\ Record(db) /\ CriticsFit(db)
  /\ \A j \in Jobs : jobs[j].status # "absent" => CriticsFirst(j, db)
  /\ \A w \in Workers :
       /\ view[w] # None =>
            /\ Record(view[w]) /\ CriticsFit(view[w]) /\ Stands(view[w], db)
            /\ CriticsFirst(job[w], view[w])
       /\ \A j \in todo[w] : CriticsFirst(j, db)

-----------------------------------------------------------------------------
(* What a step may do to the database, and to what will be enqueued.        *)

\* All but the statuses of the run and of agents, and the results of agents
\* other than critics.
Alike(d, e) ==
  /\ e.gens = d.gens /\ Here(e) = Here(d) /\ e.finds = d.finds /\ e.cands = d.cands
  /\ e.verdict = d.verdict /\ e.survivors = d.survivors /\ e.parent = d.parent

\* Some unit of work has found the run not over.
Undecided == \E u \in Workers : view[u] # None /\ view[u].status \notin Over

Plain ==
  /\ Alike(db, db')
  /\ \/ db'.status = db.status
     \/ db.status = "NONE" /\ db'.status = "CREATED"
     \/ db'.status = "FAILED" /\ Undecided

\* start_run: it creates the first generation, or finds that there is one.
Starts(w) ==
  /\ pc[w] = "create" /\ job[w] = CreateJob /\ view'[w] = None
  /\ view[w] # None /\ view[w].status = "CREATED"
  /\ db.gens = 0 /\ db'.gens = 1 /\ db'.status = "RESEARCHING"
  /\ Here(db') = Here(db) \union Researchers(0)
  /\ db'.finds = db.finds /\ db'.cands = db.cands
  /\ db'.verdict = db.verdict /\ db'.survivors = db.survivors /\ db'.parent = db.parent
Reopens(w) ==
  /\ pc[w] = "create" /\ view[w] # None /\ view[w].gens = 0 /\ db.gens > 0
  /\ Alike(db, db')

Spawns(w) == \E v \in Reads(w) :
  /\ pc[w] = "judging" /\ view[w] # None /\ view'[w] = None /\ IsLatest(v, job[w].gen)
  /\ Added(w, v) \subseteq JudgesOf(job[w].gen)
  /\ db'.gens = db.gens /\ Here(db') = Here(db) \union Added(w, v)
  /\ JudgesFollow(db', job[w].gen)
  /\ db'.finds = db.finds /\ db'.cands = db.cands
  /\ db'.verdict = db.verdict /\ db'.survivors = db.survivors /\ db'.parent = db.parent
  /\ \/ v.status = "RESEARCHING" /\ db'.status = "JUDGING"
     \/ v.status = "JUDGING" /\ db'.status = db.status

Hears(w) ==
  LET a == job[w].agent IN
  /\ a \in CriticsOf(a.gen) /\ a.gen \in Generations /\ Findings(db, a) = {}
  /\ \E f : f.critic = a /\ f.sub = Elite(a.gen, {}) /\ db'.finds = db.finds \union {f}
  /\ a \in Here(db) /\ db'.gens = db.gens /\ Here(db') = Here(db) /\ db'.cands = db.cands /\ db'.status = db.status
  /\ db'.verdict = db.verdict /\ db'.survivors = db.survivors /\ db'.parent = db.parent

Opens(w) ==
  LET g == job[w].gen IN
  /\ view[w] # None /\ view[w].status = "JUDGING" /\ pc[w] = "schedule"
  /\ CriticCount # 0 /\ g \in Generations
  /\ \E new \in SUBSET CriticsOf(g) : Here(db') = Here(db) \union new
  /\ FirstCritics(g) \subseteq Here(db')
  /\ \/ Unattacked(db, g) /\ db'.cands = Opening(g)
     \/ db'.cands = db.cands
  /\ db'.gens = db.gens /\ db'.finds = db.finds /\ db'.status = db.status
  /\ db'.verdict = db.verdict /\ db'.survivors = db.survivors /\ db'.parent = db.parent

Closes(w) ==
  LET g == job[w].gen IN
  /\ view[w] # None /\ pc[w] \in {"schedule", "opened"} /\ CriticCount # 0 /\ g \in Generations
  /\ pc[w] = "schedule" => view[w].status = "JUDGING"
  /\ \E r \in Reads(w) : \E f \in {r, Now(w)} :
       /\ FirstCritics(g) \subseteq Here(r) /\ Pending(r, g) = {}
       /\ Cardinality(Answers(f, g)) = CriticCount
       /\ \E seen \in {f, db} : db' = CandidateUpdates(db, seen, Elite(g, {}), Outcome(f, g))

Completes(w) ==
  LET g == job[w].gen IN
  /\ view[w] # None /\ view[w].status = "JUDGING"
  /\ job[w] = FinalizeJob(g) /\ g \in Generations /\ g + 1 = MaxGenerations
  /\ db'.gens = db.gens /\ Here(db') = Here(db) /\ db'.finds = db.finds
  /\ db'.status = "COMPLETED" /\ db'.survivors = db.survivors /\ db'.parent = db.parent
  /\ \E v \in Reads(w) :
       /\ v.cands[Target(v, g)] = "ABSENT" => db.cands[Target(v, g)] = "ABSENT"
       /\ \/ db'.cands = Staged(v, g).cands /\ db'.verdict = db.verdict
          \/ /\ v.verdict[Target(v, g)] = "NONE" => db.verdict[Target(v, g)] = "NONE"
             /\ \E verdict \in IF v.verdict[Target(v, g)] = "NONE" THEN VerdictsOn(v, Target(v, g))
                               ELSE {v.verdict[Target(v, g)]} :
                  /\ db'.verdict = [db.verdict EXCEPT ![Target(v, g)] = verdict]
                  /\ \E seen \in IF Proposed(v, g) THEN {Staged(v, g)} ELSE {v, db} :
                       \A t \in Submissions :
                         db'.cands[t] =
                           IF t = Target(v, g) /\ seen.cands[t] # CandidateAfter[verdict]
                           THEN CandidateAfter[verdict] ELSE Staged(v, g).cands[t]

Advances(w) ==
  LET g == job[w].gen IN
  /\ view[w] # None /\ view[w].status = "JUDGING" /\ job[w] = FinalizeJob(g) /\ g \in Generations
  /\ g + 1 = db.gens /\ g + 1 < MaxGenerations /\ db'.status = "RESEARCHING"
  /\ \E v \in Reads(w) : IsLatest(v, g) /\ \E selected \in Selections(v, g) :
       /\ db'.gens = db.gens + 1 /\ Here(db') = Here(db) \union Researchers(g + 1)
       /\ db'.finds = db.finds /\ db'.cands = db.cands /\ db'.verdict = db.verdict
       /\ db'.survivors = [db.survivors EXCEPT ![g] = selected]
       /\ db'.parent = Parents(g, selected)
       /\ selected \in Seq(Submissions) /\ Len(selected) > 0

\* A new FINALIZE_RUN is announced by who hears the last critic.
NothingFinal == \A u \in Workers : \A j \in todo'[u] :
  j.type = "FINALIZE_RUN" => j \in todo[u] \/ CriticCount = 0
FinalOf(w) == \A u \in Workers : \A j \in todo'[u] :
  j.type = "FINALIZE_RUN" => j \in todo[u] \/ j.gen = job[w].gen

Effect(w) ==
  \/ /\ \/ Plain \/ Starts(w) \/ Reopens(w) \/ Spawns(w) \/ Hears(w) \/ Opens(w)
        \/ Completes(w) \/ Advances(w)
     /\ NothingFinal
  \/ Closes(w) /\ FinalOf(w)

LEMMA GotoTodo ==
  ASSUME RunInv, NEW w \in Workers, NEW where, NEW keys, Goto(w, where, keys),
         \A j \in keys : j.type # "FINALIZE_RUN" \/ CriticCount = 0
  PROVE  NothingFinal
BY DEF Goto, NothingFinal, RunInv, Loop, LoopInv, LoopTyped

LEMMA GotoView ==
  ASSUME RunInv, NEW w \in Workers, NEW where, NEW keys, Goto(w, where, keys)
  PROVE  view'[w] = None
BY DEF Goto, RunInv, Loop, LoopInv, LoopTyped

LEMMA ReturnEffect ==
  ASSUME RunInv, NEW w \in Workers, NEW where, NEW keys, Return(w, where, keys),
         \A j \in keys : j.type # "FINALIZE_RUN" \/ CriticCount = 0
  PROVE  Effect(w)
<1>1. Goto(w, where, keys) /\ db' = db BY DEF Return
<1>2. NothingFinal BY <1>1, GotoTodo
<1>3. Plain BY <1>1 DEF Plain, Alike
<1> QED BY <1>2, <1>3 DEF Effect

LEMMA RaiseEffect ==
  ASSUME RunInv, NEW w \in Workers, Raise(w)
  PROVE  Effect(w)
BY ReturnEffect DEF Raise

LEMMA ResearchJobsAreNotFinal ==
  \A g : \A j \in {ResearchJob(a) : a \in Researchers(g)} : j.type # "FINALIZE_RUN"
BY DEF ResearchJob, Job

LEMMA ReadsStatus ==
  ASSUME RunInv, NEW w \in Workers, NEW v \in Reads(w)
  PROVE  v.status = view[w].status
BY DEF Reads, RunInv, Database

LEMMA StartRunDoes ==
  ASSUME RunInv, NEW w \in Workers, StartRun(w)
  PROVE  Effect(w)
<1>1. Inside(w) /\ view[w] # None /\ pc[w] = "create" BY DEF StartRun, At, Inside
<1> DEFINE New(v) == IF v.gens > 0 THEN db
                     ELSE [db EXCEPT !.gens = 1, !.agents = Spawned(db.agents, Researchers(0))]
           keys == {ResearchJob(a) : a \in Researchers(0)}
<1>2. PICK v \in Reads(w) :
        IF v.status = "FAILED" \/ (v.gens = 0 /\ db.gens > 0) THEN Raise(w)
        ELSE IF v.status = "CREATED" THEN CommitStatus(w, New(v), "RESEARCHING", "enqueue", keys)
        ELSE IF v.status = "COMPLETED" THEN Commit(w, New(v), "settle", {})
        ELSE Commit(w, New(v), "enqueue", keys)
    BY DEF StartRun
<1> DEFINE new == New(v)
<1>3. /\ v \in Database /\ Behind(view[w], v) /\ Behind(v, db) /\ view[w] \in Database
      /\ v.status = view[w].status /\ v.status # "NONE" /\ db \in Database
    BY <1>1, ReadsFit DEF RunInv
<1>4. StatusFits(view[w]) /\ v.gens \in Nat /\ db.gens \in Nat /\ view[w].gens \in Nat
    BY <1>1, <1>3, GensType DEF RunInv, WorkerFits
<1>5. v.gens = 0 => v.status \in {"CREATED", "FAILED"}
    BY <1>3, <1>4, GensType, RunCreateAssumption DEF StatusFits, Behind, RunStatus
<1>6. \A j \in keys : j.type # "FINALIZE_RUN" BY ResearchJobsAreNotFinal
<1>7. job[w] = CreateJob BY <1>1, InsideFits
<1>8. CASE Raise(w) BY <1>8, RaiseEffect
<1>9. ASSUME ~(v.gens = 0 /\ db.gens > 0)
      PROVE  /\ v.gens > 0 => new = db /\ db.gens > 0
             /\ v.gens = 0 =>
                  /\ db.gens = 0 /\ new \in Database /\ new.gens = 1
                  /\ Here(new) = Here(db) \union Researchers(0)
                  /\ new.finds = db.finds /\ new.cands = db.cands
                  /\ new.verdict = db.verdict /\ new.survivors = db.survivors /\ new.parent = db.parent
  <2>1. ASSUME v.gens > 0 PROVE new = db /\ db.gens > 0 BY <1>3, <1>4, <2>1 DEF Behind
  <2>2. CASE v.gens = 0
    <3>1. db.gens = 0 BY <1>4, <1>9, <2>2
    <3>2. new = [db EXCEPT !.gens = 1, !.agents = Spawned(db.agents, Researchers(0))] BY <2>2
    <3>3. Spawned(db.agents, Researchers(0)) \in [Agents -> AgentStatus]
        BY <1>3 DEF Spawned, Database, AgentStatus
    <3>4. 1 \in 0..MaxGenerations BY RunCreateAssumption
    <3> HIDE DEF New
    <3>5. /\ new \in Database /\ new.gens = 1 /\ new.agents = Spawned(db.agents, Researchers(0))
          /\ new.finds = db.finds /\ new.cands = db.cands
          /\ new.verdict = db.verdict /\ new.survivors = db.survivors /\ new.parent = db.parent
        BY <1>3, <3>2, <3>3, <3>4 DEF Database
    <3>6. Here(new) = Here(db) \union Researchers(0)
        BY <1>3, <3>5, SpawnedHere, AgentSets, GenerationsType
    <3> QED BY <2>2, <3>1, <3>5, <3>6
  <2> QED BY <1>4, <2>1, <2>2
<1> HIDE DEF New, keys
<1>10. CASE ~(v.gens = 0 /\ db.gens > 0) /\ v.status = "CREATED"
              /\ CommitStatus(w, new, "RESEARCHING", "enqueue", keys)
  <2>1. Raise(w) \/ Commit(w, [new EXCEPT !.status = "RESEARCHING"], "enqueue", keys)
      BY <1>10 DEF CommitStatus
  <2>2. CASE Commit(w, [new EXCEPT !.status = "RESEARCHING"], "enqueue", keys)
    <3>1. NothingFinal /\ view'[w] = None BY <1>6, <2>2, GotoTodo, GotoView DEF Commit
    <3>2. new \in Database BY <1>3, <1>4, <1>9, <1>10
    <3>3. db' = [new EXCEPT !.status = "RESEARCHING"] BY <2>2 DEF Commit
    <3>4. /\ Keeps(new, db') /\ Here(db') = Here(new) /\ db'.cands = new.cands
          /\ db'.verdict = new.verdict /\ db'.survivors = new.survivors /\ db'.parent = new.parent
          /\ db'.status = "RESEARCHING"
        BY <3>2, <3>3, StatusApart DEF RunStatus
    <3>5. CASE v.gens = 0
      <4>1. Starts(w) BY <1>1, <1>3, <1>7, <1>9, <1>10, <3>1, <3>4, <3>5 DEF Starts, Keeps
      <4> QED BY <3>1, <4>1 DEF Effect
    <3>6. CASE v.gens > 0
      <4>1. view[w].gens = 0 BY <1>3, <1>4, <1>10 DEF StatusFits
      <4>2. Reopens(w) BY <1>1, <1>9, <1>10, <3>4, <3>6, <4>1 DEF Reopens, Alike, Keeps
      <4> QED BY <3>1, <4>2 DEF Effect
    <3> QED BY <1>4, <3>5, <3>6
  <2> QED BY <2>1, <2>2, RaiseEffect
<1>11. CASE ~(v.gens = 0 /\ db.gens > 0) /\ v.status \notin {"CREATED", "FAILED"}
              /\ (Commit(w, new, "settle", {}) \/ Commit(w, new, "enqueue", keys))
  <2>1. v.gens > 0 BY <1>4, <1>5, <1>11
  <2>2. Plain BY <1>9, <1>11, <2>1 DEF Commit, Plain, Alike
  <2>3. NothingFinal BY <1>6, <1>11, GotoTodo DEF Commit
  <2> QED BY <2>2, <2>3 DEF Effect
<1> QED BY <1>2, <1>8, <1>10, <1>11

LEMMA MaybeScheduleJudgingDoes ==
  ASSUME RunInv, NEW w \in Workers, MaybeScheduleJudging(w)
  PROVE  Effect(w)
<1>1. \/ Return(w, "settle", {}) \/ Return(w, "failrun", {})
      \/ Return(w, "enqueue", {StartJudgingJob(job[w].gen)})
    BY DEF MaybeScheduleJudging
<1>2. StartJudgingJob(job[w].gen).type # "FINALIZE_RUN" BY DEF StartJudgingJob, Job
<1> QED BY <1>1, <1>2, ReturnEffect

LEMMA StartJudgingDoes ==
  ASSUME RunInv, NEW w \in Workers, StartJudging(w)
  PROVE  Effect(w)
<1>1. pc[w] = "judging" /\ view[w] # None BY DEF StartJudging, At
<1>2. ASSUME NEW v \in Reads(w), ResearchComplete(v, job[w].gen), IsLatest(v, job[w].gen),
             Added(w, v) \subseteq JudgesOf(job[w].gen), v.status \in {"RESEARCHING", "JUDGING"},
             IF v.status = "RESEARCHING"
               THEN CommitStatus(w, Judging(w, v), "JUDGING", ThenEnqueue(ToJudge(w, v)), ToJudge(w, v))
               ELSE Commit(w, Judging(w, v), ThenEnqueue(ToJudge(w, v)), ToJudge(w, v))
      PROVE  Effect(w)
  <2> DEFINE new == Judging(w, v)
             keys == ToJudge(w, v)
  <2>1. /\ new \in Database /\ Here(new) = Here(db) \union Added(w, v) /\ SpawnsJudges(db, new)
        /\ new.status = db.status /\ JudgesFollow(new, job[w].gen)
        /\ new.cands = db.cands /\ new.verdict = db.verdict
        /\ new.survivors = db.survivors /\ new.parent = db.parent
      BY <1>1, <1>2, SpawnsTheJudges
  <2>2. \A j \in keys : j.type # "FINALIZE_RUN" BY DEF ToJudge, JudgeJob, Job
  <2> HIDE DEF new, keys
  <2>3. ASSUME NEW e, NEW where, Commit(w, e, where, keys), Here(e) = Here(new),
               e.gens = new.gens, e.finds = new.finds, e.cands = new.cands, e.verdict = new.verdict,
               e.survivors = new.survivors, e.parent = new.parent,
               JudgesFollow(e, job[w].gen),
               \/ v.status = "RESEARCHING" /\ e.status = "JUDGING"
               \/ v.status = "JUDGING" /\ e.status = db.status
        PROVE  Effect(w)
    <3>1. NothingFinal /\ view'[w] = None BY <2>2, <2>3, GotoTodo, GotoView DEF Commit
    <3>2. db' = e BY <2>3 DEF Commit
    <3>3. new.gens = db.gens /\ new.finds = db.finds BY <2>1 DEF SpawnsJudges
    <3>4. Spawns(w) BY <1>1, <1>2, <2>1, <2>3, <3>1, <3>2, <3>3 DEF Spawns
    <3> QED BY <3>1, <3>4 DEF Effect
  <2>4. CASE v.status = "RESEARCHING"
    <3> DEFINE e == [new EXCEPT !.status = "JUDGING"]
    <3>1. /\ e.status = "JUDGING" /\ Keeps(new, e) /\ Here(e) = Here(new)
          /\ e.cands = new.cands /\ e.verdict = new.verdict
          /\ e.survivors = new.survivors /\ e.parent = new.parent
        BY <2>1, StatusApart DEF RunStatus
    <3>2. CommitStatus(w, new, "JUDGING", ThenEnqueue(keys), keys) BY <1>2, <2>4 DEF new, keys
    <3>3. Raise(w) \/ Commit(w, e, ThenEnqueue(keys), keys) BY <3>2 DEF CommitStatus
    <3> HIDE DEF e
    <3>4. JudgesFollow(e, job[w].gen) BY <2>1, <3>1 DEF JudgesFollow
    <3> QED BY <2>1, <2>3, <2>4, <3>1, <3>3, <3>4, RaiseEffect DEF Keeps
  <2>5. CASE v.status = "JUDGING"
    <3>1. Commit(w, new, ThenEnqueue(keys), keys) BY <1>2, <2>5 DEF new, keys
    <3> QED BY <2>1, <2>3, <2>5, <3>1
  <2> QED BY <1>2, <2>4, <2>5
<1> QED BY <1>2, StartJudgingEffect, ReturnEffect, RaiseEffect

LEMMA ListensDoes ==
  ASSUME RunInv, NEW w \in Workers, pc[w] \in {"schedule", "opened"}, view[w] # None,
         pc[w] = "schedule" => view[w].status = "JUDGING", CriticCount # 0,
         NEW r \in Reads(w), NEW f \in {r, Now(w)}, FirstCritics(job[w].gen) \subseteq Here(r),
         Listens(w, r, f, job[w].gen)
  PROVE  Effect(w)
<1> DEFINE g == job[w].gen
<1>1. Inside(w) BY DEF Inside
<1>2. g \in Generations BY <1>1, InsideFits
<1>3. \A a : CriticJob(a).type # "FINALIZE_RUN" BY DEF CriticJob, Job
<1>4. CASE Return(w, "settle", {}) \/ Return(w, "failrun", {}) BY <1>4, ReturnEffect
<1>5. CASE Return(w, "enqueue", {CriticJob(a) : a \in Pending(r, g)}) BY <1>3, <1>5, ReturnEffect
<1>6. CASE /\ Pending(r, g) = {} /\ Cardinality(Answers(f, g)) = CriticCount
           /\ \E seen \in {f, db} :
                Commit(w, CandidateUpdates(db, seen, Elite(g, {}), Outcome(f, g)),
                       "enqueue", {FinalizeJob(g)})
  <2>1. Closes(w) BY <1>2, <1>6 DEF Closes, Commit
  <2>2. Goto(w, "enqueue", {FinalizeJob(g)}) BY <1>6 DEF Commit
  <2>3. FinalizeJob(g).gen = g BY DEF FinalizeJob, Job
  <2>4. FinalOf(w) BY <2>2, <2>3 DEF Goto, FinalOf, RunInv, Loop, LoopInv, LoopTyped
  <2> QED BY <2>1, <2>4 DEF Effect
<1>7. Listens(w, r, f, g) OBVIOUS
<1> HIDE DEF g
<1> QED BY <1>4, <1>5, <1>6, <1>7, Zenon DEF Listens

LEMMA AfterOpeningDoes ==
  ASSUME RunInv, NEW w \in Workers, AfterOpening(w)
  PROVE  Effect(w)
<1>1. PICK f \in {view[w], Now(w)} :
        /\ Listens(w, view[w], f, job[w].gen)
        /\ CriticCount # 0 /\ FirstCritics(job[w].gen) \subseteq Here(view[w])
    BY AfterOpeningEffect
<1>2. pc[w] = "opened" /\ view[w] # None BY DEF AfterOpening, At
<1>3. view[w] \in Reads(w) BY DEF Reads
<1> QED BY <1>1, <1>2, <1>3, ListensDoes

\* Who finds the stage open finds its first critics.
LEMMA FindsTheCritics ==
  ASSUME RunInv, NEW w \in Workers, view[w] # None, NEW g \in Generations,
         NEW c \in Reads(w), Present(c, CriticsOf(g)) # {}, NEW r \in {c, Now(w)}
  PROVE  CriticCount # 0 /\ FirstCritics(g) \subseteq Here(r)
<1>1. c \in Database /\ Shape(c) /\ Behind(c, db) BY ReadsFit
<1>2. CriticCount # 0 /\ FirstCritics(g) \subseteq Here(c) BY <1>1, FirstAreHere
<1>3. Here(Now(w)) = Here(db) BY NowIsNow DEF Here, RunInv
<1> QED BY <1>1, <1>2, <1>3 DEF Behind

LEMMA MaybeScheduleFinalizeDoes ==
  ASSUME RunInv, NEW w \in Workers, MaybeScheduleFinalize(w)
  PROVE  Effect(w)
<1> DEFINE g == job[w].gen
<1>1. Inside(w) /\ pc[w] = "schedule" /\ view[w] # None BY DEF MaybeScheduleFinalize, At, Inside
<1>2. g \in Generations /\ db \in Database /\ Shape(db) BY <1>1, InsideFits DEF RunInv
<1>3. PICK v \in Reads(w) : Schedules(w, v, g) BY <1>2, MaybeScheduleFinalizeEffect
<1>4. v.status = view[w].status BY ReadsStatus
<1>5. CASE Return(w, "settle", {}) \/ Return(w, "failrun", {}) BY <1>5, ReturnEffect
<1>6. CASE CriticCount = 0 /\ Return(w, "enqueue", {FinalizeJob(g)}) BY <1>6, ReturnEffect
<1>7. ASSUME v.status = "JUDGING", CriticCount # 0, OpensIt(w, v, g) PROVE Effect(w)
  <2>1. PICK s :
          \/ Raise(w)
          \/ /\ Unattacked(s, g) => Unattacked(db, g)
             /\ NewCritics(g) \subseteq CriticsOf(g) /\ Commit(w, Opened(s, g), "opened", {})
      BY <1>7 DEF OpensIt
  <2>2. CASE Raise(w) BY <2>2, RaiseEffect
  <2>3. CASE /\ Unattacked(s, g) => Unattacked(db, g)
             /\ NewCritics(g) \subseteq CriticsOf(g) /\ Commit(w, Opened(s, g), "opened", {})
    <3>1. NothingFinal BY <2>3, GotoTodo DEF Commit
    <3>2. db' = Opened(s, g) BY <2>3 DEF Commit
    <3> HIDE DEF g
    <3>3. /\ db'.status = db.status /\ db'.gens = db.gens /\ db'.finds = db.finds
          /\ db'.verdict = db.verdict /\ db'.survivors = db.survivors /\ db'.parent = db.parent
          /\ Here(db') = Here(db) \union NewCritics(g) /\ FirstCritics(g) \subseteq Here(db')
          /\ db'.cands = IF Unattacked(s, g) THEN Opening(g) ELSE db.cands
        BY <1>2, <1>7, <2>3, <3>2, OpensTheStage
    <3>4. Opens(w) BY <1>1, <1>2, <1>4, <1>7, <2>3, <3>3 DEF Opens, g
    <3> QED BY <3>1, <3>4 DEF Effect
  <2> QED BY <2>1, <2>2, <2>3
<1>8. ASSUME v.status = "JUDGING", FindsItOpen(w, v, g) PROVE Effect(w)
  <2>1. PICK c \in {v, Now(w)} :
          /\ Present(c, CriticsOf(g)) # {}
          /\ \E s \in {c, Now(w)} : \E f \in {s, Now(w)} :
               \/ Return(w, "settle", {})
               \/ \E r \in {f, Now(w)} : \E h \in {r, Now(w)} : Listens(w, r, h, g)
      BY <1>8 DEF FindsItOpen
  <2>2. \/ Return(w, "settle", {})
        \/ \E r \in {c, Now(w)} : \E h \in {r, Now(w)} : Listens(w, r, h, g)
      BY <2>1
  <2>3. Now(w) \in Reads(w) /\ c \in Reads(w) BY <2>1 DEF Reads, Now
  <2>4. ASSUME NEW r \in {c, Now(w)}, NEW h \in {r, Now(w)}, Listens(w, r, h, g)
        PROVE  Effect(w)
    <3>1. CriticCount # 0 /\ FirstCritics(g) \subseteq Here(r) BY <1>1, <1>2, <2>1, <2>3, FindsTheCritics
    <3> QED BY <1>1, <1>4, <1>8, <2>3, <2>4, <3>1, ListensDoes
  <2> QED BY <1>5, <2>2, <2>4
<1> HIDE DEF g
<1> QED BY <1>3, <1>5, <1>6, <1>7, <1>8, Zenon DEF Schedules

LEMMA FinalizeRunDoes ==
  ASSUME RunInv, NEW w \in Workers, FinalizeRun(w)
  PROVE  Effect(w)
<1> DEFINE g == job[w].gen
<1>1. Inside(w) /\ pc[w] = "finalize" /\ view[w] # None BY DEF FinalizeRun, At, Inside
<1>2. g \in Generations /\ g < db.gens /\ db \in Database /\ g \in Nat /\ job[w] = FinalizeJob(g)
    BY <1>1, InsideFits, GenerationsType DEF RunInv
<1>3. PICK v \in Reads(w) : Finalizes(w, v, g) BY FinalizeRunEffect
<1>4. /\ v \in Database /\ v.gens \in Nat /\ db.gens \in Nat
      /\ v.gens <= MaxGenerations /\ db.gens <= MaxGenerations /\ v.gens <= db.gens
    BY <1>1, <1>2, ReadsFit, GensType DEF Behind
<1> HIDE DEF g
<1>5. CASE Return(w, "settle", {}) \/ Raise(w) BY <1>5, ReturnEffect, RaiseEffect
<1>6. CASE Return(w, "enqueue", {ResearchJob(a) : a \in Researchers(Latest(v))})
    BY <1>6, ResearchJobsAreNotFinal, ReturnEffect
<1>7. CASE /\ g + 1 = MaxGenerations /\ view[w].status = "JUDGING"
           /\ v.cands[Target(v, g)] = "ABSENT" => db.cands[Target(v, g)] = "ABSENT"
           /\ CommitStatus(w, Staged(v, g), "COMPLETED", "settle", {})
  <2> DEFINE new == Staged(v, g)
  <2>1. /\ new \in Database /\ Keeps(db, new) /\ new.verdict = db.verdict
        /\ new.survivors = db.survivors /\ new.parent = db.parent
      BY <1>2, <1>4, JudgementKeeps
  <2>2. new.cands = Staged(v, g).cands OBVIOUS
  <2>3. Raise(w) \/ Commit(w, [new EXCEPT !.status = "COMPLETED"], "settle", {})
      BY <1>7 DEF CommitStatus
  <2> HIDE DEF new
  <2>4. CASE Commit(w, [new EXCEPT !.status = "COMPLETED"], "settle", {})
    <3>1. db' = [new EXCEPT !.status = "COMPLETED"] /\ NothingFinal BY <2>4, GotoTodo DEF Commit
    <3>2. /\ db'.status = "COMPLETED" /\ db'.gens = db.gens /\ Here(db') = Here(db)
          /\ db'.finds = db.finds /\ db'.cands = new.cands /\ db'.verdict = db.verdict
          /\ db'.survivors = db.survivors /\ db'.parent = db.parent
        BY <2>1, <3>1, StatusApart DEF Keeps, RunStatus
    <3>3. Completes(w) BY <1>1, <1>2, <1>3, <1>7, <2>2, <3>2 DEF Completes, g
    <3> QED BY <3>1, <3>3 DEF Effect
  <2> QED BY <2>3, <2>4, RaiseEffect
<1>8. ASSUME g + 1 = MaxGenerations, view[w].status = "JUDGING",
             v.cands[Target(v, g)] = "ABSENT" => db.cands[Target(v, g)] = "ABSENT",
             v.verdict[Target(v, g)] = "NONE" => db.verdict[Target(v, g)] = "NONE",
             NEW verdict \in IF v.verdict[Target(v, g)] = "NONE" THEN VerdictsOn(v, Target(v, g))
                             ELSE {v.verdict[Target(v, g)]},
             NEW seen \in IF Proposed(v, g) THEN {Staged(v, g)} ELSE {v, db},
             CommitStatus(w, Judgement(v, g, verdict, seen), "COMPLETED", "settle", {})
      PROVE  Effect(w)
  <2>1. Target(v, g) \in Submissions BY <1>2, <1>4, JudgementKeeps
  <2>2. verdict \in {"PASSED", "FAILED", "INCONCLUSIVE"} BY <1>4, <1>8, <2>1, VerdictsType, Zenon
  <2> DEFINE new == Judgement(v, g, verdict, seen)
  <2>3. /\ new \in Database /\ Keeps(db, new)
        /\ new.survivors = db.survivors /\ new.parent = db.parent
        /\ new.verdict = [db.verdict EXCEPT ![Target(v, g)] = verdict]
        /\ \A t \in Submissions :
             new.cands[t] = IF t = Target(v, g) /\ seen.cands[t] # CandidateAfter[verdict]
                            THEN CandidateAfter[verdict] ELSE Staged(v, g).cands[t]
    <3>1. \A said \in {"PASSED", "FAILED", "INCONCLUSIVE"} : \A other :
             LET e == Judgement(v, g, said, other)
             IN  /\ e \in Database /\ Keeps(db, e) /\ e.status = db.status
                 /\ e.parent = db.parent /\ e.survivors = db.survivors
                 /\ e.verdict = [db.verdict EXCEPT ![Target(v, g)] = said]
                 /\ \A t \in Submissions :
                      e.cands[t] = IF t = Target(v, g) /\ other.cands[t] # CandidateAfter[said]
                                   THEN CandidateAfter[said] ELSE Staged(v, g).cands[t]
        BY <1>2, <1>4, JudgementKeeps
    <3>2. /\ new \in Database /\ Keeps(db, new)
          /\ new.survivors = db.survivors /\ new.parent = db.parent
          /\ new.verdict = [db.verdict EXCEPT ![Target(v, g)] = verdict]
        BY <2>2, <3>1
    <3>3. \A t \in Submissions :
             new.cands[t] = IF t = Target(v, g) /\ seen.cands[t] # CandidateAfter[verdict]
                            THEN CandidateAfter[verdict] ELSE Staged(v, g).cands[t]
        BY <2>2, <3>1
    <3> QED BY <3>2, <3>3
  <2>4. Raise(w) \/ Commit(w, [new EXCEPT !.status = "COMPLETED"], "settle", {})
      BY <1>8 DEF CommitStatus
  <2> HIDE DEF new
  <2>5. CASE Commit(w, [new EXCEPT !.status = "COMPLETED"], "settle", {})
    <3>1. db' = [new EXCEPT !.status = "COMPLETED"] /\ NothingFinal BY <2>5, GotoTodo DEF Commit
    <3>2. /\ db'.status = "COMPLETED" /\ db'.gens = db.gens /\ Here(db') = Here(db)
          /\ db'.finds = db.finds /\ db'.cands = new.cands /\ db'.verdict = new.verdict
          /\ db'.survivors = db.survivors /\ db'.parent = db.parent
        BY <2>3, <3>1, StatusApart DEF Keeps, RunStatus
    <3>3. \A t \in Submissions :
             db'.cands[t] = IF t = Target(v, g) /\ seen.cands[t] # CandidateAfter[verdict]
                            THEN CandidateAfter[verdict] ELSE Staged(v, g).cands[t]
        BY <2>3, <3>2
    <3>4. db'.verdict = [db.verdict EXCEPT ![Target(v, g)] = verdict] BY <2>3, <3>2
    <3>5. Completes(w) BY <1>1, <1>2, <1>3, <1>8, <3>2, <3>3, <3>4, Zenon DEF Completes, g
    <3> QED BY <3>1, <3>5 DEF Effect
  <2> QED BY <2>4, <2>5, RaiseEffect
<1>9. ASSUME IsLatest(v, g), g + 1 # MaxGenerations, ~(v.gens < db.gens), view[w].status = "JUDGING",
             NEW selected \in Selections(v, g),
             CommitStatus(w, Bred(g, selected), "RESEARCHING", "enqueue",
                          {ResearchJob(a) : a \in Researchers(g + 1)})
      PROVE  Effect(w)
  <2> DEFINE new == Bred(g, selected)
             keys == {ResearchJob(a) : a \in Researchers(g + 1)}
  <2>1. g + 1 = db.gens /\ g + 1 < MaxGenerations
      BY <1>2, <1>4, <1>9, RunCreateAssumption DEF IsLatest, Latest
  <2>2. selected \in Seq(Submissions) /\ Len(selected) > 0 BY <1>2, <1>4, SelectionType
  <2>3. /\ new \in Database /\ new.gens = db.gens + 1 /\ new.finds = db.finds
        /\ new.cands = db.cands /\ new.verdict = db.verdict
        /\ new.survivors = [db.survivors EXCEPT ![g] = selected] /\ new.parent = Parents(g, selected)
        /\ Here(new) = Here(db) \union Researchers(g + 1)
      BY <1>2, <1>9, <2>1, <2>2, BreedsTheNext
  <2>4. \A j \in keys : j.type # "FINALIZE_RUN" BY ResearchJobsAreNotFinal
  <2>5. Raise(w) \/ Commit(w, [new EXCEPT !.status = "RESEARCHING"], "enqueue", keys)
      BY <1>9 DEF CommitStatus
  <2> HIDE DEF new, keys
  <2>6. CASE Commit(w, [new EXCEPT !.status = "RESEARCHING"], "enqueue", keys)
    <3>1. db' = [new EXCEPT !.status = "RESEARCHING"] /\ NothingFinal BY <2>4, <2>6, GotoTodo DEF Commit
    <3>2. /\ db'.status = "RESEARCHING" /\ db'.gens = new.gens /\ Here(db') = Here(new)
          /\ db'.finds = new.finds /\ db'.cands = new.cands /\ db'.verdict = new.verdict
          /\ db'.survivors = new.survivors /\ db'.parent = new.parent
        BY <2>3, <3>1, StatusApart DEF Keeps, RunStatus
    <3>3. Advances(w) BY <1>1, <1>2, <1>3, <1>9, <2>1, <2>2, <2>3, <3>2 DEF Advances, g
    <3> QED BY <3>1, <3>3 DEF Effect
  <2> QED BY <2>5, <2>6, RaiseEffect
<1>10. v.status = view[w].status BY ReadsStatus
<1> QED BY <1>3, <1>5, <1>6, <1>7, <1>8, <1>9, <1>10, Zenon DEF Finalizes

\* The result of an agent is stored, and its status set.
LEMMA BecomesDoes ==
  ASSUME RunInv, NEW w \in Workers, Inside(w), pc[w] \in {"start", "result"},
         NEW new \in Database, NEW status \in {"RUNNING", "COMPLETED"}, NEW where,
         Here(new) = Here(db), new.status = db.status, new.gens = db.gens,
         new.cands = db.cands, new.verdict = db.verdict,
         new.survivors = db.survivors, new.parent = db.parent,
         Becomes(w, new, status, where)
  PROVE  /\ db'.finds = new.finds /\ Here(db') = Here(db)
         /\ db'.status = db.status /\ db'.gens = db.gens
         /\ db'.cands = db.cands /\ db'.verdict = db.verdict
         /\ db'.survivors = db.survivors /\ db'.parent = db.parent
         /\ NothingFinal
<1>1. PICK seen \in {view[w], db} :
        Commit(w, AgentUpdates(new, seen, job[w].agent, status), where, {})
    BY DEF Becomes
<1>2. job[w].agent \in Here(new) BY InsideFits
<1>3. NothingFinal BY <1>1, GotoTodo DEF Commit
<1> DEFINE e == AgentUpdates(new, seen, job[w].agent, status)
<1>4. /\ Here(e) = Here(new) /\ e.status = new.status /\ e.gens = new.gens /\ e.finds = new.finds
      /\ e.cands = new.cands /\ e.verdict = new.verdict
      /\ e.survivors = new.survivors /\ e.parent = new.parent
    BY <1>2, AgentUpdatesKeep DEF AgentStatus
<1>5. db' = e BY <1>1 DEF Commit
<1> HIDE DEF e
<1> QED BY <1>3, <1>4, <1>5

LEMMA BecomesEffect ==
  ASSUME RunInv, NEW w \in Workers, Inside(w), pc[w] \in {"start", "result"},
         NEW new \in Database, NEW status \in {"RUNNING", "COMPLETED"}, NEW where,
         Here(new) = Here(db), new.status = db.status, new.gens = db.gens, new.finds = db.finds,
         new.cands = db.cands, new.verdict = db.verdict,
         new.survivors = db.survivors, new.parent = db.parent,
         Becomes(w, new, status, where)
  PROVE  Effect(w)
BY BecomesDoes DEF Effect, Plain, Alike

LEMMA StartDoes ==
  ASSUME RunInv, NEW w \in Workers, StartResearch(w) \/ StartJudge(w) \/ StartCritic(w)
  PROVE  Effect(w)
<1>1. pc[w] = "start" /\ Inside(w) BY DEF StartResearch, StartJudge, StartCritic, At, Inside
<1>2. \/ Return(w, "settle", {}) \/ Return(w, "schedule", {})
      \/ Becomes(w, db, "RUNNING", "calling") \/ Becomes(w, db, "COMPLETED", "schedule")
    BY DEF StartResearch, StartJudge, StartCritic, Resume
<1>3. db \in Database BY DEF RunInv
<1> QED BY <1>1, <1>2, <1>3, ReturnEffect, BecomesEffect

LEMMA StoreSubmissionDoes ==
  ASSUME RunInv, NEW w \in Workers, StoreSubmission(w)
  PROVE  Effect(w)
<1> DEFINE new == [db EXCEPT !.subs = db.subs \union {job[w].agent}]
<1>1. pc[w] = "result" /\ Inside(w) BY DEF StoreSubmission, At, Inside
<1>2. Raise(w) \/ Becomes(w, new, "COMPLETED", "schedule") BY DEF StoreSubmission
<1>3. job[w].agent \in Submissions
    BY <1>1, InsideFits, TypeSays, AgentSets DEF StoreSubmission
<1>4. /\ new \in Database /\ new.agents = db.agents /\ new.status = db.status /\ new.gens = db.gens
      /\ new.finds = db.finds /\ new.cands = db.cands /\ new.verdict = db.verdict
      /\ new.survivors = db.survivors /\ new.parent = db.parent
  <2>1. db.subs \union {job[w].agent} \in SUBSET Submissions BY <1>3 DEF RunInv, Database
  <2> QED BY <2>1 DEF RunInv, Database
<1> HIDE DEF new
<1> QED BY <1>1, <1>2, <1>4, RaiseEffect, BecomesEffect DEF Here

LEMMA StoreEvaluationsDoes ==
  ASSUME RunInv, NEW w \in Workers, StoreEvaluations(w)
  PROVE  Effect(w)
<1> DEFINE more == Unjudged(view[w], job[w].agent) \X {job[w].agent}
           new == [db EXCEPT !.evals = db.evals \union more]
<1>1. pc[w] = "result" /\ Inside(w) /\ view[w] # None BY DEF StoreEvaluations, At, Inside
<1>2. Raise(w) \/ Becomes(w, new, "COMPLETED", "schedule") BY DEF StoreEvaluations
<1>3. more \subseteq Submissions \X UNION {JudgesOf(g) : g \in Generations}
  <2>1. job[w].agent \in UNION {JudgesOf(g) : g \in Generations}
      BY <1>1, InsideFits, TypeSays DEF StoreEvaluations
  <2>2. Unjudged(view[w], job[w].agent) \subseteq Submissions
    <3>1. view[w] \in Database BY <1>1 DEF RunInv, Loop, LoopInv, LoopTyped
    <3> QED BY <3>1 DEF Unjudged, SubsOf, Database
  <2> QED BY <2>1, <2>2
<1> HIDE DEF more
<1>4. /\ new \in Database /\ new.agents = db.agents /\ new.status = db.status /\ new.gens = db.gens
      /\ new.finds = db.finds /\ new.cands = db.cands /\ new.verdict = db.verdict
      /\ new.survivors = db.survivors /\ new.parent = db.parent
  <2>1. db.evals \union more \in SUBSET (Submissions \X UNION {JudgesOf(g) : g \in Generations})
      BY <1>3 DEF RunInv, Database
  <2> QED BY <2>1 DEF RunInv, Database
<1> HIDE DEF new
<1> QED BY <1>1, <1>2, <1>4, RaiseEffect, BecomesEffect DEF Here

LEMMA StoreFindingDoes ==
  ASSUME RunInv, NEW w \in Workers, StoreFinding(w)
  PROVE  Effect(w)
<1> DEFINE a == job[w].agent
           finding(fatal) == [critic |-> a, sub |-> Elite(a.gen, {}), fatal |-> fatal]
           New(fatal) == [db EXCEPT !.finds = db.finds \union {finding(fatal)}]
<1>1. pc[w] = "result" /\ Inside(w) BY DEF StoreFinding, At, Inside
<1>2. \/ Raise(w) \/ Becomes(w, db, "COMPLETED", "schedule")
      \/ Findings(db, a) = {} /\ \E fatal \in BOOLEAN : Becomes(w, New(fatal), "COMPLETED", "schedule")
    BY DEF StoreFinding
<1>3. CASE Raise(w) BY <1>3, RaiseEffect
<1>4. CASE Becomes(w, db, "COMPLETED", "schedule")
    BY <1>1, <1>4, BecomesEffect DEF RunInv
<1>5. ASSUME NEW fatal \in BOOLEAN, Findings(db, a) = {}, Becomes(w, New(fatal), "COMPLETED", "schedule")
      PROVE  Effect(w)
  <2> DEFINE new == New(fatal)
             f == finding(fatal)
  <2>1. a \in Agents /\ a \in CriticsOf(a.gen) /\ a.gen \in Generations
    <3>1. job[w] \in Jobs /\ job[w].type = "RUN_CRITIC" /\ job[w].gen \in Generations
        BY <1>1, InsideFits DEF StoreFinding
    <3> QED BY <3>1, TypeSays, CriticParts, AgentSets
  <2>2. db \in Database BY DEF RunInv
  <2>3. Elite(a.gen, {}) \in Submissions BY <2>1, EliteIsBest, AgentSets
  <2>4. f \in [critic : Agents, sub : Submissions, fatal : BOOLEAN] BY <2>1, <2>3
  <2>5. f.critic = a /\ f.sub = Elite(a.gen, {}) OBVIOUS
  <2>6. new = [db EXCEPT !.finds = db.finds \union {f}] OBVIOUS
  <2> HIDE DEF f, new
  <2>7. /\ new \in Database /\ new.finds = db.finds \union {f} /\ new.status = db.status
        /\ new.gens = db.gens /\ new.agents = db.agents /\ new.cands = db.cands
        /\ new.verdict = db.verdict /\ new.survivors = db.survivors /\ new.parent = db.parent
    <3>1. db.finds \union {f} \in SUBSET [critic : Agents, sub : Submissions, fatal : BOOLEAN]
        BY <2>2, <2>4 DEF Database
    <3> QED BY <2>2, <2>6, <3>1 DEF Database
  <2>8. Becomes(w, new, "COMPLETED", "schedule") BY <1>5 DEF new
  <2>9. Here(new) = Here(db) BY <2>7 DEF Here
  <2>10. /\ db'.finds = new.finds /\ Here(db') = Here(db)
         /\ db'.status = db.status /\ db'.gens = db.gens
         /\ db'.cands = db.cands /\ db'.verdict = db.verdict
         /\ db'.survivors = db.survivors /\ db'.parent = db.parent
         /\ NothingFinal
      BY <1>1, <2>7, <2>8, <2>9, BecomesDoes
  <2>11. a \in Here(db) BY <1>1, InsideFits
  <2>12. Hears(w) BY <1>5, <2>1, <2>5, <2>7, <2>10, <2>11 DEF Hears, a
  <2> QED BY <2>10, <2>12 DEF Effect
<1> QED BY <1>2, <1>3, <1>4, <1>5

LEMMA FailRunDoes ==
  ASSUME RunInv, NEW w \in Workers, FailRun(w)
  PROVE  Effect(w)
<1>1. \/ Return(w, "settle", {}) \/ Raise(w)
      \/ Undecided /\ Commit(w, [db EXCEPT !.status = "FAILED"], "settle", {})
  <2>1. view[w] # None BY DEF FailRun, At
  <2>2. PICK v \in Reads(w) :
          IF v.status \in Over THEN Return(w, "settle", {})
          ELSE CommitStatus(w, db, "FAILED", "settle", {})
      BY DEF FailRun
  <2>3. v.status \notin Over => Undecided BY <2>1, ReadsStatus DEF Undecided
  <2> QED BY <2>2, <2>3 DEF CommitStatus
<1>2. CASE Undecided /\ Commit(w, [db EXCEPT !.status = "FAILED"], "settle", {})
  <2>1. db' = [db EXCEPT !.status = "FAILED"] /\ NothingFinal BY <1>2, GotoTodo DEF Commit
  <2>2. Plain BY <1>2, <2>1, StatusApart DEF Plain, Alike, Keeps, RunStatus, RunInv
  <2> QED BY <2>1, <2>2 DEF Effect
<1> QED BY <1>1, <1>2, ReturnEffect, RaiseEffect

LEMMA ReportFailureDoes ==
  ASSUME RunInv, NEW w \in Workers, ReportFailure(w)
  PROVE  Plain /\ NothingFinal
<1> DEFINE a == job[w].agent
<1>1. pc[w] = "terminal" /\ view[w] # None BY DEF ReportFailure, At
<1>2. NothingFinal BY GotoTodo DEF ReportFailure, Drop
<1>3. \/ db' = db
      \/ Undecided /\ a = None /\ db' = [db EXCEPT !.status = "FAILED"]
      \/ /\ Undecided /\ a # None
         /\ \E v : db' = [AgentUpdates(db, v, a, "FAILED") EXCEPT !.status = "FAILED"]
  <2>1. PICK v \in Reads(w) :
          \/ db' = db
          \/ /\ v.status \notin Over
             /\ db' = [IF a = None THEN db ELSE AgentUpdates(db, v, a, "FAILED") EXCEPT !.status = "FAILED"]
      BY DEF ReportFailure
  <2>2. v.status \notin Over => Undecided BY <1>1, ReadsStatus DEF Undecided
  <2> QED BY <2>1, <2>2
<1>4. db \in Database BY DEF RunInv
<1>5. a # None => a \in Here(db)
  <2>1. job[w] # None BY <1>1 DEF RunInv, Loop, LoopInv, LoopTyped, LoopOK
  <2> QED BY <2>1, HolderFits DEF JobFits
<1> HIDE DEF a
<1>6. CASE db' = db BY <1>2, <1>6 DEF Plain, Alike
<1>7. CASE Undecided /\ db' = [db EXCEPT !.status = "FAILED"]
    BY <1>2, <1>4, <1>7, StatusApart DEF Plain, Alike, Keeps, RunStatus
<1>8. ASSUME NEW v, Undecided, a # None, db' = [AgentUpdates(db, v, a, "FAILED") EXCEPT !.status = "FAILED"]
      PROVE  Plain
  <2> DEFINE e == AgentUpdates(db, v, a, "FAILED")
  <2>1. /\ e \in Database /\ Here(e) = Here(db) /\ e.gens = db.gens /\ e.finds = db.finds
        /\ e.cands = db.cands /\ e.verdict = db.verdict
        /\ e.survivors = db.survivors /\ e.parent = db.parent
      BY <1>4, <1>5, <1>8, AgentUpdatesKeep DEF AgentStatus
  <2>2. db' = [e EXCEPT !.status = "FAILED"] BY <1>8
  <2> HIDE DEF e
  <2>3. Undecided BY <1>8
  <2> QED BY <2>1, <2>2, <2>3, StatusApart DEF Plain, Alike, Keeps, RunStatus
<1> QED BY <1>2, <1>3, <1>6, <1>7, <1>8

Effects == (Plain /\ NothingFinal) \/ \E w \in Workers : Effect(w)

LEMMA WorkerDoes ==
  ASSUME RunInv, NEW w \in Workers, UnitOfWork(w)
  PROVE  ReportFailure(w) \/ Effect(w)
BY StartRunDoes, MaybeScheduleJudgingDoes, StartJudgingDoes, MaybeScheduleFinalizeDoes, AfterOpeningDoes,
   FinalizeRunDoes, FailRunDoes, StartDoes, StoreSubmissionDoes, StoreEvaluationsDoes,
   StoreFindingDoes, Zenon DEF UnitOfWork

LEMMA UnitOfWorkDoes ==
  ASSUME RunInv, NEW w \in Workers, UnitOfWork(w)
  PROVE  Effects
BY WorkerDoes, ReportFailureDoes DEF Effects

\* The steps around the units of work leave the database as it is.
LEMMA LoopDoes ==
  ASSUME RunInv, NEW w \in Workers,
         \/ Begin(w) \/ ProviderAnswers(w) \/ ProviderFails(w) \/ EnqueueNext(w)
         \/ Settle(w) \/ Fail(w) \/ CrashWorker(w) \/ Restart(w)
  PROVE  Effects
<1>1. todo \in [Workers -> SUBSET Jobs] BY DEF RunInv, Loop, LoopInv, LoopTyped
<1>2. UNCHANGED db
    BY DEF Begin, BeginAt, ProviderAnswers, Return, ProviderFails, EnqueueNext, EnqueueOne,
           Settle, Fail, CrashWorker, Restart
<1>3. Plain BY <1>2 DEF Plain, Alike
<1>4. NothingFinal
  <2>1. CASE Begin(w) BY <2>1 DEF Begin, BeginAt, NothingFinal
  <2>2. CASE EnqueueNext(w)
    <3>1. PICK j : EnqueueOne(w, j) BY <2>2 DEF EnqueueNext
    <3> QED BY <1>1, <3>1 DEF EnqueueOne, Goto, NothingFinal
  <2>3. CASE ProviderAnswers(w) \/ ProviderFails(w)
    BY <2>3, GotoTodo DEF ProviderAnswers, Return, ProviderFails
  <2>4. CASE Settle(w) \/ Fail(w)
    <3>1. PICK where : Goto(w, where, {}) BY <2>4 DEF Settle, Fail, Drop
    <3> QED BY <3>1, GotoTodo
  <2>5. CASE CrashWorker(w) \/ Restart(w)
    <3>1. PICK where : Goto(w, where, {}) BY <2>5 DEF CrashWorker, Restart, Drop
    <3> QED BY <3>1, GotoTodo
  <2> QED BY <2>1, <2>2, <2>3, <2>4, <2>5
<1> QED BY <1>3, <1>4 DEF Effects

LEMMA OthersDo ==
  ASSUME RunInv,
         \/ CreateRun \/ EnqueueCreateGeneration \/ CrashApi \/ UNCHANGED vars
         \/ \E w \in Workers, j \in Jobs : Claim(w, j)
         \/ \E j \in Jobs : Lapse(j)
  PROVE  Plain /\ NothingFinal
<1>1. UNCHANGED todo
    BY DEF CreateRun, EnqueueCreateGeneration, CrashApi, Claim, ClaimFor, Lapse, vars, workerVars
<1>2. NothingFinal BY <1>1 DEF NothingFinal
<1>3. CASE CreateRun
  <2>1. db' = [db EXCEPT !.status = "CREATED"] /\ db.status = "NONE" BY <1>3 DEF CreateRun, RunInv
  <2> QED BY <1>2, <2>1, StatusApart DEF Plain, Alike, Keeps, RunStatus, RunInv
<1>4. CASE UNCHANGED db BY <1>2, <1>4 DEF Plain, Alike
<1>5. CreateRun \/ UNCHANGED db
    BY DEF CreateRun, EnqueueCreateGeneration, CrashApi, Claim, ClaimFor, Lapse, vars
<1> QED BY <1>3, <1>4, <1>5

LEMMA NextDoes ==
  ASSUME RunInv, [Next]_vars
  PROVE  Effects
<1>1. CASE \E w \in Workers : UnitOfWork(w) BY <1>1, UnitOfWorkDoes
<1>2. CASE \E w \in Workers :
             \/ Begin(w) \/ ProviderAnswers(w) \/ ProviderFails(w) \/ EnqueueNext(w)
             \/ Settle(w) \/ Fail(w) \/ CrashWorker(w) \/ Restart(w)
    BY <1>2, LoopDoes
<1>3. CASE \/ CreateRun \/ EnqueueCreateGeneration \/ CrashApi \/ UNCHANGED vars
           \/ \E w \in Workers, j \in Jobs : Claim(w, j)
           \/ \E j \in Jobs : Lapse(j)
    BY <1>3, OthersDo DEF Effects
<1> QED BY <1>1, <1>2, <1>3, Zenon DEF Next, Proceed

\* What else a step leaves alone: the readings of the units of work that stay
\* open, and the jobs nobody had announced.
Around ==
  /\ \A u \in Workers : view'[u] # None =>
       /\ job'[u] = job[u] /\ pc'[u] = pc[u]
       /\ view'[u] = view[u] \/ (view'[u] = db /\ db' = db)
  /\ \A j \in Jobs : jobs'[j].status # "absent" =>
       jobs[j].status # "absent" \/ j = CreateJob \/ \E u \in Workers : j \in todo[u]
  /\ budget'.lapses = 0 => budget.lapses = 0

LEMMA ContinuesAround ==
  ASSUME RunInv, NEW w \in Workers, Continues(w)
  PROVE  Around
<1>1. Works(w, Jobs, Database, UnitsOfWork) /\ view' = [view EXCEPT ![w] = None] BY DEF Continues
<1>2. budget'.lapses = budget.lapses
    BY <1>1 DEF Works, RunInv, Loop, LoopInv, LoopTyped
<1>3. UNCHANGED <<jobs, job>> BY <1>1 DEF Works
<1>4. \A u \in Workers \ {w} : pc'[u] = pc[u] /\ view'[u] = view[u]
    BY <1>1 DEF Continues, RunInv, Loop, LoopInv, LoopTyped
<1>5. view'[w] = None BY <1>1 DEF RunInv, Loop, LoopInv, LoopTyped
<1> QED BY <1>2, <1>3, <1>4, <1>5 DEF Around

\* The worker's unit of work ends, and no job is announced.
LEMMA GotoAround ==
  ASSUME RunInv, NEW w \in Workers, NEW where, NEW keys, Goto(w, where, keys),
         job' = job \/ job' = [job EXCEPT ![w] = None],
         \A j \in Jobs : jobs'[j].status # "absent" => jobs[j].status # "absent" \/ j \in todo[w],
         budget'.lapses = 0 => budget.lapses = 0
  PROVE  Around
<1>1. view'[w] = None BY DEF Goto, RunInv, Loop, LoopInv, LoopTyped
<1>2. \A u \in Workers \ {w} : pc'[u] = pc[u] /\ view'[u] = view[u] /\ job'[u] = job[u]
    BY DEF Goto, RunInv, Loop, LoopInv, LoopTyped
<1> QED BY <1>1, <1>2 DEF Around

\* A row that is released keeps being there, and one is enqueued at a time.
LEMMA LoopAround ==
  ASSUME RunInv, NEW w \in Workers,
         \/ ReportFailure(w) \/ EnqueueNext(w) \/ Settle(w) \/ Fail(w) \/ CrashWorker(w) \/ Restart(w)
  PROVE  Around
<1> USE DEF Drop
<1>1. /\ jobs \in [Jobs -> JobRow] /\ job \in [Workers -> Jobs \union {None}]
      /\ budget \in [raises : Nat, lapses : Nat, crashes : Nat, lost : SUBSET Jobs]
    BY DEF RunInv, Loop, LoopInv, LoopTyped
<1>2. CASE ReportFailure(w)
  <2>1. UNCHANGED <<jobs, budget>> BY <1>2 DEF ReportFailure
  <2>2. PICK where : Goto(w, where, {}) /\ job' = [job EXCEPT ![w] = None]
      BY <1>2 DEF ReportFailure
  <2> QED BY <2>1, <2>2, GotoAround
<1>3. CASE EnqueueNext(w)
  <2>1. PICK j \in todo[w] : EnqueueOne(w, j) BY <1>3 DEF EnqueueNext
  <2>2. UNCHANGED <<job, budget>> /\ jobs' = Enqueued(jobs, {j}) BY <2>1 DEF EnqueueOne
  <2>3. \A k \in Jobs : jobs'[k].status # "absent" => jobs[k].status # "absent" \/ k = j
      BY <1>1, <2>2 DEF Enqueued
  <2>4. PICK where, keys : Goto(w, where, keys) BY <2>1 DEF EnqueueOne
  <2> QED BY <2>1, <2>2, <2>3, <2>4, GotoAround
<1>4. CASE Settle(w) \/ Fail(w)
  <2>1. UNCHANGED budget /\ (job' = job \/ job' = [job EXCEPT ![w] = None])
      BY <1>4 DEF Settle, Fail
  <2>2. jobs' = jobs \/ \E status : Owns(w) /\ jobs' = Released(job[w], status)
      BY <1>4 DEF Settle, Fail
  <2>3. \A k \in Jobs : jobs'[k].status # "absent" => jobs[k].status # "absent"
      BY <1>1, <2>2 DEF Released, Owns
  <2>4. PICK where : Goto(w, where, {}) BY <1>4 DEF Settle, Fail
  <2> QED BY <2>1, <2>3, <2>4, GotoAround
<1>5. CASE CrashWorker(w) \/ Restart(w)
  <2>1. UNCHANGED jobs /\ budget'.lapses = budget.lapses BY <1>1, <1>5 DEF CrashWorker, Restart
  <2>2. PICK where : Goto(w, where, {}) /\ job' = [job EXCEPT ![w] = None]
      BY <1>5 DEF CrashWorker, Restart
  <2> QED BY <2>1, <2>2, GotoAround
<1> QED BY <1>2, <1>3, <1>4, <1>5

LEMMA ApiAround ==
  ASSUME RunInv, CreateRun \/ EnqueueCreateGeneration \/ CrashApi \/ UNCHANGED vars
  PROVE  Around
<1>1. UNCHANGED workerVars
    BY DEF CreateRun, EnqueueCreateGeneration, CrashApi, vars, workerVars
<1>2. budget'.lapses = budget.lapses
    BY DEF CreateRun, EnqueueCreateGeneration, CrashApi, vars, RunInv, Loop, LoopInv, LoopTyped
<1>3. \A j \in Jobs : jobs'[j].status # "absent" => jobs[j].status # "absent" \/ j = CreateJob
    BY DEF CreateRun, EnqueueCreateGeneration, CrashApi, vars, Enqueued, RunInv, Loop, LoopInv, LoopTyped
<1> QED BY <1>1, <1>2, <1>3 DEF Around, workerVars

LEMMA ClaimAround ==
  ASSUME RunInv, NEW w \in Workers, NEW j \in Jobs, Claim(w, j)
  PROVE  Around
<1>1. pc[w] = "idle" /\ UNCHANGED <<view, budget>> BY DEF Claim, ClaimFor
<1>2. view[w] = None BY <1>1 DEF RunInv, Loop, LoopInv, LoopOK, UnitsOfWork
<1>3. \A u \in Workers \ {w} : pc'[u] = pc[u] /\ job'[u] = job[u]
    BY DEF Claim, ClaimFor, RunInv, Loop, LoopInv, LoopTyped
<1>4. \A k \in Jobs : jobs'[k].status # "absent" => jobs[k].status # "absent"
    BY DEF Claim, ClaimFor, RunInv, Loop, LoopInv, LoopTyped
<1> QED BY <1>1, <1>2, <1>3, <1>4 DEF Around

LEMMA LapseAround ==
  ASSUME RunInv, NEW j \in Jobs, Lapse(j)
  PROVE  Around
<1>1. jobs[j].status = "running" /\ UNCHANGED workerVars BY DEF Lapse
<1>2. budget.lapses \in Nat BY DEF RunInv, Loop, LoopInv, LoopTyped
<1>3. budget'.lapses \in {budget.lapses, budget.lapses + 1}
    BY DEF Lapse, RunInv, Loop, LoopInv, LoopTyped
<1>4. \A k \in Jobs : jobs'[k].status # "absent" => jobs[k].status # "absent"
    BY <1>1 DEF Lapse, Released, RunInv, Loop, LoopInv, LoopTyped
<1> QED BY <1>1, <1>2, <1>3, <1>4 DEF Around, workerVars

LEMMA BeginAround ==
  ASSUME RunInv, NEW w \in Workers, Begin(w)
  PROVE  Around
<1>1. UNCHANGED <<db, jobs, pc, job, budget>> /\ view' = [view EXCEPT ![w] = db]
    BY DEF Begin, BeginAt
<1>2. \A u \in Workers : view'[u] = view[u] \/ view'[u] = db
    BY <1>1 DEF RunInv, Loop, LoopInv, LoopTyped
<1> QED BY <1>1, <1>2 DEF Around

LEMMA NextAround ==
  ASSUME RunInv, [Next]_vars
  PROVE  Around
<1>1. ASSUME NEW w \in Workers,
             \/ StartRun(w) \/ MaybeScheduleJudging(w) \/ StartJudging(w) \/ MaybeScheduleFinalize(w)
             \/ AfterOpening(w) \/ FinalizeRun(w) \/ FailRun(w)
             \/ StartResearch(w) \/ StartJudge(w) \/ StartCritic(w)
             \/ StoreSubmission(w) \/ StoreEvaluations(w) \/ StoreFinding(w)
             \/ ProviderAnswers(w) \/ ProviderFails(w)
      PROVE  Around
  <2>1. Continues(w)
      BY <1>1, Zenon, StartRunContinues, MaybeScheduleJudgingContinues, StartJudgingContinues,
         MaybeScheduleFinalizeContinues, AfterOpeningContinues, FinalizeRunContinues, FailRunContinues,
         StartContinues, StoreSubmissionContinues, StoreEvaluationsContinues, StoreFindingContinues,
         ProviderAnswersContinues, ProviderFailsContinues
  <2> QED BY <2>1, ContinuesAround
<1>2. ASSUME NEW w \in Workers,
             \/ ReportFailure(w) \/ EnqueueNext(w) \/ Settle(w) \/ Fail(w)
             \/ CrashWorker(w) \/ Restart(w)
      PROVE  Around
    BY <1>2, LoopAround
<1>3. ASSUME NEW w \in Workers, Begin(w) PROVE Around BY <1>3, BeginAround
<1>4. ASSUME NEW w \in Workers, NEW j \in Jobs, Claim(w, j) PROVE Around BY <1>4, ClaimAround
<1>5. ASSUME NEW j \in Jobs, Lapse(j) PROVE Around BY <1>5, LapseAround
<1>6. CASE CreateRun \/ EnqueueCreateGeneration \/ CrashApi \/ UNCHANGED vars BY <1>6, ApiAround
<1> QED BY <1>1, <1>2, <1>3, <1>4, <1>5, <1>6, Zenon DEF Next, Proceed, UnitOfWork

-----------------------------------------------------------------------------
(* What the critics found, and that it stands.                              *)

LEMMA CriticsCounted ==
  ASSUME NEW g
  PROVE  IsFiniteSet(FirstCritics(g)) /\ Cardinality(FirstCritics(g)) = CriticCount
<1> DEFINE f == [i \in 1..CriticCount |-> Agent(g, "critic", i, 1)]
<1>1. IsFiniteSet(1..CriticCount) /\ Cardinality(1..CriticCount) = CriticCount
    BY FS_Interval, RunCreateAssumption
<1>2. \A i, j \in 1..CriticCount : f[i] = f[j] => i = j BY DEF Agent
<1>3. /\ f \in [1..CriticCount -> FirstCritics(g)]
      /\ \A a \in FirstCritics(g) : \E i \in 1..CriticCount : f[i] = a
    BY DEF FirstCritics, CriticSet
<1> HIDE DEF f
<1>4. f \in Bijection(1..CriticCount, FirstCritics(g))
    BY <1>2, <1>3 DEF Bijection, Injection, Surjection, IsInjective
<1> QED BY <1>1, <1>4, FS_Bijection DEF ExistsBijection

\* A set with as many elements as a part of it has no other elements.
LEMMA AllOfIt ==
  ASSUME NEW S, IsFiniteSet(S), NEW T \in SUBSET S, Cardinality(T) = Cardinality(S)
  PROVE  T = S
BY FS_Subset

\* Where the critics of the first opening are, all critics have completed, and
\* there are as many findings as one opening brings critics, they are of those:
\* the outcome that is read off them is what the first critics say.
LEMMA HeardWhenAll ==
  ASSUME NEW r, NEW f, CriticsFit(r), FindingsFit(f), r.finds \subseteq f.finds,
         NEW g \in Generations, IsFiniteSet(Answers(f, g)), FirstCritics(g) \subseteq Here(r), Pending(r, g) = {},
         Cardinality(Answers(f, g)) = CriticCount
  PROVE  Heard(f, g) /\ Outcome(f, g) = Ruling(f, g)
<1> DEFINE T == {x \in f.finds : x.critic \in FirstCritics(g)}
           h == [x \in T |-> x.critic]
<1>1. FirstCritics(g) \subseteq CriticsOf(g) BY FirstCriticParts
<1>2. ASSUME NEW a \in FirstCritics(g) PROVE \E x \in f.finds : x.critic = a
  <2>1. a \in CriticsOf(g) /\ a \in Here(r) /\ a.role = "critic" BY <1>1, CriticParts
  <2>2. r.agents[a] = "COMPLETED" BY <2>1 DEF Pending, Present, Here
  <2>3. Findings(r, a) # {} BY <2>1, <2>2 DEF CriticsFit, Here
  <2> QED BY <2>3 DEF Findings
<1>3. Heard(f, g) BY <1>2 DEF Heard
<1>4. h \in Injection(T, FirstCritics(g)) BY DEF Injection, IsInjective, FindingsFit
<1>5. \A a \in FirstCritics(g) : \E x \in T : h[x] = a BY <1>2
<1> HIDE DEF T, h
<1>6. h \in Bijection(T, FirstCritics(g)) BY <1>4, <1>5 DEF Bijection, Surjection, Injection
<1>7. T \subseteq Answers(f, g) BY <1>1 DEF T, Answers
<1>8. IsFiniteSet(T) BY <1>7, FS_Subset
<1>9. Cardinality(T) = CriticCount
    BY <1>6, <1>8, CriticsCounted, FS_Bijection DEF ExistsBijection
<1>10. T = Answers(f, g) BY <1>7, <1>9, AllOfIt
<1> QED BY <1>3, <1>10 DEF T, Answers, Outcome, Ruling

\* There are finitely many findings of a generation.
LEMMA FewAnswers ==
  ASSUME NEW d, FindingsFit(d), NEW g
  PROVE  IsFiniteSet(Answers(d, g))
<1> DEFINE M == JudgeCount + MaxLapses
           D == (1..CriticCount) \X (1..M)
           T == Answers(d, g)
           h == [x \in T |-> <<x.critic.index, x.critic.copy>>]
<1>1. M \in Nat /\ CriticCount \in Nat BY LoopAssumption, RunCreateAssumption DEF JudgeCount
<1>2. IsFiniteSet(1..CriticCount) /\ IsFiniteSet(1..M) BY <1>1, FS_Interval
<1>3. IsFiniteSet(D) BY <1>2, FS_Product
<1>4. \A x \in T : /\ x.critic.index \in 1..CriticCount /\ x.critic.copy \in 1..M
                   /\ x.critic = Agent(g, "critic", x.critic.index, x.critic.copy)
    BY CriticParts DEF Answers, CriticCopies
<1>5. \A x, y \in T : x.critic = y.critic => x = y BY DEF Answers, FindingsFit
<1>6. h \in [T -> D] BY <1>4
<1>7. ASSUME NEW x \in T, NEW y \in T, h[x] = h[y] PROVE x = y
  <2>1. x.critic.index = y.critic.index /\ x.critic.copy = y.critic.copy BY <1>7
  <2> QED BY <1>4, <1>5, <2>1
<1> HIDE DEF T, D, h
<1>8. h \in Injection(T, D) BY <1>6, <1>7 DEF Injection, IsInjective
<1>9. ExistsInjection(T, D) BY <1>8 DEF ExistsInjection
<1>10. IsFiniteSet(T) BY <1>3, <1>8, FS_Injection
<1> QED BY <1>10 DEF T

LEMMA RulingStands ==
  ASSUME NEW d, NEW e, d.finds \subseteq e.finds, FindingsFit(e), NEW g, Heard(d, g)
  PROVE  Heard(e, g) /\ Ruling(e, g) = Ruling(d, g)
<1>1. Heard(e, g) BY DEF Heard
<1>2. \A f \in e.finds : f.critic \in FirstCritics(g) => f \in d.finds BY DEF Heard, FindingsFit
<1> QED BY <1>1, <1>2 DEF Ruling

LEMMA EliteParts ==
  ASSUME NEW g \in Generations, NEW refuted
  PROVE  Elite(g, refuted) \in Submissions /\ Elite(g, refuted).gen = g
BY EliteIsBest, AgentSets, ResearcherParts

LEMMA SettledStands ==
  ASSUME NEW d, NEW e, Stands(d, e), FindingsFit(e), NEW g \in Generations, Settled(d, g)
  PROVE  Settled(e, g)
<1> SUFFICES ASSUME CriticCount > 0
             PROVE  Heard(e, g) /\ (g + 1 < MaxGenerations => e.cands[Elite(g, {})] = Ruling(e, g))
    BY DEF Settled
<1>1. Heard(d, g) /\ (g + 1 < MaxGenerations => d.cands[Elite(g, {})] = Ruling(d, g)) BY DEF Settled
<1>2. Heard(e, g) /\ Ruling(e, g) = Ruling(d, g) BY <1>1, RulingStands DEF Stands
<1>3. ASSUME g + 1 < MaxGenerations PROVE e.cands[Elite(g, {})] = d.cands[Elite(g, {})]
  <2>1. Ruling(d, g) \notin {"ABSENT", "UNDER_ATTACK"} BY DEF Ruling
  <2>2. Decided(Elite(g, {}), d.cands[Elite(g, {})]) BY <1>1, <1>3, <2>1, EliteParts DEF Decided
  <2> QED BY <2>2, EliteParts DEF Stands
<1> QED BY <1>1, <1>2, <1>3

LEMMA StandsOn ==
  ASSUME NEW v, NEW d, NEW e, Stands(v, d), Stands(d, e)
  PROVE  Stands(v, e)
BY DEF Stands

\* Which candidates of a generation the run has left behind are refuted.
LEMMA RefutedStands ==
  ASSUME NEW d, NEW e, NEW g \in Generations, g + 1 < MaxGenerations,
         CandidatesFit(d), CandidatesFit(e), Stands(d, e), Settled(d, g)
  PROVE  Refuted(e, g) = Refuted(d, g)
<1> SUFFICES ASSUME NEW s \in Researchers(g)
             PROVE  d.cands[s] = "REFUTED" <=> e.cands[s] = "REFUTED"
    BY DEF Refuted
<1>1. s \in Submissions /\ s.gen = g BY AgentSets, ResearcherParts
<1>2. CASE s # Elite(g, {}) BY <1>1, <1>2 DEF CandidatesFit
<1>3. CASE CriticCount = 0 BY <1>1, <1>3 DEF CandidatesFit
<1>4. CASE s = Elite(g, {}) /\ CriticCount > 0
  <2>1. d.cands[s] = Ruling(d, g) BY <1>4 DEF Settled
  <2>2. Ruling(d, g) \notin {"ABSENT", "UNDER_ATTACK"} BY DEF Ruling
  <2>3. Decided(s, d.cands[s]) BY <1>1, <1>4, <2>1, <2>2 DEF Decided
  <2> QED BY <1>1, <2>3 DEF Stands
<1> QED BY <1>2, <1>3, <1>4, RunCreateAssumption

LEMMA LeftBehindStands ==
  ASSUME NEW d, NEW e, LeftBehindFit(d), e.gens = d.gens, Stands(d, e), FindingsFit(e)
  PROVE  LeftBehindFit(e)
BY SettledStands DEF LeftBehindFit

LEMMA LineageStands ==
  ASSUME NEW d, NEW e, LineageFits(d), LeftBehindFit(d), CandidatesFit(d), CandidatesFit(e), Stands(d, e),
         d.gens \in Nat, d.gens <= MaxGenerations, e.gens = d.gens,
         e.survivors = d.survivors, e.parent = d.parent,
         d.parent \in [Submissions -> Submissions \union {None}]
  PROVE  LineageFits(e)
<1>1. \A g \in Generations : g + 1 >= e.gens => e.survivors[g] = <<>> BY DEF LineageFits
<1>2. ASSUME NEW a \in Submissions, d.parent[a] # None
      PROVE  d.parent[a] \in Viable(d.parent[a].gen, Refuted(e, d.parent[a].gen))
  <2> DEFINE p == d.parent[a]
  <2>1. /\ a.gen \in 1..Latest(d) /\ p.gen = a.gen - 1 /\ p \in Viable(p.gen, Refuted(d, p.gen))
      BY <1>2 DEF LineageFits
  <2>2. p \in Submissions BY <1>2
  <2>3. p.gen \in Generations BY <2>2, SubmissionParts
  <2> HIDE DEF p
  <2>4. p.gen + 1 < d.gens /\ p.gen + 1 < MaxGenerations BY <2>1, RunCreateAssumption DEF Latest
  <2>5. Settled(d, p.gen) BY <2>3, <2>4 DEF LeftBehindFit
  <2>6. Refuted(e, p.gen) = Refuted(d, p.gen) BY <2>3, <2>4, <2>5, RefutedStands
  <2> QED BY <2>1, <2>6 DEF p
<1>3. ASSUME NEW a \in Submissions
      PROVE  LET p == e.parent[a] IN
             /\ p # None <=> (a.gen \in 1..Latest(e) /\ a.index <= Population - FreshCount)
             /\ p # None =>
                  /\ p.gen = a.gen - 1
                  /\ \E i \in DOMAIN e.survivors[p.gen] : e.survivors[p.gen][i] = p
                  /\ p \in Viable(p.gen, Refuted(e, p.gen))
  <2>1. LET p == d.parent[a] IN
        /\ p # None <=> (a.gen \in 1..Latest(d) /\ a.index <= Population - FreshCount)
        /\ p # None =>
             /\ p.gen = a.gen - 1
             /\ \E i \in DOMAIN d.survivors[p.gen] : d.survivors[p.gen][i] = p
      BY DEF LineageFits
  <2>2. Latest(e) = Latest(d) BY DEF Latest
  <2> QED BY <1>2, <2>1, <2>2
<1> QED BY <1>1, <1>3 DEF LineageFits

-----------------------------------------------------------------------------
(* Each effect keeps the record, and what was decided.                       *)

\* The columns the record is about.
SameRecord(d, e) ==
  /\ e.gens = d.gens /\ e.finds = d.finds /\ e.cands = d.cands
  /\ e.verdict = d.verdict /\ e.survivors = d.survivors /\ e.parent = d.parent

LEMMA SameFits ==
  ASSUME NEW d, NEW e, SameRecord(d, e), Record(d)
  PROVE  Record(e) /\ Stands(d, e) /\ \A g : Settled(d, g) => Settled(e, g)
<1> USE DEF SameRecord
<1>1. FindingsFit(e) BY DEF Record, FindingsFit
<1>2. \A g : Heard(e, g) = Heard(d, g) /\ Ruling(e, g) = Ruling(d, g) /\ Refuted(e, g) = Refuted(d, g)
    BY DEF Heard, Ruling, Refuted
<1>3. \A g : Settled(e, g) = Settled(d, g) BY <1>2 DEF Settled
<1>4. CandidatesFit(e) BY <1>2 DEF Record, CandidatesFit
<1>5. LeftBehindFit(e) BY <1>3 DEF Record, LeftBehindFit
<1>6. VerdictsFit(e) BY <1>2 DEF Record, VerdictsFit
<1>7. LineageFits(e) BY <1>2 DEF Record, LineageFits, Latest
<1>8. Stands(d, e) BY DEF Stands
<1> QED BY <1>1, <1>3, <1>4, <1>5, <1>6, <1>7, <1>8 DEF Record

LEMMA StartsKeep ==
  ASSUME RunInv, Record(db), NEW w \in Workers, Starts(w)
  PROVE  Record(db') /\ Stands(db, db')
<1> USE DEF Starts
<1>1. FindingsFit(db') BY DEF Record, FindingsFit
<1>2. \A g : Heard(db', g) = Heard(db, g) /\ Ruling(db', g) = Ruling(db, g)
    BY DEF Heard, Ruling
<1>3. CandidatesFit(db') BY <1>2 DEF Record, CandidatesFit
<1>4. VerdictsFit(db') BY <1>2 DEF Record, VerdictsFit
<1>5. LeftBehindFit(db') BY GenerationsType DEF LeftBehindFit
<1>6. \A a \in Submissions : db.parent[a] = None BY DEF Record, LineageFits, Latest
<1>7. LineageFits(db')
  <2>1. \A g \in Generations : db'.survivors[g] = <<>> BY GenerationsType DEF Record, LineageFits
  <2>2. 1..Latest(db') = {} BY DEF Latest
  <2> QED BY <1>6, <2>1, <2>2 DEF LineageFits
<1>8. Stands(db, db') BY DEF Stands
<1> QED BY <1>1, <1>3, <1>4, <1>5, <1>7, <1>8 DEF Record

\* What follows for the lineage when generations, selections and parents stay.
LEMMA LineageKeeps ==
  ASSUME RunInv, Record(db), FindingsFit(db'), CandidatesFit(db'), Stands(db, db'),
         db'.gens = db.gens, db'.survivors = db.survivors, db'.parent = db.parent
  PROVE  LeftBehindFit(db') /\ LineageFits(db')
<1>1. db \in Database BY DEF RunInv
<1>2. /\ db.gens \in Nat /\ db.gens <= MaxGenerations
      /\ db.parent \in [Submissions -> Submissions \union {None}]
    BY <1>1, GensType DEF Database
<1> QED BY <1>2, LeftBehindStands, LineageStands DEF Record

LEMMA HearsKeep ==
  ASSUME RunInv, Record(db), NEW w \in Workers, Hears(w)
  PROVE  Record(db') /\ Stands(db, db')
<1> DEFINE a == job[w].agent
<1>1. PICK f : f.critic = a /\ f.sub = Elite(a.gen, {}) /\ db'.finds = db.finds \union {f}
    BY DEF Hears
<1>2. a \in CriticsOf(a.gen) /\ Findings(db, a) = {} BY DEF Hears
<1>3. /\ db'.gens = db.gens /\ db'.cands = db.cands /\ db'.verdict = db.verdict
      /\ db'.survivors = db.survivors /\ db'.parent = db.parent
    BY DEF Hears
<1> HIDE DEF a
<1>4. FindingsFit(db') BY <1>1, <1>2 DEF Record, FindingsFit, Findings
<1>5. \A g : Heard(db, g) => Heard(db', g) /\ Ruling(db', g) = Ruling(db, g)
    BY <1>1, <1>4, RulingStands
<1>6. Stands(db, db') BY <1>1, <1>3 DEF Stands
<1>7. CandidatesFit(db') BY <1>3, <1>5 DEF Record, CandidatesFit
<1>8. VerdictsFit(db') BY <1>3, <1>5 DEF Record, VerdictsFit
<1> QED BY <1>3, <1>4, <1>6, <1>7, <1>8, LineageKeeps DEF Record

LEMMA OpensKeep ==
  ASSUME RunInv, Record(db), NEW w \in Workers, Opens(w)
  PROVE  Record(db') /\ Stands(db, db')
<1> DEFINE g == job[w].gen
<1>1. /\ CriticCount > 0 /\ g \in Generations
      /\ db'.gens = db.gens /\ db'.finds = db.finds /\ db'.verdict = db.verdict
      /\ db'.survivors = db.survivors /\ db'.parent = db.parent
    BY RunCreateAssumption DEF Opens
<1>2. (Unattacked(db, g) /\ db'.cands = Opening(g)) \/ db'.cands = db.cands BY DEF Opens
<1> HIDE DEF g
<1>3. CASE db'.cands = db.cands BY <1>1, <1>3, SameFits DEF SameRecord
<1>4. CASE Unattacked(db, g) /\ db'.cands = Opening(g)
  <2>1. \A s \in Researchers(g) : db.cands[s] = "ABSENT" BY <1>4 DEF Unattacked
  <2>2. FindingsFit(db') BY <1>1 DEF Record, FindingsFit
  <2>3. \A h : Heard(db', h) = Heard(db, h) /\ Ruling(db', h) = Ruling(db, h)
      BY <1>1 DEF Heard, Ruling
  <2>4. \A s \in Submissions :
          /\ s \notin Researchers(g) => db'.cands[s] = db.cands[s]
          /\ s \in Researchers(g) =>
               db'.cands[s] = IF s = Elite(g, {}) THEN "UNDER_ATTACK"
                              ELSE IF s \in Selected(g, {}) THEN "PROMISING" ELSE "PROPOSED"
      BY <1>4 DEF Opening
  <2>5. \A s \in Researchers(g) : s.gen = g BY ResearcherParts
  <2>6. CandidatesFit(db') BY <1>1, <2>1, <2>3, <2>4, <2>5 DEF Record, CandidatesFit
  <2>7. VerdictsFit(db')
    <3>1. \A s \in Submissions : db'.cands[s] = "VERIFIED" => db.cands[s] = "VERIFIED" BY <2>4
    <3> QED BY <1>1, <2>3, <3>1 DEF Record, VerdictsFit
  <2>8. Stands(db, db') BY <1>1, <2>1, <2>4 DEF Stands, Decided
  <2> QED BY <1>1, <2>2, <2>6, <2>7, <2>8, LineageKeeps DEF Record
<1> QED BY <1>2, <1>3, <1>4

LEMMA ReadsRecord ==
  ASSUME RunInv, RecordInv, NEW w \in Workers, view[w] # None, NEW v \in Reads(w)
  PROVE  /\ v \in Database /\ Record(v) /\ Stands(v, db) /\ CriticsFit(v)
         /\ \A g \in Generations : job[w] = FinalizeJob(g) => Settled(v, g) /\ Settled(db, g)
<1>1. v \in Database BY ReadsFit
<1>2. Record(view[w]) /\ Stands(view[w], db) /\ CriticsFirst(job[w], view[w]) /\ Record(db)
    BY DEF RecordInv
<1>3. ASSUME NEW g \in Generations, job[w] = FinalizeJob(g)
      PROVE  Settled(view[w], g) /\ Settled(db, g)
  <2>1. Settled(view[w], g) BY <1>2, <1>3 DEF CriticsFirst, FinalizeJob, Job
  <2> QED BY <1>2, <2>1, SettledStands DEF Record
<1>4. CASE v = view[w] BY <1>1, <1>2, <1>3, <1>4 DEF RecordInv
<1>5. CASE v = [db EXCEPT !.status = view[w].status]
  <2>0. CriticsFit(v)
    <3>1. v.agents = db.agents /\ v.finds = db.finds /\ v.cands = db.cands
        BY <1>5 DEF RunInv, Database
    <3> QED BY <3>1 DEF RecordInv, CriticsFit, Here, Findings
  <2>1. SameRecord(db, v) /\ SameRecord(v, db) BY <1>5 DEF SameRecord, RunInv, Database
  <2>2. Record(v) /\ \A g : Settled(db, g) => Settled(v, g) BY <1>2, <2>1, SameFits
  <2>3. Stands(v, db) BY <2>1, <2>2, SameFits
  <2> QED BY <1>1, <1>3, <2>0, <2>2, <2>3
<1> QED BY <1>4, <1>5 DEF Reads

\* The critic stage ends, maybe for the second time.
LEMMA ClosesKeep ==
  ASSUME RunInv, RecordInv, NEW w \in Workers, Closes(w)
  PROVE  Record(db') /\ Stands(db, db') /\ Settled(db', job[w].gen)
<1> DEFINE g == job[w].gen
           s == Elite(g, {})
<1>1. view[w] # None /\ CriticCount > 0 /\ g \in Generations BY RunCreateAssumption DEF Closes
<1>2. PICK r \in Reads(w) : \E f \in {r, Now(w)} :
        /\ FirstCritics(g) \subseteq Here(r) /\ Pending(r, g) = {}
        /\ Cardinality(Answers(f, g)) = CriticCount
        /\ \E seen \in {f, db} : db' = CandidateUpdates(db, seen, s, Outcome(f, g))
    BY DEF Closes
<1>20. PICK v \in {r, Now(w)} :
        /\ Cardinality(Answers(v, g)) = CriticCount
        /\ \E seen \in {v, db} : db' = CandidateUpdates(db, seen, s, Outcome(v, g))
    BY <1>2
<1>21. r \in Reads(w) /\ v \in Reads(w) BY <1>20 DEF Reads, Now
<1>4. /\ Record(v) /\ Stands(v, db) /\ Record(db) /\ db \in Database
      /\ CriticsFit(r) /\ Stands(r, db)
    BY <1>1, <1>21, ReadsRecord DEF RecordInv, RunInv
<1>5. s \in Submissions /\ s.gen = g BY <1>1, EliteParts
<1>6. Heard(v, g) /\ Outcome(v, g) = Ruling(v, g)
  <2>1. r.finds \subseteq v.finds
    <3>1. Now(w).finds = db.finds BY <1>4, NowIsNow
    <3> QED BY <1>4, <1>20, <3>1 DEF Stands
  <2>2. FindingsFit(v) BY <1>4 DEF Record
  <2>3. IsFiniteSet(Answers(v, g)) BY <2>2, FewAnswers
  <2> QED BY <1>1, <1>2, <1>4, <1>20, <2>1, <2>2, <2>3, HeardWhenAll
<1>3. PICK seen \in {v, db} : db' = CandidateUpdates(db, seen, s, Ruling(v, g)) BY <1>6, <1>20
<1>7. Heard(db, g) /\ Ruling(db, g) = Ruling(v, g) BY <1>4, <1>6, RulingStands DEF Record, Stands
<1>8. Ruling(v, g) \in {"REFUTED", "VERIFICATION"} BY DEF Ruling
<1>9. Ruling(v, g) \in CandidateStatus BY <1>8 DEF CandidateStatus
<1> HIDE DEF g, s
<1>10. /\ db'.gens = db.gens /\ db'.finds = db.finds /\ db'.verdict = db.verdict
       /\ db'.survivors = db.survivors /\ db'.parent = db.parent
    BY <1>3, <1>4, <1>5, <1>9, CandidateUpdatesKeep DEF Keeps
<1>11. \A t \in Submissions :
         db'.cands[t] = IF t = s /\ seen.cands[s] # Ruling(v, g) THEN Ruling(v, g) ELSE db.cands[t]
    BY <1>3, <1>4, <1>5, <1>9, CandidateUpdatesTo
<1>12. \A h : Heard(db', h) = Heard(db, h) /\ Ruling(db', h) = Ruling(db, h)
    BY <1>10 DEF Heard, Ruling
<1>13. g + 1 < MaxGenerations => db'.cands[s] = Ruling(v, g)
  <2>1. CASE seen = db \/ seen.cands[s] # Ruling(v, g) BY <1>5, <1>11, <2>1
  <2>2. ASSUME g + 1 < MaxGenerations, seen = v, v.cands[s] = Ruling(v, g)
        PROVE  db'.cands[s] = Ruling(v, g)
    <3>1. Decided(s, v.cands[s]) BY <1>5, <1>8, <2>2 DEF Decided, s
    <3>2. db.cands[s] = v.cands[s] BY <1>4, <1>5, <3>1 DEF Stands
    <3> QED BY <1>5, <1>11, <2>2, <3>2
  <2> QED BY <2>1, <2>2
<1>14. FindingsFit(db') BY <1>4, <1>10 DEF Record, FindingsFit
<1>15. CandidatesFit(db')
  <2> SUFFICES ASSUME NEW t \in Submissions, t.gen + 1 < MaxGenerations
               PROVE  /\ db'.cands[t] # "ABSENT" => CriticCount > 0
                      /\ t # Elite(t.gen, {}) => db'.cands[t] \in {"ABSENT", "PROMISING", "PROPOSED"}
                      /\ t = Elite(t.gen, {}) =>
                           \/ db'.cands[t] \in {"ABSENT", "UNDER_ATTACK"}
                           \/ Heard(db', t.gen) /\ db'.cands[t] = Ruling(db', t.gen)
      BY DEF CandidatesFit
  <2>1. CASE t = s BY <1>1, <1>5, <1>7, <1>12, <1>13, <2>1 DEF s
  <2>2. CASE t # s BY <1>1, <1>4, <1>11, <1>12, <2>2 DEF Record, CandidatesFit
  <2> QED BY <2>1, <2>2
<1>16. VerdictsFit(db')
  <2>1. \A t \in Submissions : db'.cands[t] = "VERIFIED" => db.cands[t] = "VERIFIED" BY <1>8, <1>11
  <2> QED BY <1>4, <1>10, <1>12, <2>1 DEF Record, VerdictsFit
<1>17. Stands(db, db')
  <2>1. ASSUME NEW t \in Submissions, Decided(t, db.cands[t]) PROVE db'.cands[t] = db.cands[t]
    <3>1. CASE t # s BY <1>11, <3>1
    <3>2. CASE t = s
      <4>1. g + 1 < MaxGenerations /\ db.cands[s] \notin {"ABSENT", "UNDER_ATTACK"}
          BY <1>5, <2>1, <3>2 DEF Decided
      <4>2. db.cands[s] = Ruling(db, g)
          BY <1>4, <1>5, <4>1 DEF Record, CandidatesFit, s
      <4> QED BY <1>7, <1>13, <3>2, <4>1, <4>2
    <3> QED BY <3>1, <3>2
  <2> QED BY <1>10, <2>1 DEF Stands
<1>18. Settled(db', g) BY <1>7, <1>12, <1>13 DEF Settled, s
<1> QED BY <1>4, <1>10, <1>14, <1>15, <1>16, <1>17, <1>18, LineageKeeps DEF Record, g

LEMMA PassedAttack ==
  ASSUME NEW v, NEW s, NEW verdict \in VerdictsOn(v, s), verdict = "PASSED"
  PROVE  AdversarialCheck(v, s) = "PASSED"
BY DEF VerdictsOn, OverallStatus

\* The last generation is judged to have a best branch, and its verdict is
\* passed where all critics have answered and none with a fatal error.
LEMMA PassedIsHeard ==
  ASSUME NEW v, FindingsFit(v), NEW g \in Generations, NEW s \in Researchers(g),
         Settled(v, g), "PASSED" \in VerdictsOn(v, s)
  PROVE  s = Elite(g, {}) /\ CriticCount > 0 /\ Heard(v, g) /\ Ruling(v, g) = "VERIFICATION"
<1>3. AdversarialCheck(v, s) = "PASSED" BY PassedAttack
<1> DEFINE found == {f \in v.finds : f.sub = s}
<1>4. found # {} /\ \A f \in found : ~f.fatal BY <1>3 DEF AdversarialCheck
<1>5. PICK f \in v.finds : f.sub = s BY <1>4
<1>6. f.critic \in CriticsOf(f.critic.gen) /\ s = Elite(f.critic.gen, {}) BY <1>5 DEF FindingsFit
<1>7. f.critic.gen = g BY <1>6, EliteIsBest, ResearcherParts
<1>8. CriticCount > 0 BY <1>6, CriticParts, RunCreateAssumption
<1>9. ASSUME NEW h \in v.finds, h.critic \in CriticsOf(g) PROVE ~h.fatal
  <2>1. h.critic.gen = g BY <1>9, CriticParts
  <2>2. h.sub = s BY <1>6, <1>7, <2>1 DEF FindingsFit
  <2> QED BY <1>4, <2>2
<1>10. Ruling(v, g) = "VERIFICATION" BY <1>9, FirstCriticParts DEF Ruling
<1> QED BY <1>6, <1>7, <1>8, <1>10 DEF Settled

\* What finalize_run may do to the best branch of the last generation.
LEMMA VerdictGiven ==
  ASSUME RunInv, RecordInv, NEW w \in Workers, Completes(w)
  PROVE  \E v \in Reads(w) : \E s \in Researchers(job[w].gen) :
           /\ \A t \in Submissions \ {s} :
                db'.cands[t] = db.cands[t] /\ db'.verdict[t] = db.verdict[t]
           /\ db.verdict[s] # "NONE" => db'.verdict[s] = db.verdict[s]
           /\ db'.verdict[s] = "PASSED" => db.verdict[s] = "PASSED" \/ "PASSED" \in VerdictsOn(v, s)
           /\ db'.cands[s] = "VERIFIED" => db'.verdict[s] = "PASSED"
<1> DEFINE g == job[w].gen
<1>1. view[w] # None /\ g \in Generations /\ db \in Database BY DEF Completes, RunInv
<1>2. PICK v \in Reads(w) :
       \/ db'.cands = Staged(v, g).cands /\ db'.verdict = db.verdict
       \/ /\ v.verdict[Target(v, g)] = "NONE" => db.verdict[Target(v, g)] = "NONE"
          /\ \E verdict \in IF v.verdict[Target(v, g)] = "NONE" THEN VerdictsOn(v, Target(v, g))
                            ELSE {v.verdict[Target(v, g)]} :
               /\ db'.verdict = [db.verdict EXCEPT ![Target(v, g)] = verdict]
               /\ \E seen \in IF Proposed(v, g) THEN {Staged(v, g)} ELSE {v, db} :
                    \A t \in Submissions :
                      db'.cands[t] =
                        IF t = Target(v, g) /\ seen.cands[t] # CandidateAfter[verdict]
                        THEN CandidateAfter[verdict] ELSE Staged(v, g).cands[t]
    BY Zenon DEF Completes
<1> DEFINE s == Target(v, g)
<1>3. v \in Database /\ Record(v) /\ Stands(v, db) /\ Record(db) BY <1>1, ReadsRecord DEF RecordInv
<1>4. /\ s \in Submissions /\ s \in Researchers(g)
      /\ \A t \in Submissions :
           Staged(v, g).cands[t] = IF t = s /\ Proposed(v, g) THEN "VERIFICATION" ELSE db.cands[t]
    BY <1>1, <1>3, JudgementKeeps
<1>5. db.cands[s] = "VERIFIED" => db.verdict[s] = "PASSED" BY <1>3, <1>4 DEF Record, VerdictsFit
<1> HIDE DEF g
<1>6. ASSUME db'.cands = Staged(v, g).cands, db'.verdict = db.verdict
      PROVE  /\ \A t \in Submissions \ {s} :
                  db'.cands[t] = db.cands[t] /\ db'.verdict[t] = db.verdict[t]
             /\ db.verdict[s] # "NONE" => db'.verdict[s] = db.verdict[s]
             /\ db'.verdict[s] = "PASSED" => db.verdict[s] = "PASSED" \/ "PASSED" \in VerdictsOn(v, s)
             /\ db'.cands[s] = "VERIFIED" => db'.verdict[s] = "PASSED"
  <2> HIDE DEF s
  <2> QED BY <1>4, <1>5, <1>6 DEF g
<1>7. ASSUME v.verdict[s] = "NONE" => db.verdict[s] = "NONE",
             NEW verdict \in IF v.verdict[s] = "NONE" THEN VerdictsOn(v, s) ELSE {v.verdict[s]},
             db'.verdict = [db.verdict EXCEPT ![s] = verdict], NEW seen,
             \A t \in Submissions :
               db'.cands[t] = IF t = s /\ seen.cands[t] # CandidateAfter[verdict]
                              THEN CandidateAfter[verdict] ELSE Staged(v, g).cands[t]
      PROVE  /\ \A t \in Submissions \ {s} :
                  db'.cands[t] = db.cands[t] /\ db'.verdict[t] = db.verdict[t]
             /\ db.verdict[s] # "NONE" => db'.verdict[s] = db.verdict[s]
             /\ db'.verdict[s] = "PASSED" => db.verdict[s] = "PASSED" \/ "PASSED" \in VerdictsOn(v, s)
             /\ db'.cands[s] = "VERIFIED" => db'.verdict[s] = "PASSED"
  <2>1. verdict \in {"PASSED", "FAILED", "INCONCLUSIVE"} BY <1>3, <1>4, <1>7, VerdictsType, Zenon
  <2> HIDE DEF s
  <2>2. db.verdict \in [Submissions -> Verdicts] BY <1>1 DEF Database
  <2>3. db'.verdict[s] = verdict /\ \A t \in Submissions \ {s} : db'.verdict[t] = db.verdict[t]
      BY <1>4, <1>7, <2>2
  <2>4. v.verdict[s] # "NONE" => verdict = v.verdict[s] /\ db.verdict[s] = v.verdict[s]
      BY <1>3, <1>4, <1>7 DEF Stands
  <2>5. \A t \in Submissions \ {s} : db'.cands[t] = db.cands[t] BY <1>4, <1>7
  <2>6. db.verdict[s] # "NONE" => db'.verdict[s] = db.verdict[s] BY <1>7, <2>3, <2>4
  <2>7. db'.verdict[s] = "PASSED" => db.verdict[s] = "PASSED" \/ "PASSED" \in VerdictsOn(v, s)
      BY <1>7, <2>3, <2>4
  <2>8. CandidateAfter[verdict] = "VERIFIED" => verdict = "PASSED" BY <2>1 DEF CandidateAfter
  <2>9. ASSUME db'.cands[s] = "VERIFIED" PROVE db'.verdict[s] = "PASSED"
    <3>1. CandidateAfter[verdict] = "VERIFIED" \/ db.cands[s] = "VERIFIED" BY <1>4, <1>7, <2>9
    <3> QED BY <1>5, <2>3, <2>6, <2>8, <3>1
  <2> QED BY <2>3, <2>5, <2>6, <2>7, <2>9
<1>8. \/ db'.cands = Staged(v, g).cands /\ db'.verdict = db.verdict
      \/ /\ v.verdict[s] = "NONE" => db.verdict[s] = "NONE"
         /\ \E verdict \in IF v.verdict[s] = "NONE" THEN VerdictsOn(v, s) ELSE {v.verdict[s]} :
              /\ db'.verdict = [db.verdict EXCEPT ![s] = verdict]
              /\ \E seen \in IF Proposed(v, g) THEN {Staged(v, g)} ELSE {v, db} :
                   \A t \in Submissions :
                     db'.cands[t] = IF t = s /\ seen.cands[t] # CandidateAfter[verdict]
                                    THEN CandidateAfter[verdict] ELSE Staged(v, g).cands[t]
    BY <1>2, Zenon DEF g
<1> HIDE DEF s
<1>9. /\ \A t \in Submissions \ {s} :
           db'.cands[t] = db.cands[t] /\ db'.verdict[t] = db.verdict[t]
      /\ db.verdict[s] # "NONE" => db'.verdict[s] = db.verdict[s]
      /\ db'.verdict[s] = "PASSED" => db.verdict[s] = "PASSED" \/ "PASSED" \in VerdictsOn(v, s)
      /\ db'.cands[s] = "VERIFIED" => db'.verdict[s] = "PASSED"
  <2>1. CASE db'.cands = Staged(v, g).cands /\ db'.verdict = db.verdict BY <1>6, <2>1
  <2>2. CASE /\ v.verdict[s] = "NONE" => db.verdict[s] = "NONE"
             /\ \E verdict \in IF v.verdict[s] = "NONE" THEN VerdictsOn(v, s) ELSE {v.verdict[s]} :
                  /\ db'.verdict = [db.verdict EXCEPT ![s] = verdict]
                  /\ \E seen \in IF Proposed(v, g) THEN {Staged(v, g)} ELSE {v, db} :
                       \A t \in Submissions :
                         db'.cands[t] = IF t = s /\ seen.cands[t] # CandidateAfter[verdict]
                                        THEN CandidateAfter[verdict] ELSE Staged(v, g).cands[t]
    <3>1. PICK verdict \in IF v.verdict[s] = "NONE" THEN VerdictsOn(v, s) ELSE {v.verdict[s]} :
            /\ db'.verdict = [db.verdict EXCEPT ![s] = verdict]
            /\ \E seen : \A t \in Submissions :
                 db'.cands[t] = IF t = s /\ seen.cands[t] # CandidateAfter[verdict]
                                THEN CandidateAfter[verdict] ELSE Staged(v, g).cands[t]
        BY <2>2
    <3>2. PICK seen : \A t \in Submissions :
            db'.cands[t] = IF t = s /\ seen.cands[t] # CandidateAfter[verdict]
                           THEN CandidateAfter[verdict] ELSE Staged(v, g).cands[t]
        BY <3>1, Zenon
    <3> QED BY <1>7, <2>2, <3>1, <3>2
  <2> QED BY <1>8, <2>1, <2>2, Zenon
<1> QED BY <1>4, <1>9 DEF g

LEMMA CompletesKeep ==
  ASSUME RunInv, RecordInv, NEW w \in Workers, Completes(w)
  PROVE  Record(db') /\ Stands(db, db')
<1> DEFINE g == job[w].gen
<1>1. /\ view[w] # None /\ g \in Generations /\ g + 1 = MaxGenerations /\ job[w] = FinalizeJob(g)
      /\ db'.gens = db.gens /\ db'.finds = db.finds
      /\ db'.survivors = db.survivors /\ db'.parent = db.parent
    BY DEF Completes
<1>2. PICK v \in Reads(w) : \E s \in Researchers(g) :
        /\ \A t \in Submissions \ {s} :
             db'.cands[t] = db.cands[t] /\ db'.verdict[t] = db.verdict[t]
        /\ db.verdict[s] # "NONE" => db'.verdict[s] = db.verdict[s]
        /\ db'.verdict[s] = "PASSED" => db.verdict[s] = "PASSED" \/ "PASSED" \in VerdictsOn(v, s)
        /\ db'.cands[s] = "VERIFIED" => db'.verdict[s] = "PASSED"
    BY VerdictGiven
<1>3. PICK s \in Researchers(g) :
        /\ \A t \in Submissions \ {s} :
             db'.cands[t] = db.cands[t] /\ db'.verdict[t] = db.verdict[t]
        /\ db.verdict[s] # "NONE" => db'.verdict[s] = db.verdict[s]
        /\ db'.verdict[s] = "PASSED" => db.verdict[s] = "PASSED" \/ "PASSED" \in VerdictsOn(v, s)
        /\ db'.cands[s] = "VERIFIED" => db'.verdict[s] = "PASSED"
    BY <1>2
<1>4. Record(v) /\ Stands(v, db) /\ Settled(v, g) /\ Record(db) BY <1>1, ReadsRecord DEF RecordInv
<1>5. s \in Submissions /\ s.gen = g BY <1>1, AgentSets, ResearcherParts
<1> HIDE DEF g
<1>6. \A h : Heard(db', h) = Heard(db, h) /\ Ruling(db', h) = Ruling(db, h)
    BY <1>1 DEF Heard, Ruling
<1>7. FindingsFit(db') BY <1>1, <1>4 DEF Record, FindingsFit
<1>8. \A t \in Submissions : t.gen + 1 < MaxGenerations => db'.cands[t] = db.cands[t]
    BY <1>1, <1>3, <1>5, RunCreateAssumption
<1>9. CandidatesFit(db') BY <1>4, <1>6, <1>8 DEF Record, CandidatesFit
<1>10. VerdictsFit(db')
  <2>1. ASSUME db'.verdict[s] = "PASSED"
        PROVE  /\ s = Elite(s.gen, {}) /\ CriticCount > 0
               /\ Heard(db', s.gen) /\ Ruling(db', s.gen) = "VERIFICATION"
    <3>1. CASE db.verdict[s] = "PASSED" BY <1>4, <1>5, <1>6, <3>1 DEF Record, VerdictsFit
    <3>2. CASE "PASSED" \in VerdictsOn(v, s)
      <4>1. s = Elite(g, {}) /\ CriticCount > 0 /\ Heard(v, g) /\ Ruling(v, g) = "VERIFICATION"
          BY <1>1, <1>4, <3>2, PassedIsHeard DEF Record
      <4>2. Heard(db, g) /\ Ruling(db, g) = "VERIFICATION"
          BY <1>4, <4>1, RulingStands DEF Record, Stands
      <4> QED BY <1>5, <1>6, <4>1, <4>2
    <3> QED BY <1>3, <2>1, <3>1, <3>2
  <2>2. ASSUME NEW t \in Submissions, t # s
        PROVE  /\ db'.verdict[t] = "PASSED" =>
                    /\ t = Elite(t.gen, {}) /\ CriticCount > 0
                    /\ Heard(db', t.gen) /\ Ruling(db', t.gen) = "VERIFICATION"
               /\ db'.cands[t] = "VERIFIED" => db'.verdict[t] = "PASSED"
    <3>1. db'.cands[t] = db.cands[t] /\ db'.verdict[t] = db.verdict[t] BY <1>3, <2>2
    <3> QED BY <1>4, <1>6, <3>1 DEF Record, VerdictsFit
  <2> QED BY <1>3, <2>1, <2>2 DEF VerdictsFit
<1>11. Stands(db, db')
  <2>1. \A t \in Submissions : db.verdict[t] # "NONE" => db'.verdict[t] = db.verdict[t] BY <1>3
  <2>2. \A t \in Submissions : Decided(t, db.cands[t]) => db'.cands[t] = db.cands[t]
      BY <1>8 DEF Decided
  <2> QED BY <1>1, <2>1, <2>2 DEF Stands
<1> QED BY <1>1, <1>4, <1>7, <1>9, <1>10, <1>11, LineageKeeps DEF Record

\* A selection made from a reading is still viable when it is recorded.
LEMMA SelectedStands ==
  ASSUME RunInv, RecordInv, NEW w \in Workers, view[w] # None, NEW v \in Reads(w),
         NEW g \in Generations, job[w] = FinalizeJob(g), IsLatest(v, g), g + 1 < MaxGenerations,
         NEW selected \in Selections(v, g)
  PROVE  /\ selected \in Seq(Submissions) /\ Len(selected) > 0
         /\ \A i \in 1..Len(selected) :
              selected[i] \in Viable(g, Refuted(db, g)) /\ selected[i].gen = g
<1>1. /\ v \in Database /\ Record(v) /\ Stands(v, db) /\ Settled(v, g) /\ Record(db)
    BY ReadsRecord DEF RecordInv
<1>2. g + 1 >= v.gens BY <1>1, GensType, GenerationsType DEF IsLatest, Latest
<1>3. v.survivors[g] = <<>> BY <1>1, <1>2 DEF Record, LineageFits
<1>4. selected \in ByRank(Selected(g, Refuted(v, g)), Refuted(v, g)) BY <1>3 DEF Selections
<1>5. /\ selected \in Seq(Submissions) /\ Len(selected) > 0
      /\ \A i \in 1..Len(selected) : selected[i] \in Selected(g, Refuted(v, g))
    BY <1>4, RankingType
<1>6. Refuted(db, g) = Refuted(v, g) BY <1>1, RefutedStands DEF Record
<1>7. \A s \in Selected(g, Refuted(v, g)) : s \in Viable(g, Refuted(db, g)) /\ s.gen = g
    BY <1>6, SelectedAreViable, ResearcherParts
<1> QED BY <1>5, <1>7

LEMMA ClonesParts ==
  ASSUME NEW g \in Generations, g + 1 \in Generations, NEW a \in Submissions
  PROVE  a \in Clones(g + 1) <=> (a.gen = g + 1 /\ a.index <= Population - FreshCount)
BY SubmissionParts, ResearcherParts DEF Clones

LEMMA AdvancesKeep ==
  ASSUME RunInv, RecordInv, NEW w \in Workers, Advances(w)
  PROVE  Record(db') /\ Stands(db, db')
<1> DEFINE g == job[w].gen
<1>1. /\ view[w] # None /\ job[w] = FinalizeJob(g) /\ g \in Generations
      /\ g + 1 = db.gens /\ g + 1 < MaxGenerations
    BY DEF Advances
<1>2. PICK v \in Reads(w) : IsLatest(v, g) /\ \E selected \in Selections(v, g) :
        /\ db'.gens = db.gens + 1
        /\ db'.finds = db.finds /\ db'.cands = db.cands /\ db'.verdict = db.verdict
        /\ db'.survivors = [db.survivors EXCEPT ![g] = selected]
        /\ db'.parent = Parents(g, selected)
    BY DEF Advances
<1>3. PICK selected \in Selections(v, g) :
        /\ db'.gens = db.gens + 1
        /\ db'.finds = db.finds /\ db'.cands = db.cands /\ db'.verdict = db.verdict
        /\ db'.survivors = [db.survivors EXCEPT ![g] = selected]
        /\ db'.parent = Parents(g, selected)
    BY <1>2
<1>4. /\ selected \in Seq(Submissions) /\ Len(selected) > 0
      /\ \A i \in 1..Len(selected) :
           selected[i] \in Viable(g, Refuted(db, g)) /\ selected[i].gen = g
    BY <1>1, <1>2, SelectedStands
<1>5. Record(db) /\ Settled(db, g) BY <1>1, <1>2, ReadsRecord DEF RecordInv
<1>6. db \in Database /\ g \in Nat /\ MaxGenerations \in Nat /\ g + 1 \in Generations
    BY <1>1, GenerationsType, RunCreateAssumption DEF RunInv, Generations
<1> HIDE DEF g
<1>7. \A h : /\ Heard(db', h) = Heard(db, h) /\ Ruling(db', h) = Ruling(db, h)
             /\ Refuted(db', h) = Refuted(db, h)
    BY <1>3 DEF Heard, Ruling, Refuted
<1>8. FindingsFit(db') BY <1>3, <1>5 DEF Record, FindingsFit
<1>9. CandidatesFit(db') BY <1>3, <1>5, <1>7 DEF Record, CandidatesFit
<1>10. VerdictsFit(db') BY <1>3, <1>5, <1>7 DEF Record, VerdictsFit
<1>11. Stands(db, db') BY <1>3 DEF Stands
<1>12. LeftBehindFit(db')
  <2> SUFFICES ASSUME NEW h \in Generations, h + 1 < db'.gens PROVE Settled(db', h)
      BY DEF LeftBehindFit
  <2>1. h = g \/ h + 1 < db.gens BY <1>1, <1>3, <1>6, GenerationsType
  <2>2. Settled(db, h) BY <1>5, <2>1 DEF Record, LeftBehindFit
  <2> QED BY <1>8, <1>11, <2>2, SettledStands
<1>13. db.survivors \in [Generations -> Seq(Submissions)] BY <1>6 DEF Database
<1>14. LineageFits(db')
  <2>1. ASSUME NEW h \in Generations, h + 1 >= db'.gens PROVE db'.survivors[h] = <<>>
    <3>1. h # g /\ h + 1 >= db.gens BY <1>1, <1>3, <1>6, <2>1, GenerationsType
    <3> QED BY <1>3, <1>5, <1>13, <3>1 DEF Record, LineageFits
  <2>2. ASSUME NEW a \in Submissions
        PROVE  LET p == db'.parent[a] IN
               /\ p # None <=> (a.gen \in 1..Latest(db') /\ a.index <= Population - FreshCount)
               /\ p # None =>
                    /\ p.gen = a.gen - 1
                    /\ \E i \in DOMAIN db'.survivors[p.gen] : db'.survivors[p.gen][i] = p
                    /\ p \in Viable(p.gen, Refuted(db', p.gen))
    <3> DEFINE p == db'.parent[a]
    <3>1. a \in Clones(g + 1) <=> (a.gen = g + 1 /\ a.index <= Population - FreshCount)
        BY <1>1, <1>6, ClonesParts
    <3>2. Latest(db') = g + 1 /\ Latest(db) = g BY <1>1, <1>3, <1>6 DEF Latest
    <3>3. a.gen \in Nat BY SubmissionParts, GenerationsType
    <3>4. CASE a \in Clones(g + 1)
      <4>1. PICK i \in 1..Len(selected) : p = selected[i]
          BY <1>1, <1>3, <1>4, <1>6, <3>4, ParentsType
      <4>2. p \in Viable(g, Refuted(db, g)) /\ p.gen = g BY <1>4, <4>1
      <4>3. p \in Submissions BY <1>4, <4>1
      <4>4. p # None BY <4>3, SubmissionParts, NoneAssumption
      <4>5. db'.survivors[g] = selected BY <1>1, <1>3, <1>13
      <4>6. i \in DOMAIN selected BY <1>4, <4>1
      <4> HIDE DEF p
      <4>7. a.gen \in 1..Latest(db') /\ p.gen = a.gen - 1 BY <1>6, <3>1, <3>2, <3>4, <4>2
      <4> QED BY <1>7, <3>1, <3>4, <4>1, <4>2, <4>4, <4>5, <4>6, <4>7 DEF p
    <3>5. CASE a \notin Clones(g + 1)
      <4>1. p = db.parent[a] BY <1>3, <3>5 DEF Parents
      <4>2. /\ p # None <=> (a.gen \in 1..g /\ a.index <= Population - FreshCount)
            /\ p # None =>
                 /\ p.gen = a.gen - 1
                 /\ \E i \in DOMAIN db.survivors[p.gen] : db.survivors[p.gen][i] = p
                 /\ p \in Viable(p.gen, Refuted(db, p.gen))
          BY <1>5, <3>2, <4>1 DEF Record, LineageFits
      <4> HIDE DEF p
      <4>3. p # None <=> (a.gen \in 1..g + 1 /\ a.index <= Population - FreshCount)
          BY <1>6, <3>1, <3>3, <3>5, <4>2
      <4>4. ASSUME p # None
            PROVE  /\ p.gen = a.gen - 1
                   /\ \E i \in DOMAIN db'.survivors[p.gen] : db'.survivors[p.gen][i] = p
                   /\ p \in Viable(p.gen, Refuted(db', p.gen))
        <5>1. p.gen # g BY <1>6, <3>3, <4>2, <4>4
        <5>2. p.gen \in Generations
          <6>1. p \in Submissions BY <1>6, <4>1, <4>4 DEF Database
          <6> QED BY <6>1, SubmissionParts
        <5>3. db'.survivors[p.gen] = db.survivors[p.gen] BY <1>3, <1>13, <5>1, <5>2
        <5> QED BY <1>7, <4>2, <4>4, <5>3
      <4> QED BY <3>2, <4>3, <4>4 DEF p
    <3> QED BY <3>4, <3>5
  <2> QED BY <2>1, <2>2 DEF LineageFits
<1> QED BY <1>8, <1>9, <1>10, <1>11, <1>12, <1>14 DEF Record

-----------------------------------------------------------------------------
(* Critics that have completed have answered, and there are no candidates   *)
(* before the first critics.                                                *)

\* No step completes a critic that has not answered.
CriticsAnswer == \A a \in Agents :
  (a.role = "critic" /\ db'.agents[a] = "COMPLETED") =>
    db.agents[a] = "COMPLETED" \/ Findings(db', a) # {}

\* A run status update goes through or raises.
LEMMA CommitStatusIs ==
  ASSUME NEW w \in Workers, NEW new, NEW target, NEW where, NEW keys,
         CommitStatus(w, new, target, where, keys)
  PROVE  Raise(w) \/ Commit(w, [new EXCEPT !.status = target], where, keys)
BY DEF CommitStatus

LEMMA SpawnedAnswers ==
  ASSUME NEW e \in Database, e.agents = db.agents \/ \E new : e.agents = Spawned(db.agents, new),
         db' = e \/ \E status \in RunStatus : db' = [e EXCEPT !.status = status]
  PROVE  CriticsAnswer
<1>1. CASE db' = e BY <1>1 DEF CriticsAnswer, Spawned
<1>2. ASSUME NEW status \in RunStatus, db' = [e EXCEPT !.status = status] PROVE CriticsAnswer
  <2>1. db'.agents = e.agents BY <1>2, StatusApart
  <2> QED BY <2>1 DEF CriticsAnswer, Spawned
<1> QED BY <1>1, <1>2

LEMMA CommitAnswers ==
  ASSUME NEW w \in Workers, NEW e \in Database,
         e.agents = db.agents \/ \E new : e.agents = Spawned(db.agents, new),
         NEW target \in RunStatus, NEW where, NEW keys,
         CommitStatus(w, e, target, where, keys) \/ Commit(w, e, where, keys)
  PROVE  CriticsAnswer
<1>1. \/ Raise(w)
      \/ Commit(w, [e EXCEPT !.status = target], where, keys) \/ Commit(w, e, where, keys)
    BY CommitStatusIs
<1>2. CASE Raise(w) BY <1>2 DEF Raise, Return, CriticsAnswer
<1>3. CASE Commit(w, [e EXCEPT !.status = target], where, keys) \/ Commit(w, e, where, keys)
  <2>1. db' = e \/ \E status \in RunStatus : db' = [e EXCEPT !.status = status]
      BY <1>3 DEF Commit
  <2> QED BY <2>1, SpawnedAnswers
<1> QED BY <1>1, <1>2, <1>3

LEMMA StaysAnswers == ASSUME UNCHANGED db PROVE CriticsAnswer BY DEF CriticsAnswer

LEMMA StartRunAnswers ==
  ASSUME RunInv, NEW w \in Workers, StartRun(w)
  PROVE  CriticsAnswer
<1> DEFINE spawned == [db EXCEPT !.gens = 1, !.agents = Spawned(@, Researchers(0))]
<1>1. db \in Database BY DEF RunInv
<1>2. spawned \in Database /\ spawned.agents = Spawned(db.agents, Researchers(0))
  <2>1. Spawned(db.agents, Researchers(0)) \in [Agents -> AgentStatus]
      BY <1>1 DEF Spawned, Database, AgentStatus
  <2>2. 1 \in 0..MaxGenerations BY RunCreateAssumption
  <2> QED BY <1>1, <2>1, <2>2 DEF Database
<1>3. \/ Raise(w)
      \/ \E e \in {db, spawned} : \E where, keys :
           CommitStatus(w, e, "RESEARCHING", where, keys) \/ Commit(w, e, where, keys)
  <2>1. PICK v \in Reads(w) :
          LET new == IF v.gens > 0 THEN db ELSE spawned
              keys == {ResearchJob(a) : a \in Researchers(0)}
          IN  IF v.status = "FAILED" \/ (v.gens = 0 /\ db.gens > 0) THEN Raise(w)
              ELSE IF v.status = "CREATED" THEN CommitStatus(w, new, "RESEARCHING", "enqueue", keys)
              ELSE IF v.status = "COMPLETED" THEN Commit(w, new, "settle", {})
              ELSE Commit(w, new, "enqueue", keys)
      BY DEF StartRun
  <2> DEFINE new == IF v.gens > 0 THEN db ELSE spawned
  <2>2. new \in {db, spawned} OBVIOUS
  <2> HIDE DEF spawned
  <2> QED BY <2>1, <2>2
<1>4. CASE Raise(w) BY <1>4, StaysAnswers DEF Raise, Return
<1> HIDE DEF spawned
<1> QED BY <1>1, <1>2, <1>3, <1>4, CommitAnswers DEF RunStatus

LEMMA StartJudgingAnswers ==
  ASSUME RunInv, NEW w \in Workers, StartJudging(w)
  PROVE  CriticsAnswer
<1>1. db \in Database /\ pc[w] = "judging" /\ view[w] # None BY DEF RunInv, StartJudging, At
<1>2. CASE Return(w, "settle", {}) \/ Raise(w) BY <1>2, StaysAnswers DEF Raise, Return
<1>3. ASSUME NEW v \in Reads(w), ResearchComplete(v, job[w].gen),
             Added(w, v) \subseteq JudgesOf(job[w].gen), NEW where, NEW keys,
             \/ CommitStatus(w, Judging(w, v), "JUDGING", where, keys)
             \/ Commit(w, Judging(w, v), where, keys)
      PROVE  CriticsAnswer
  <2>1. Judging(w, v) \in Database BY <1>1, <1>3, SpawnsTheJudges
  <2>2. Judging(w, v).agents = Spawned(db.agents, Added(w, v)) BY <1>1 DEF Judging, Database
  <2> QED BY <1>3, <2>1, <2>2, CommitAnswers DEF RunStatus
<1> QED BY <1>2, <1>3, StartJudgingEffect

LEMMA ListensAnswers ==
  ASSUME RunInv, NEW w \in Workers, NEW r, NEW f, NEW g \in Generations, Listens(w, r, f, g)
  PROVE  CriticsAnswer
<1>1. CASE \E where, keys : Return(w, where, keys) BY <1>1, StaysAnswers DEF Return
<1>2. ASSUME NEW seen, NEW where, NEW keys,
             Commit(w, CandidateUpdates(db, seen, Elite(g, {}), Outcome(f, g)), where, keys)
      PROVE  CriticsAnswer
  <2>1. db' = CandidateUpdates(db, seen, Elite(g, {}), Outcome(f, g)) BY <1>2 DEF Commit
  <2>2. Elite(g, {}) \in Submissions BY EliteParts
  <2>3. Outcome(f, g) \in CandidateStatus BY DEF Outcome, CandidateStatus
  <2>4. db'.agents = db.agents BY <2>1, <2>2, <2>3, CandidateUpdatesKeep DEF RunInv
  <2> QED BY <2>4 DEF CriticsAnswer
<1> QED BY <1>1, <1>2, Zenon DEF Listens

LEMMA MaybeScheduleFinalizeAnswers ==
  ASSUME RunInv, NEW w \in Workers, MaybeScheduleFinalize(w)
  PROVE  CriticsAnswer
<1> DEFINE g == job[w].gen
<1>1. db \in Database /\ Shape(db) /\ g \in Generations
    BY InsideFits DEF RunInv, Inside, MaybeScheduleFinalize, At
<1>2. PICK v \in Reads(w) : Schedules(w, v, g) BY <1>1, MaybeScheduleFinalizeEffect
<1>3. CASE \E where, keys : Return(w, where, keys) BY <1>3, StaysAnswers DEF Return
<1>4. ASSUME CriticCount # 0, OpensIt(w, v, g) PROVE CriticsAnswer
  <2>1. PICK s : Raise(w) \/ (NewCritics(g) \subseteq CriticsOf(g) /\ Commit(w, Opened(s, g), "opened", {}))
      BY <1>4 DEF OpensIt
  <2>2. CASE Raise(w) BY <2>2, StaysAnswers DEF Raise, Return
  <2>3. CASE NewCritics(g) \subseteq CriticsOf(g) /\ Commit(w, Opened(s, g), "opened", {})
    <3> HIDE DEF g
    <3>1. Opened(s, g) \in Database /\ Opened(s, g).agents = Spawned(db.agents, NewCritics(g))
        BY <1>1, <1>4, <2>3, OpensTheStage
    <3> QED BY <2>3, <3>1, CommitAnswers DEF RunStatus
  <2> QED BY <2>1, <2>2, <2>3
<1>5. ASSUME FindsItOpen(w, v, g) PROVE CriticsAnswer
  <2>1. Return(w, "settle", {}) \/ \E r, h : Listens(w, r, h, g) BY <1>5 DEF FindsItOpen
  <2> HIDE DEF g
  <2> QED BY <1>1, <1>3, <2>1, ListensAnswers
<1> HIDE DEF g
<1> QED BY <1>2, <1>3, <1>4, <1>5, Zenon DEF Schedules

\* finalize_run changes no agent but by breeding.
LEMMA JudgementAgents ==
  ASSUME db \in Database, NEW v \in Database, NEW g \in Generations
  PROVE  /\ Staged(v, g).agents = db.agents
         /\ \A verdict \in {"PASSED", "FAILED", "INCONCLUSIVE"} : \A seen :
              Judgement(v, g, verdict, seen).agents = db.agents
<1>1. Staged(v, g).agents = db.agents BY DEF Staged, Database
<1>2. Staged(v, g) \in Database BY JudgementKeeps
<1>3. ASSUME NEW verdict \in {"PASSED", "FAILED", "INCONCLUSIVE"}, NEW seen
      PROVE  Judgement(v, g, verdict, seen).agents = db.agents
  <2> DEFINE e == Judgement(v, g, verdict, seen)
             f == [Staged(v, g) EXCEPT !.verdict[Target(v, g)] = verdict]
  <2>1. f.agents = db.agents BY <1>1, <1>2 DEF Database
  <2>2. e = CandidateUpdates(f, seen, Target(v, g), CandidateAfter[verdict]) BY DEF Judgement
  <2>3. f \in [DOMAIN f -> {f[x] : x \in DOMAIN f}] /\ "agents" \in DOMAIN f BY <1>2 DEF Database
  <2> HIDE DEF f
  <2> QED BY <2>1, <2>2, <2>3 DEF CandidateUpdates
<1> QED BY <1>1, <1>3

LEMMA FinalizeRunAnswers ==
  ASSUME RunInv, NEW w \in Workers, FinalizeRun(w)
  PROVE  CriticsAnswer
<1> DEFINE g == job[w].gen
<1>1. db \in Database /\ view[w] # None /\ g \in Generations
    BY InsideFits DEF RunInv, FinalizeRun, At, Inside
<1>2. PICK v \in Reads(w) : Finalizes(w, v, g) BY FinalizeRunEffect
<1>3. v \in Database /\ Behind(v, db) BY <1>1, <1>2, ReadsFit
<1> HIDE DEF g
<1>4. /\ Target(v, g) \in Submissions /\ Staged(v, g) \in Database
      /\ \A said \in {"PASSED", "FAILED", "INCONCLUSIVE"} : \A seen :
           Judgement(v, g, said, seen) \in Database
    BY <1>1, <1>3, JudgementKeeps, Zenon
<1>5. CASE \E where, keys : Return(w, where, keys) \/ Raise(w)
    BY <1>5, StaysAnswers DEF Raise, Return
<1>6. CASE CommitStatus(w, Staged(v, g), "COMPLETED", "settle", {})
    BY <1>1, <1>3, <1>4, <1>6, JudgementAgents, CommitAnswers DEF RunStatus
<1>7. ASSUME NEW verdict \in IF v.verdict[Target(v, g)] = "NONE" THEN VerdictsOn(v, Target(v, g))
                             ELSE {v.verdict[Target(v, g)]}, NEW seen,
             CommitStatus(w, Judgement(v, g, verdict, seen), "COMPLETED", "settle", {})
      PROVE  CriticsAnswer
  <2>1. verdict \in {"PASSED", "FAILED", "INCONCLUSIVE"} BY <1>3, <1>4, <1>7, VerdictsType, Zenon
  <2>2. Judgement(v, g, verdict, seen).agents = db.agents
      BY <1>1, <1>3, <2>1, JudgementAgents
  <2>3. Judgement(v, g, verdict, seen) \in Database BY <1>4, <2>1
  <2> QED BY <1>7, <2>2, <2>3, CommitAnswers DEF RunStatus
<1>8. ASSUME IsLatest(v, g), g + 1 # MaxGenerations, ~(v.gens < db.gens),
             NEW selected \in Selections(v, g), NEW keys,
             CommitStatus(w, Bred(g, selected), "RESEARCHING", "enqueue", keys)
      PROVE  CriticsAnswer
  <2>1. selected \in Seq(Submissions) /\ Len(selected) > 0 BY <1>1, <1>3, SelectionType
  <2>2. g \in Nat /\ g + 1 = db.gens
      BY <1>1, <1>3, <1>8, GensType, GenerationsType DEF IsLatest, Latest, Behind
  <2>3. Bred(g, selected) \in Database BY <1>1, <1>8, <2>1, <2>2, BreedsTheNext
  <2>4. Bred(g, selected).agents = Spawned(db.agents, Researchers(g + 1))
      BY <1>1 DEF Bred, Database
  <2> QED BY <1>8, <2>3, <2>4, CommitAnswers DEF RunStatus
<1> QED BY <1>2, <1>5, <1>6, <1>7, <1>8 DEF Finalizes

\* The agent's own handler.
LEMMA BecomesAnswers ==
  ASSUME RunInv, NEW w \in Workers, Inside(w), pc[w] \in {"start", "result"},
         NEW new \in Database, new.agents = db.agents,
         NEW status \in {"RUNNING", "COMPLETED"}, NEW where, Becomes(w, new, status, where),
         \/ status = "RUNNING" \/ job[w].agent.role # "critic"
         \/ Findings(new, job[w].agent) # {}
  PROVE  CriticsAnswer
<1> DEFINE a == job[w].agent
<1>1. PICK seen : db' = AgentUpdates(new, seen, a, status) BY DEF Becomes, Commit
<1>2. a \in Here(new) BY InsideFits DEF Here
<1> HIDE DEF a
<1>3. /\ db'.finds = new.finds
      /\ \A b \in Agents : db'.agents[b] = db.agents[b] \/ (b = a /\ db'.agents[b] = status)
    BY <1>1, <1>2, AgentUpdatesKeep DEF AgentStatus
<1> QED BY <1>3 DEF CriticsAnswer, Findings, a

LEMMA HandlersAnswer ==
  ASSUME RunInv, NEW w \in Workers,
         \/ StartResearch(w) \/ StartJudge(w) \/ StartCritic(w)
         \/ StoreSubmission(w) \/ StoreEvaluations(w) \/ StoreFinding(w)
  PROVE  CriticsAnswer
<1> DEFINE a == job[w].agent
<1>1. pc[w] \in {"start", "result"} /\ Inside(w) /\ view[w] # None
    BY DEF StartResearch, StartJudge, StartCritic, StoreSubmission, StoreEvaluations, StoreFinding,
           At, Inside
<1>2. db \in Database /\ view[w].finds \subseteq db.finds
    BY <1>1, ReadsFit DEF RunInv, WorkerFits, Behind
<1>3. /\ job[w].type = "RUN_RESEARCH_AGENT" => a.role # "critic"
      /\ job[w].type = "RUN_JUDGE" => a.role # "critic"
      /\ job[w].type = "RUN_CRITIC" => a \in CriticsOf(a.gen) /\ a.gen \in Generations
  <2>1. job[w] \in Jobs /\ job[w].gen \in Generations BY <1>1, InsideFits
  <2> QED BY <2>1, TypeSays, ResearcherParts, JudgeParts, CriticParts
<1>4. CASE (\E where, keys : Return(w, where, keys)) \/ Raise(w) BY <1>4, StaysAnswers DEF Raise, Return
<1>5. CASE \E status \in {"RUNNING", "COMPLETED"} : \E where :
             /\ Becomes(w, db, status, where)
             /\ status = "RUNNING" \/ a.role # "critic" \/ Findings(view[w], a) # {}
    BY <1>1, <1>2, <1>5, BecomesAnswers DEF Findings
<1>6. ASSUME NEW new \in Database, new.agents = db.agents, Becomes(w, new, "COMPLETED", "schedule"),
             a.role # "critic" \/ Findings(new, a) # {}
      PROVE  CriticsAnswer
    BY <1>1, <1>6, BecomesAnswers
<1>7. CASE StartResearch(w) \/ StartJudge(w) \/ StartCritic(w)
    BY <1>3, <1>4, <1>5, <1>7 DEF StartResearch, StartJudge, StartCritic, Resume
<1>8. CASE StoreSubmission(w)
  <2> DEFINE new == [db EXCEPT !.subs = @ \union {a}]
  <2>1. Raise(w) \/ Becomes(w, new, "COMPLETED", "schedule") BY <1>8 DEF StoreSubmission
  <2>2. a \in Submissions /\ a.role # "critic"
      BY <1>1, <1>3, <1>8, InsideFits, TypeSays, AgentSets DEF StoreSubmission
  <2>3. new \in Database /\ new.agents = db.agents BY <1>2, <2>2 DEF Database
  <2> HIDE DEF new, a
  <2> QED BY <1>4, <1>6, <2>1, <2>2, <2>3
<1>9. CASE StoreEvaluations(w)
  <2> DEFINE more == Unjudged(view[w], a) \X {a}
             new == [db EXCEPT !.evals = @ \union more]
  <2>1. Raise(w) \/ Becomes(w, new, "COMPLETED", "schedule") BY <1>9 DEF StoreEvaluations
  <2>2. a \in UNION {JudgesOf(g) : g \in Generations} /\ a.role # "critic"
      BY <1>1, <1>3, <1>9, InsideFits, TypeSays DEF StoreEvaluations
  <2>3. Unjudged(view[w], a) \subseteq Submissions
    <3>1. view[w] \in Database BY <1>1 DEF RunInv, Loop, LoopInv, LoopTyped
    <3> QED BY <3>1 DEF Unjudged, SubsOf, Database
  <2>4. more \subseteq Submissions \X UNION {JudgesOf(g) : g \in Generations} BY <2>2, <2>3
  <2> HIDE DEF more
  <2>5. new \in Database /\ new.agents = db.agents
    <3>1. db.evals \union more \in SUBSET (Submissions \X UNION {JudgesOf(g) : g \in Generations})
        BY <1>2, <2>4 DEF Database
    <3> QED BY <1>2, <3>1 DEF Database
  <2> HIDE DEF new, a
  <2> QED BY <1>4, <1>6, <2>1, <2>2, <2>5
<1>10. CASE StoreFinding(w)
  <2> DEFINE finding(fatal) == [critic |-> a, sub |-> Elite(a.gen, {}), fatal |-> fatal]
             New(fatal) == [db EXCEPT !.finds = db.finds \union {finding(fatal)}]
  <2>1. \/ Raise(w)
        \/ Findings(view[w], a) # {} /\ Becomes(w, db, "COMPLETED", "schedule")
        \/ \E fatal \in BOOLEAN : Becomes(w, New(fatal), "COMPLETED", "schedule")
      BY <1>10 DEF StoreFinding
  <2>2. a \in CriticsOf(a.gen) /\ a.gen \in Generations BY <1>3, <1>10 DEF StoreFinding
  <2>3. a \in Agents /\ Elite(a.gen, {}) \in Submissions BY <2>2, AgentSets, EliteParts
  <2>4. ASSUME NEW fatal \in BOOLEAN, Becomes(w, New(fatal), "COMPLETED", "schedule")
        PROVE  CriticsAnswer
    <3> DEFINE f == finding(fatal)
               new == New(fatal)
    <3>1. f \in [critic : Agents, sub : Submissions, fatal : BOOLEAN] /\ f.critic = a BY <2>3
    <3>2. new = [db EXCEPT !.finds = db.finds \union {f}] OBVIOUS
    <3> HIDE DEF f, new
    <3>3. new \in Database /\ new.agents = db.agents /\ new.finds = db.finds \union {f}
      <4>1. db.finds \union {f} \in SUBSET [critic : Agents, sub : Submissions, fatal : BOOLEAN]
          BY <1>2, <3>1 DEF Database
      <4> QED BY <1>2, <3>2, <4>1 DEF Database
    <3>4. Findings(new, a) # {} BY <3>1, <3>3 DEF Findings
    <3>5. Becomes(w, new, "COMPLETED", "schedule") BY <2>4 DEF new
    <3> QED BY <1>6, <3>3, <3>4, <3>5
  <2> QED BY <1>4, <1>5, <2>1, <2>4
<1> QED BY <1>7, <1>8, <1>9, <1>10

LEMMA ReportFailureAnswers ==
  ASSUME RunInv, NEW w \in Workers, ReportFailure(w)
  PROVE  CriticsAnswer
<1> DEFINE a == job[w].agent
<1>1. \/ db' = db
      \/ a = None /\ db' = [db EXCEPT !.status = "FAILED"]
      \/ a # None /\ \E v : db' = [AgentUpdates(db, v, a, "FAILED") EXCEPT !.status = "FAILED"]
    BY DEF ReportFailure
<1>2. db \in Database BY DEF RunInv
<1>3. a # None => a \in Here(db)
  <2>1. job[w] # None BY DEF ReportFailure, At, RunInv, Loop, LoopInv, LoopTyped, LoopOK
  <2> QED BY <2>1, HolderFits DEF JobFits
<1> HIDE DEF a
<1>4. CASE db' = db \/ db' = [db EXCEPT !.status = "FAILED"]
    BY <1>2, <1>4, SpawnedAnswers DEF RunStatus
<1>5. ASSUME NEW v, a # None, db' = [AgentUpdates(db, v, a, "FAILED") EXCEPT !.status = "FAILED"]
      PROVE  CriticsAnswer
  <2> DEFINE e == AgentUpdates(db, v, a, "FAILED")
  <2>1. /\ e \in Database
        /\ \A b \in Agents : e.agents[b] = db.agents[b] \/ (b = a /\ e.agents[b] = "FAILED")
      BY <1>2, <1>3, <1>5, AgentUpdatesKeep DEF AgentStatus
  <2>2. db' = [e EXCEPT !.status = "FAILED"] BY <1>5
  <2> HIDE DEF e
  <2>3. db'.agents = e.agents BY <2>1, <2>2, StatusApart DEF RunStatus
  <2> QED BY <2>1, <2>3 DEF CriticsAnswer
<1> QED BY <1>1, <1>4, <1>5

LEMMA NextAnswers ==
  ASSUME RunInv, [Next]_vars
  PROVE  CriticsAnswer
<1>1. ASSUME NEW w \in Workers, UnitOfWork(w) PROVE CriticsAnswer
  <2>1. CASE MaybeScheduleJudging(w)
      BY <2>1, StaysAnswers DEF MaybeScheduleJudging, Return
  <2>2. CASE AfterOpening(w)
    <3>1. job[w].gen \in Generations BY <2>2, InsideFits DEF AfterOpening, At, Inside
    <3> QED BY <2>2, <3>1, AfterOpeningEffect, ListensAnswers
  <2>3. CASE FailRun(w)
    <3>1. Return(w, "settle", {}) \/ CommitStatus(w, db, "FAILED", "settle", {}) BY <2>3 DEF FailRun
    <3>2. CASE Return(w, "settle", {}) BY <3>2, StaysAnswers DEF Return
    <3> QED BY <3>1, <3>2, CommitAnswers DEF RunInv, RunStatus
  <2> QED BY <1>1, <2>1, <2>2, <2>3, StartRunAnswers, StartJudgingAnswers, MaybeScheduleFinalizeAnswers,
             FinalizeRunAnswers, HandlersAnswer, ReportFailureAnswers, Zenon DEF UnitOfWork
<1>2. CASE CreateRun
    BY <1>2, SpawnedAnswers DEF CreateRun, RunInv, RunStatus
<1>3. CASE UNCHANGED db BY <1>3, StaysAnswers
<1>4. \/ \E w \in Workers : UnitOfWork(w)
      \/ CreateRun \/ UNCHANGED db
  <2>1. ASSUME NEW w \in Workers,
               \/ Begin(w) \/ ProviderAnswers(w) \/ ProviderFails(w) \/ EnqueueNext(w)
               \/ Settle(w) \/ Fail(w) \/ CrashWorker(w) \/ Restart(w)
        PROVE  UNCHANGED db
      BY <2>1 DEF Begin, BeginAt, ProviderAnswers, Return, ProviderFails, EnqueueNext, EnqueueOne,
                  Settle, Fail, CrashWorker, Restart
  <2>2. ASSUME \/ EnqueueCreateGeneration \/ CrashApi \/ UNCHANGED vars
               \/ \E w \in Workers, j \in Jobs : Claim(w, j)
               \/ \E j \in Jobs : Lapse(j)
        PROVE  UNCHANGED db
      BY <2>2 DEF EnqueueCreateGeneration, CrashApi, Claim, ClaimFor, Lapse, vars
  <2> QED BY <2>1, <2>2, Zenon DEF Next, Proceed
<1> QED BY <1>1, <1>2, <1>3, <1>4

LEMMA EffectKeepsCritics ==
  ASSUME RunInv, RecordInv, Effects, CriticsAnswer, Stands(db, db')
  PROVE  CriticsFit(db')
<1>1. CriticsFit(db) /\ db.finds \subseteq db'.finds BY DEF RecordInv, Stands
<1> DEFINE Extends ==
      /\ Here(db) \subseteq Here(db')
      /\ \A f \in db'.finds : f \in db.finds \/ f.critic \in Here(db)
      /\ CriticCount # 0 => \A s \in Submissions : db'.cands[s] # "ABSENT" =>
           db.cands[s] # "ABSENT" \/ FirstCritics(s.gen) \subseteq Here(db')
<1>2. ASSUME Plain PROVE Extends BY <1>2 DEF Plain, Alike
<1>3. ASSUME NEW w \in Workers, Effect(w) PROVE Extends
  <2>1. CASE Plain \/ Starts(w) \/ Reopens(w) \/ Spawns(w) \/ Advances(w)
      BY <2>1 DEF Plain, Alike, Starts, Reopens, Spawns, Advances
  <2>2. CASE Hears(w) BY <2>2 DEF Hears
  <2>3. CASE Opens(w)
    <3>1. /\ Here(db) \subseteq Here(db') /\ db'.finds = db.finds
          /\ FirstCritics(job[w].gen) \subseteq Here(db') /\ job[w].gen \in Generations
          /\ db'.cands = Opening(job[w].gen) \/ db'.cands = db.cands
        BY <2>3 DEF Opens
    <3>2. ASSUME NEW s \in Submissions, db'.cands[s] # db.cands[s] PROVE s.gen = job[w].gen
        BY <3>1, <3>2, ResearcherParts DEF Opening
    <3> QED BY <3>1, <3>2
  <2>4. CASE Completes(w)
    <3>1. /\ Here(db') = Here(db) /\ db'.finds = db.finds /\ view[w] # None
          /\ job[w].gen \in Generations /\ job[w] = FinalizeJob(job[w].gen)
        BY <2>4 DEF Completes
    <3>2. PICK v \in Reads(w) : \E s \in Researchers(job[w].gen) :
            \A t \in Submissions \ {s} : db'.cands[t] = db.cands[t]
        BY <2>4, VerdictGiven
    <3>3. Settled(db, job[w].gen) BY <3>1, <3>2, ReadsRecord
    <3>4. CriticCount # 0 => FirstCritics(job[w].gen) \subseteq Here(db)
        BY <1>1, <3>3, RunCreateAssumption DEF Settled, Heard, CriticsFit
    <3>5. \A t \in Submissions : t \in Researchers(job[w].gen) => t.gen = job[w].gen
        BY <3>1, ResearcherParts
    <3> QED BY <3>1, <3>2, <3>4, <3>5
  <2>5. CASE Closes(w)
    <3> DEFINE g == job[w].gen
    <3>1. view[w] # None /\ CriticCount # 0 /\ g \in Generations BY <2>5 DEF Closes
    <3>2. PICK r \in Reads(w) : /\ FirstCritics(g) \subseteq Here(r)
                                /\ \E f, seen : db' = CandidateUpdates(db, seen, Elite(g, {}), Outcome(f, g))
        BY <2>5 DEF Closes
    <3>8. PICK f, seen : db' = CandidateUpdates(db, seen, Elite(g, {}), Outcome(f, g)) BY <3>2
    <3>3. Outcome(f, g) \in CandidateStatus BY DEF Outcome, CandidateStatus
    <3>4. Elite(g, {}) \in Submissions /\ Elite(g, {}).gen = g BY <3>1, EliteParts
    <3>5. Here(r) \subseteq Here(db) BY <3>1, ReadsFit DEF Behind
    <3> HIDE DEF g
    <3>6. db'.agents = db.agents /\ db'.finds = db.finds
        BY <3>8, <3>3, <3>4, CandidateUpdatesKeep DEF Keeps, RunInv
    <3>7. ASSUME NEW t \in Submissions, t # Elite(g, {}) PROVE db'.cands[t] = db.cands[t]
      <4>1. db \in Database BY DEF RunInv
      <4>2. CandidateUpdates(db, seen, Elite(g, {}), Outcome(f, g)).cands[t] =
              IF t = Elite(g, {}) /\ seen.cands[Elite(g, {})] # Outcome(f, g)
              THEN Outcome(f, g) ELSE db.cands[t]
          BY <3>3, <3>4, <4>1, CandidateUpdatesTo
      <4> QED BY <3>8, <3>7, <4>2
    <3> QED BY <3>2, <3>4, <3>5, <3>6, <3>7 DEF Here
  <2> QED BY <1>3, <2>1, <2>2, <2>3, <2>4, <2>5, Zenon DEF Effect
<1>4. Extends BY <1>2, <1>3 DEF Effects
<1> QED BY <1>1, <1>4 DEF CriticsFit, CriticsAnswer, Findings

-----------------------------------------------------------------------------
(* The record is kept.                                                      *)

LEMMA EffectKeeps ==
  ASSUME RunInv, RecordInv, Effects
  PROVE  /\ Record(db') /\ Stands(db, db')
         /\ \A u \in Workers : \A j \in todo'[u] : CriticsFirst(j, db')
<1>1. Record(db) BY DEF RecordInv
<1>2. ASSUME Record(db'), Stands(db, db')
      PROVE  \A j \in Jobs : CriticsFirst(j, db) => CriticsFirst(j, db')
    BY <1>2, JobParts, SettledStands DEF CriticsFirst, Record
<1>3. ASSUME Record(db'), Stands(db, db'), NothingFinal
      PROVE  \A u \in Workers : \A j \in todo'[u] : CriticsFirst(j, db')
  <2> SUFFICES ASSUME NEW u \in Workers, NEW j \in todo'[u], j.type = "FINALIZE_RUN", CriticCount > 0
               PROVE  Settled(db', j.gen)
      BY DEF CriticsFirst, Settled
  <2>1. j \in todo[u] BY <1>3, RunCreateAssumption DEF NothingFinal
  <2>2. j \in Jobs BY <2>1 DEF RunInv, Loop, LoopInv, LoopTyped
  <2>3. CriticsFirst(j, db) BY <2>1 DEF RecordInv
  <2> QED BY <1>2, <1>3, <2>2, <2>3 DEF CriticsFirst
<1>4. ASSUME SameRecord(db, db') PROVE Record(db') /\ Stands(db, db')
    BY <1>1, <1>4, SameFits
<1>5. CASE Plain /\ NothingFinal BY <1>3, <1>4, <1>5 DEF Plain, Alike, SameRecord
<1>6. ASSUME NEW w \in Workers, Effect(w)
      PROVE  /\ Record(db') /\ Stands(db, db')
             /\ \A u \in Workers : \A j \in todo'[u] : CriticsFirst(j, db')
  <2>1. CASE NothingFinal /\ (Plain \/ Reopens(w) \/ Spawns(w))
    BY <1>3, <1>4, <2>1 DEF Plain, Reopens, Spawns, Alike, SameRecord
  <2>2. CASE NothingFinal /\ Starts(w) BY <1>1, <1>3, <2>2, StartsKeep
  <2>3. CASE NothingFinal /\ Hears(w) BY <1>1, <1>3, <2>3, HearsKeep
  <2>4. CASE NothingFinal /\ Opens(w) BY <1>1, <1>3, <2>4, OpensKeep
  <2>5. CASE NothingFinal /\ Completes(w) BY <1>3, <2>5, CompletesKeep
  <2>6. CASE NothingFinal /\ Advances(w) BY <1>3, <2>6, AdvancesKeep
  <2>7. CASE Closes(w) /\ FinalOf(w)
    <3>1. Record(db') /\ Stands(db, db') /\ Settled(db', job[w].gen) BY <2>7, ClosesKeep
    <3>2. ASSUME NEW u \in Workers, NEW j \in todo'[u], j.type = "FINALIZE_RUN"
          PROVE  Settled(db', j.gen)
      <4>1. CASE j \in todo[u]
        <5>1. j \in Jobs /\ CriticsFirst(j, db)
            BY <4>1 DEF RecordInv, RunInv, Loop, LoopInv, LoopTyped
        <5> QED BY <1>2, <3>1, <3>2, <5>1 DEF CriticsFirst
      <4>2. CASE j.gen = job[w].gen BY <3>1, <4>2
      <4> QED BY <2>7, <3>2, <4>1, <4>2 DEF FinalOf
    <3> QED BY <3>1, <3>2 DEF CriticsFirst
  <2> QED BY <1>6, <2>1, <2>2, <2>3, <2>4, <2>5, <2>6, <2>7, Zenon DEF Effect
<1> QED BY <1>5, <1>6 DEF Effects

LEMMA InitRecord == ASSUME Init PROVE RecordInv
<1> USE DEF Init, LoopInit, NoJob
<1>1. FindingsFit(db) BY DEF FindingsFit
<1>2. CandidatesFit(db) BY DEF CandidatesFit
<1>3. LeftBehindFit(db) BY GenerationsType DEF LeftBehindFit
<1>4. VerdictsFit(db) BY DEF VerdictsFit
<1>5. LineageFits(db)
  <2>1. 1..Latest(db) = {} BY DEF Latest
  <2> QED BY <2>1 DEF LineageFits
<1>6. Record(db) /\ CriticsFit(db)
  <2>1. \A a \in Agents : db.agents[a] = "ABSENT" OBVIOUS
  <2>2. \A s \in Submissions : db.cands[s] = "ABSENT" OBVIOUS
  <2> QED BY <1>1, <1>2, <1>3, <1>4, <1>5, <2>1, <2>2 DEF Record, CriticsFit
<1>7. \A j \in Jobs : jobs[j].status = "absent" OBVIOUS
<1>8. \A w \in Workers : view[w] = None /\ todo[w] = {} OBVIOUS
<1> QED BY <1>6, <1>7, <1>8 DEF RecordInv

LEMMA NextKeepsRecord ==
  ASSUME RunInv, RecordInv, [Next]_vars
  PROVE  RecordInv'
<1>1. Effects /\ Around /\ RunInv' BY NextDoes, NextAround, NextKeepsRun
<1>2. /\ Record(db') /\ Stands(db, db') /\ CriticsFit(db')
      /\ \A u \in Workers : \A j \in todo'[u] : CriticsFirst(j, db')
    BY <1>1, EffectKeeps, NextAnswers, EffectKeepsCritics
<1>3. \A j \in Jobs : CriticsFirst(j, db) => CriticsFirst(j, db')
    BY <1>2, JobParts, SettledStands DEF CriticsFirst, Record
<1>4. ASSUME NEW j \in Jobs, jobs'[j].status # "absent" PROVE CriticsFirst(j, db')
  <2>1. CASE jobs[j].status # "absent" BY <1>3, <2>1 DEF RecordInv
  <2>2. CASE j = CreateJob BY <2>2 DEF CriticsFirst, CreateJob, Job
  <2>3. CASE \E u \in Workers : j \in todo[u] BY <1>3, <2>3 DEF RecordInv
  <2> QED BY <1>1, <1>4, <2>1, <2>2, <2>3 DEF Around
<1>5. ASSUME NEW u \in Workers, view'[u] # None
      PROVE  /\ Record(view'[u]) /\ CriticsFit(view'[u]) /\ Stands(view'[u], db')
             /\ CriticsFirst(job'[u], view'[u])
  <2>1. job'[u] = job[u] /\ (view'[u] = view[u] \/ (view'[u] = db /\ db' = db))
      BY <1>1, <1>5 DEF Around
  <2>2. CASE view'[u] = view[u]
    <3>1. /\ Record(view[u]) /\ CriticsFit(view[u]) /\ Stands(view[u], db)
          /\ CriticsFirst(job[u], view[u])
        BY <1>5, <2>2 DEF RecordInv
    <3> QED BY <1>2, <2>1, <2>2, <3>1, StandsOn
  <2>3. CASE view'[u] = db /\ db' = db
    <3>1. job[u] # None
        BY <1>1, <1>5, <2>1 DEF RunInv, Loop, LoopInv, LoopOK, UnitsOfWork
    <3>2. job[u] \in Jobs /\ jobs[job[u]].status # "absent"
        BY <3>1, HolderFits DEF RunInv, Loop, LoopInv, HoldsRow
    <3>3. CriticsFirst(job[u], db) BY <3>2 DEF RecordInv
    <3> QED BY <1>2, <2>1, <2>3, <3>3
  <2> QED BY <2>1, <2>2, <2>3
<1> QED BY <1>2, <1>4, <1>5 DEF RecordInv

LEMMA RecordInvariant == Spec => [](RunInv /\ RecordInv)
<1>1. Init => RunInv /\ RecordInv BY InitRun, InitRecord
<1>2. RunInv /\ RecordInv /\ [Next]_vars => (RunInv /\ RecordInv)'
    BY NextKeepsRun, NextKeepsRecord
<1> QED BY <1>1, <1>2, PTL DEF Spec

\* Clones, and only clones, have a parent, which was selected in the generation
\* before; and no branch that judges or critics found fatally wrong has
\* descendants unless its whole generation was wrong, whatever happens to the
\* workers and in whatever order critics answer.
THEOREM LineageHolds == Spec => []LineageIsSound
<1>1. ASSUME RunInv, RecordInv PROVE LineageIsSound
  <2> SUFFICES ASSUME NEW a \in Submissions
               PROVE  LET p == db.parent[a] IN
                      /\ p # None <=> (a.gen \in 1..Latest(db) /\ a.index <= Population - FreshCount)
                      /\ p # None =>
                           /\ p.gen = a.gen - 1
                           /\ \E i \in DOMAIN db.survivors[p.gen] : db.survivors[p.gen][i] = p
                           /\ (Flaw(p) \/ db.cands[p] = "REFUTED") =>
                                \A s \in Researchers(p.gen) : Flaw(s) \/ db.cands[s] = "REFUTED"
      BY DEF LineageIsSound
  <2> DEFINE p == db.parent[a]
  <2>1. /\ p # None <=> (a.gen \in 1..Latest(db) /\ a.index <= Population - FreshCount)
        /\ p # None =>
             /\ p.gen = a.gen - 1
             /\ \E i \in DOMAIN db.survivors[p.gen] : db.survivors[p.gen][i] = p
             /\ p \in Viable(p.gen, Refuted(db, p.gen))
      BY <1>1 DEF RecordInv, Record, LineageFits
  <2>2. p # None => p \in Submissions BY <1>1 DEF RunInv, Database
  <2> HIDE DEF p
  <2>3. ASSUME p # None, Flaw(p) \/ db.cands[p] = "REFUTED"
        PROVE  \A s \in Researchers(p.gen) : Flaw(s) \/ db.cands[s] = "REFUTED"
    <3> DEFINE R == Refuted(db, p.gen)
    <3>1. p \in Researchers(p.gen) BY <2>2, <2>3, SubmissionParts
    <3>2. Fatal(p, R) BY <2>3, <3>1 DEF Fatal, Refuted
    <3>3. {s \in Researchers(p.gen) : ~Fatal(s, R)} = {} BY <2>1, <2>3, <3>2 DEF Viable
    <3>4. \A s \in Researchers(p.gen) : Fatal(s, R) BY <3>3
    <3> QED BY <3>4 DEF Fatal, Refuted
  <2> QED BY <2>1, <2>3 DEF p
<1> QED BY <1>1, RecordInvariant, PTL

\* A candidate is VERIFIED only once every critic of the first opening of its
\* stage has answered on it, none with a fatal error, and its verification passed:
\* no order of the critics' results and of the finalizing workers, no second
\* opening and no stale reading verifies another.
THEOREM VerifiedHolds == Spec => []VerifiedIsEarned
<1>1. ASSUME RunInv, RecordInv PROVE VerifiedIsEarned
  <2> SUFFICES ASSUME NEW s \in Submissions, db.cands[s] = "VERIFIED"
               PROVE  /\ db.verdict[s] = "PASSED"
                      /\ CriticCount > 0
                      /\ \A a \in FirstCritics(s.gen) : \E f \in db.finds : f.critic = a /\ f.sub = s
                      /\ \A f \in db.finds : (f.sub = s /\ f.fatal) => f.critic \notin FirstCritics(s.gen)
      BY DEF VerifiedIsEarned
  <2> DEFINE g == s.gen
  <2>1. FindingsFit(db) /\ VerdictsFit(db) BY <1>1 DEF RecordInv, Record
  <2>2. db.verdict[s] = "PASSED" BY <2>1 DEF VerdictsFit
  <2>3. s = Elite(g, {}) /\ CriticCount > 0 /\ Heard(db, g) /\ Ruling(db, g) = "VERIFICATION"
      BY <2>1, <2>2 DEF VerdictsFit
  <2>4. g \in Generations BY SubmissionParts
  <2>5. ASSUME NEW f \in db.finds, f.critic \in FirstCritics(g) PROVE f.sub = s /\ ~f.fatal
    <3>1. f.critic.gen = g BY <2>4, <2>5, FirstCriticParts, CriticParts
    <3>2. f.sub = Elite(f.critic.gen, {}) BY <2>1 DEF FindingsFit
    <3> QED BY <2>3, <2>5, <3>1, <3>2 DEF Ruling
  <2> QED BY <2>2, <2>3, <2>5 DEF Heard
<1> QED BY <1>1, RecordInvariant, PTL

-----------------------------------------------------------------------------
(* As long as no live worker has lost a lease, what workers know of the     *)
(* judges is kept.                                                          *)

\* Two workers do not have a job at once.
LEMMA Alone ==
  ASSUME RunInv, budget.lapses = 0, NEW w \in Workers, NEW u \in Workers,
         job[w] # None, job[u] = job[w], pc[w] # "terminal", pc[u] # "terminal"
  PROVE  u = w
<1>1. Owns(w) /\ Owns(u) BY DEF RunInv, Loop, LoopInv, Exclusive
<1> QED BY <1>1 DEF Owns

LEMMA CopiesHere ==
  ASSUME NEW d, NEW g \in Generations, NEW i \in 1..JudgeCount
  PROVE  JudgeCopies(d, g, i) = {c \in Copies : Agent(g, "judge", i, c) \in Here(d)}
<1>1. \A c \in Copies : Agent(g, "judge", i, c) \in Agents BY AgentSets DEF JudgesOf
<1> QED BY <1>1 DEF JudgeCopies, Here

\* What a worker whose unit of work stays open still knows.
SeesAfter(u) ==
  /\ (view[u].gens = db'.gens /\ db'.status = "RESEARCHING") => view[u].status = "RESEARCHING"
  /\ (pc[u] = "create" /\ view[u].gens = 0) => db'.gens = 0
  /\ pc[u] = "judging" =>
       \A a \in Here(db') : (a.role = "judge" /\ a.gen = job[u].gen) => a \in Here(view[u])
KnowsAfter ==
  /\ NoJudgeYet(db') /\ JudgesStand(db') /\ OneOfEach(db')
  /\ \A u \in Workers : (view[u] # None /\ view'[u] = view[u]) => SeesAfter(u)

LEMMA KnowsKept ==
  ASSUME Knows, Around, KnowsAfter
  PROVE  Knows'
<1>1. ASSUME NEW u \in Workers, view'[u] # None PROVE SeesJudges(u)'
  <2>1. /\ job'[u] = job[u] /\ pc'[u] = pc[u]
        /\ view'[u] = view[u] \/ (view'[u] = db /\ db' = db)
      BY <1>1 DEF Around
  <2>2. CASE view'[u] = view[u]
    <3>1. NoJudgeYet(view[u]) BY <1>1, <2>2 DEF Knows, SeesJudges
    <3>2. SeesAfter(u) BY <1>1, <2>2 DEF KnowsAfter
    <3> QED BY <2>1, <2>2, <3>1, <3>2 DEF SeesJudges, SeesAfter
  <2>3. CASE view'[u] = db /\ db' = db
    <3>1. NoJudgeYet(db) BY DEF Knows
    <3> QED BY <2>1, <2>3, <3>1 DEF SeesJudges
  <2> QED BY <2>1, <2>2, <2>3
<1>2. \A u \in Workers : SeesJudges(u)' BY <1>1 DEF SeesJudges
<1>3. NoJudgeYet(db') /\ JudgesStand(db') /\ OneOfEach(db') BY DEF KnowsAfter
<1> QED BY <1>2, <1>3 DEF Knows

\* The run's judges, generations and stage are as they were.
JudgesAlike ==
  /\ db'.gens = db.gens /\ Here(db) \subseteq Here(db')
  /\ \A a \in Here(db') : a.role = "judge" => a \in Here(db)
  /\ db'.status \in {db.status, "CREATED"} \union Over

LEMMA OneOfEachStill ==
  ASSUME NEW d, NEW e, OneOfEach(d), \A a \in Here(e) : a.role = "judge" => a \in Here(d)
  PROVE  OneOfEach(e)
<1> SUFFICES ASSUME NEW g \in Generations, NEW i \in 1..JudgeCount
             PROVE  JudgeCopies(e, g, i) \subseteq JudgeCopies(d, g, i)
    BY DEF OneOfEach
<1>1. \A c : Agent(g, "judge", i, c).role = "judge" BY DEF Agent
<1> QED BY <1>1, CopiesHere

LEMMA AlikeKnows ==
  ASSUME RunInv, Knows, JudgesAlike
  PROVE  KnowsAfter
<1> USE DEF JudgesAlike
<1>1. OneOfEach(db') BY OneOfEachStill DEF Knows
<1>2. NoJudgeYet(db') BY DEF Knows, NoJudgeYet, Latest, Over
<1>3. JudgesStand(db')
  <2> SUFFICES ASSUME db'.status = "JUDGING" PROVE JudgesFollow(db', Latest(db'))
      BY DEF JudgesStand
  <2>1. db.status = "JUDGING" BY DEF Over
  <2>2. JudgesFollow(db, Latest(db)) BY <2>1 DEF Knows, JudgesStand
  <2> QED BY <2>2 DEF JudgesFollow, Latest
<1>4. \A u \in Workers : view[u] # None => SeesAfter(u) BY DEF Knows, SeesJudges, SeesAfter, Over
<1> QED BY <1>1, <1>2, <1>3, <1>4 DEF KnowsAfter

LEMMA EffectsAlike ==
  ASSUME RunInv, NEW w \in Workers,
         Hears(w) \/ Opens(w) \/ Closes(w) \/ Completes(w)
  PROVE  JudgesAlike
<1>2. CASE Hears(w) BY <1>2 DEF Hears, JudgesAlike
<1>3. CASE Opens(w) BY <1>3, CriticParts DEF Opens, JudgesAlike
<1>4. CASE Completes(w) BY <1>4 DEF Completes, JudgesAlike, Over
<1>5. CASE Closes(w)
  <2> DEFINE g == job[w].gen
  <2>1. g \in Generations /\ db \in Database BY <1>5 DEF Closes, RunInv
  <2>2. PICK v, seen : db' = CandidateUpdates(db, seen, Elite(g, {}), Outcome(v, g))
      BY <1>5 DEF Closes
  <2>3. Elite(g, {}) \in Submissions BY <2>1, EliteParts
  <2>4. Outcome(v, g) \in CandidateStatus BY DEF Outcome, CandidateStatus
  <2> HIDE DEF g
  <2>5. Keeps(db, db') /\ db'.status = db.status BY <2>1, <2>2, <2>3, <2>4, CandidateUpdatesKeep
  <2> QED BY <2>5 DEF Keeps, JudgesAlike
<1> QED BY <1>2, <1>3, <1>4, <1>5

LEMMA StartsKnows ==
  ASSUME RunInv, budget.lapses = 0, Knows, NEW w \in Workers, Starts(w)
  PROVE  KnowsAfter
<1>1. /\ pc[w] = "create" /\ job[w] = CreateJob /\ view'[w] = None
      /\ db.gens = 0 /\ db'.gens = 1 /\ db'.status = "RESEARCHING"
      /\ Here(db') = Here(db) \union Researchers(0)
    BY DEF Starts
<1>2. Here(db) = {}
  <2> SUFFICES ASSUME NEW a \in Here(db) PROVE FALSE OBVIOUS
  <2>1. a.gen \in Nat BY AgentParts, GenerationsType DEF Here
  <2>2. a.gen < db.gens BY DEF RunInv, Shape
  <2> QED BY <1>1, <2>1, <2>2
<1>3. \A a \in Here(db') : a.role # "judge" BY <1>1, <1>2, ResearcherParts
<1>4. OneOfEach(db') BY <1>3, OneOfEachStill DEF Knows
<1>5. NoJudgeYet(db') /\ JudgesStand(db') BY <1>1, <1>3 DEF NoJudgeYet, JudgesStand
<1>6. ASSUME NEW u \in Workers, view[u] # None, view'[u] = view[u] PROVE SeesAfter(u)
  <2>1. view[u].gens # db'.gens
    <3>1. view[u] \in Database /\ Behind(view[u], db)
        BY <1>6 DEF RunInv, WorkerFits, Loop, LoopInv, LoopTyped
    <3> QED BY <1>1, <3>1, GensType DEF Behind
  <2>2. pc[u] # "create"
    <3> SUFFICES ASSUME pc[u] = "create" PROVE FALSE OBVIOUS
    <3>1. Inside(u) /\ Inside(w) BY <1>1 DEF Inside
    <3>2. job[u] = CreateJob /\ job[w] # None BY <3>1, InsideFits
    <3>3. u = w BY <1>1, <3>2, Alone
    <3> QED BY <1>1, <1>6, <3>3
  <2> QED BY <1>3, <2>1, <2>2 DEF SeesAfter
<1> QED BY <1>4, <1>5, <1>6 DEF KnowsAfter

LEMMA AdvancesKnows ==
  ASSUME RunInv, budget.lapses = 0, Knows, NEW w \in Workers, Advances(w)
  PROVE  KnowsAfter
<1> DEFINE g == job[w].gen
<1>1. /\ g \in Generations /\ g + 1 = db.gens /\ db'.status = "RESEARCHING"
      /\ db'.gens = db.gens + 1 /\ Here(db') = Here(db) \union Researchers(g + 1)
    BY DEF Advances
<1> HIDE DEF g
<1>2. \A a \in Here(db') : a.role = "judge" => a \in Here(db) BY <1>1, ResearcherParts
<1>3. OneOfEach(db') BY <1>2, OneOfEachStill DEF Knows
<1>4. db.gens \in Nat /\ db.gens > 0 BY <1>1, GenerationsType
<1>5. NoJudgeYet(db')
  <2>1. \A a \in Here(db) : a.gen < db.gens /\ a.gen \in Nat
      BY AgentParts, GenerationsType DEF RunInv, Shape, Here
  <2> QED BY <1>1, <1>2, <1>4, <2>1 DEF NoJudgeYet, Latest
<1>6. JudgesStand(db') BY <1>1 DEF JudgesStand
<1>7. ASSUME NEW u \in Workers, view[u] # None PROVE SeesAfter(u)
  <2>1. view[u].gens # db'.gens
    <3>1. view[u] \in Database /\ Behind(view[u], db)
        BY <1>7 DEF RunInv, WorkerFits, Loop, LoopInv, LoopTyped
    <3> QED BY <1>1, <1>4, <3>1, GensType DEF Behind
  <2>2. SeesJudges(u) BY DEF Knows
  <2> QED BY <1>2, <1>4, <1>7, <2>1, <2>2 DEF SeesAfter, SeesJudges
<1> QED BY <1>3, <1>5, <1>6, <1>7 DEF KnowsAfter

LEMMA ReopensNever ==
  ASSUME Knows, NEW w \in Workers, Reopens(w), db.gens \in Nat
  PROVE  FALSE
BY DEF Knows, SeesJudges, Reopens

\* start_judging spawns the judges that nobody has spawned, and only it has the
\* job of its generation.
LEMMA SpawnsKnows ==
  ASSUME RunInv, budget.lapses = 0, Knows, NEW w \in Workers, Spawns(w)
  PROVE  KnowsAfter
<1> DEFINE g == job[w].gen
<1>1. PICK v \in Reads(w) :
        /\ pc[w] = "judging" /\ view[w] # None /\ view'[w] = None /\ IsLatest(v, g)
        /\ Added(w, v) \subseteq JudgesOf(g)
        /\ db'.gens = db.gens /\ Here(db') = Here(db) \union Added(w, v)
        /\ JudgesFollow(db', g)
        /\ \/ v.status = "RESEARCHING" /\ db'.status = "JUDGING"
           \/ v.status = "JUDGING" /\ db'.status = db.status
    BY DEF Spawns
<1>2. /\ job[w] # None /\ job[w] = StartJudgingJob(g) /\ g \in Generations /\ g < db.gens /\ g \in Nat
  <2>1. Inside(w) BY <1>1 DEF Inside
  <2> QED BY <1>1, <2>1, InsideFits, GenerationsType
<1>3. /\ v \in Database /\ Behind(view[w], v) /\ Behind(v, db) /\ v.status = view[w].status
      /\ view[w] \in Database /\ JobFits(job[w], view[w]) /\ Shape(db) /\ db \in Database
    BY <1>1, ReadsFit DEF RunInv, WorkerFits
<1>4. v.gens \in Nat /\ view[w].gens \in Nat /\ db.gens \in Nat BY <1>3, GensType
<1>5. g < view[w].gens
  <2>1. job[w] # CreateJob BY <1>2 DEF CreateJob, StartJudgingJob, Job
  <2> QED BY <1>3, <2>1 DEF JobFits
<1>6. SeesJudges(w) BY DEF Knows
<1>7. \A a \in Here(db) : (a.role = "judge" /\ a.gen = g) => a \in Here(view[w])
    BY <1>1, <1>6 DEF SeesJudges
<1>8. \A a \in Added(w, v) : a.role = "judge" /\ a.gen = g BY <1>1, JudgeParts
<1> HIDE DEF g
<1>9. g = v.gens - 1 BY <1>1 DEF IsLatest, Latest
<1>10. OneOfEach(db')
  <2> SUFFICES ASSUME NEW h \in Generations, NEW i \in 1..JudgeCount,
                      NEW c \in JudgeCopies(db', h, i), NEW e \in JudgeCopies(db', h, i)
               PROVE  c = e
      BY DEF OneOfEach
  <2>1. /\ c \in Copies /\ Agent(h, "judge", i, c) \in Here(db')
        /\ e \in Copies /\ Agent(h, "judge", i, e) \in Here(db')
      BY CopiesHere
  <2>2. CASE h = g /\ i \in Missing(w, v)
    <3>1. JudgeCopies(v, g, i) = {} BY <2>2 DEF Missing, MissingJudges, g
    <3>2. JudgeCopies(db, g, i) = {}
      <4> SUFFICES ASSUME NEW k \in JudgeCopies(db, g, i) PROVE FALSE OBVIOUS
      <4>1. k \in Copies /\ Agent(g, "judge", i, k) \in Here(db) BY <1>2, CopiesHere
      <4>2. Agent(g, "judge", i, k) \in Here(v) BY <1>3, <1>7, <4>1 DEF Behind, Agent
      <4> QED BY <1>2, <3>1, <4>1, <4>2, CopiesHere
    <3>3. ASSUME NEW k \in Copies, Agent(g, "judge", i, k) \in Here(db') PROVE k = 1
      <4>1. Agent(g, "judge", i, k) \in Added(w, v)
          BY <1>1, <1>2, <3>2, <3>3, CopiesHere
      <4>2. PICK m \in Missing(w, v) :
              Agent(g, "judge", i, k) = Agent(g, "judge", m, Cardinality(JudgeCopies(db, g, m)) + 1)
          BY <4>1 DEF Added, g
      <4>3. m = i /\ k = Cardinality(JudgeCopies(db, g, i)) + 1 BY <4>2 DEF Agent
      <4> QED BY <3>2, <4>3, FS_EmptySet
    <3> QED BY <2>1, <2>2, <3>3
  <2>3. CASE ~(h = g /\ i \in Missing(w, v))
    <3>1. ASSUME NEW k, Agent(h, "judge", i, k) \in Added(w, v) PROVE FALSE
      <4>1. PICK m \in Missing(w, v) :
              Agent(h, "judge", i, k) = Agent(g, "judge", m, Cardinality(JudgeCopies(db, g, m)) + 1)
          BY <3>1 DEF Added, g
      <4>2. h = g /\ i = m BY <4>1 DEF Agent
      <4> QED BY <2>3, <4>1, <4>2
    <3>2. c \in JudgeCopies(db, h, i) /\ e \in JudgeCopies(db, h, i)
        BY <1>1, <2>1, <3>1, CopiesHere
    <3> QED BY <3>2 DEF Knows, OneOfEach
  <2> QED BY <2>2, <2>3
<1>11. v.status = "RESEARCHING" => g = Latest(db)
  <2> SUFFICES ASSUME v.status = "RESEARCHING", g # Latest(db) PROVE FALSE OBVIOUS
  <2>1. g + 1 < db.gens BY <1>2, <1>4 DEF Latest
  <2>2. JudgesFollow(db, g) BY <1>2, <1>3, <2>1 DEF Shape
  <2>3. PICK c \in Copies : Agent(g, "judge", 1, c) \in Here(db) BY <2>2 DEF JudgesFollow, JudgeCount
  <2>4. Agent(g, "judge", 1, c).role = "judge" /\ Agent(g, "judge", 1, c).gen = g BY DEF Agent
  <2>5. Agent(g, "judge", 1, c) \in Here(view[w]) BY <1>7, <2>3, <2>4
  <2>6. Latest(view[w]) = g
      BY <1>2, <1>3, <1>4, <1>5, <1>9 DEF Behind, Latest
  <2>7. NoJudgeYet(view[w]) BY <1>1, <1>6 DEF SeesJudges
  <2> QED BY <1>3, <2>4, <2>5, <2>6, <2>7 DEF NoJudgeYet
<1>12. (v.status = "JUDGING" /\ db.status = "RESEARCHING") => g # Latest(db)
  <2> SUFFICES ASSUME v.status = "JUDGING", db.status = "RESEARCHING", g = Latest(db) PROVE FALSE
      OBVIOUS
  <2>1. view[w].gens = db.gens BY <1>2, <1>3, <1>4, <1>5 DEF Behind, Latest
  <2>2. view[w].status = "RESEARCHING" BY <1>1, <1>6, <2>1 DEF SeesJudges
  <2> QED BY <1>3, <2>2
<1>13. JudgesStand(db')
  <2> SUFFICES ASSUME db'.status = "JUDGING" PROVE JudgesFollow(db', Latest(db')) BY DEF JudgesStand
  <2>1. Latest(db') = Latest(db) BY <1>1 DEF Latest
  <2>2. CASE g = Latest(db) BY <1>1, <2>1, <2>2
  <2>3. CASE g # Latest(db)
    <3>1. db.status = "JUDGING" BY <1>1, <1>11, <2>3
    <3>2. JudgesFollow(db, Latest(db)) BY <3>1 DEF Knows, JudgesStand
    <3> QED BY <1>1, <2>1, <3>2 DEF JudgesFollow
  <2> QED BY <2>2, <2>3
<1>14. NoJudgeYet(db')
  <2> SUFFICES ASSUME db'.status = "RESEARCHING", NEW a \in Here(db'), a.role = "judge"
               PROVE  a.gen # Latest(db')
      BY DEF NoJudgeYet
  <2>1. Latest(db') = Latest(db) /\ db.status = "RESEARCHING" /\ v.status = "JUDGING"
      BY <1>1 DEF Latest
  <2>2. CASE a \in Here(db) BY <2>1, <2>2 DEF Knows, NoJudgeYet
  <2>3. CASE a \in Added(w, v) BY <1>8, <1>12, <2>1, <2>3
  <2> QED BY <1>1, <2>2, <2>3
<1>15. ASSUME NEW u \in Workers, view[u] # None, view'[u] = view[u] PROVE SeesAfter(u)
  <2>1. u # w BY <1>1, <1>15
  <2>2. SeesJudges(u) BY DEF Knows
  <2>3. (view[u].gens = db'.gens /\ db'.status = "RESEARCHING") => view[u].status = "RESEARCHING"
      BY <1>1, <1>15, <2>2 DEF SeesJudges
  <2>4. (pc[u] = "create" /\ view[u].gens = 0) => db'.gens = 0 BY <1>1, <1>15, <2>2 DEF SeesJudges
  <2>5. ASSUME pc[u] = "judging", NEW a \in Here(db'), a.role = "judge", a.gen = job[u].gen
        PROVE  a \in Here(view[u])
    <3>1. a \notin Added(w, v)
      <4> SUFFICES ASSUME a \in Added(w, v) PROVE FALSE OBVIOUS
      <4>1. Inside(u) BY <2>5 DEF Inside
      <4>2. job[u] = StartJudgingJob(job[u].gen) BY <2>5, <4>1, InsideFits
      <4>3. job[u] = job[w] BY <1>2, <1>8, <2>5, <4>2
      <4>4. u = w BY <1>1, <1>2, <2>5, <4>3, Alone
      <4> QED BY <2>1, <4>4
    <3>2. a \in Here(db) BY <1>1, <2>5, <3>1
    <3> QED BY <1>15, <2>2, <2>5, <3>2 DEF SeesJudges
  <2> QED BY <2>3, <2>4, <2>5 DEF SeesAfter
<1> QED BY <1>10, <1>13, <1>14, <1>15 DEF KnowsAfter

LEMMA EffectKnows ==
  ASSUME RunInv, budget.lapses = 0, Knows, Effects
  PROVE  KnowsAfter
<1>1. CASE Plain
  <2>1. JudgesAlike BY <1>1 DEF Plain, Alike, JudgesAlike, Over
  <2> QED BY <2>1, AlikeKnows
<1>2. ASSUME NEW w \in Workers, Effect(w) PROVE KnowsAfter
  <2>1. CASE Plain BY <1>1, <2>1
  <2>2. CASE Hears(w) \/ Opens(w) \/ Closes(w) \/ Completes(w)
      BY <2>2, EffectsAlike, AlikeKnows
  <2>3. CASE Starts(w) BY <2>3, StartsKnows
  <2>4. CASE Advances(w) BY <2>4, AdvancesKnows
  <2>5. CASE Spawns(w) BY <2>5, SpawnsKnows
  <2>6. CASE Reopens(w)
    <3>1. db.gens \in Nat BY GensType DEF RunInv
    <3> QED BY <2>6, <3>1, ReopensNever
  <2> QED BY <1>2, <2>1, <2>2, <2>3, <2>4, <2>5, <2>6, Zenon DEF Effect
<1> QED BY <1>1, <1>2, Zenon DEF Effects

LEMMA InitKnows ==
  ASSUME Init PROVE Undisturbed
<1>1. /\ db.status = "NONE" /\ \A w \in Workers : view[w] = None
      /\ db.agents = [a \in Agents |-> "ABSENT"]
    BY DEF Init, LoopInit
<1>2. Here(db) = {} BY <1>1 DEF Here
<1>3. OneOfEach(db) BY <1>2, CopiesHere DEF OneOfEach
<1> QED BY <1>1, <1>3 DEF Undisturbed, Knows, NoJudgeYet, JudgesStand, SeesJudges

LEMMA NextKeepsKnows ==
  ASSUME RunInv, Undisturbed, [Next]_vars
  PROVE  Undisturbed'
<1> SUFFICES ASSUME budget'.lapses = 0 PROVE Knows' BY DEF Undisturbed
<1>1. Effects /\ Around BY NextDoes, NextAround
<1>2. budget.lapses = 0 BY <1>1 DEF Around
<1>3. Knows BY <1>2 DEF Undisturbed
<1> QED BY <1>1, <1>2, <1>3, EffectKnows, KnowsKept

LEMMA KnowledgeInvariant == Spec => [](RunInv /\ Undisturbed)
<1>1. Init => RunInv /\ Undisturbed BY InitRun, InitKnows
<1>2. RunInv /\ Undisturbed /\ [Next]_vars => (RunInv /\ Undisturbed)'
    BY NextKeepsRun, NextKeepsKnows
<1> QED BY <1>1, <1>2, PTL DEF Spec

\* A generation is judged, and a run is completed, only with every submission of
\* its latest generation: start_judging, which trusts what it read before it
\* spawned the judges, never moves the status of a generation it has not seen
\* whole, as long as no live worker loses its lease.
THEOREM JudgedWhole == Spec => []JudgingHasAllSubmissions
<1>1. ASSUME RunInv, Undisturbed PROVE JudgingHasAllSubmissions
  <2> SUFFICES ASSUME db.status \in {"JUDGING", "COMPLETED"}, budget.lapses = 0
               PROVE  SubsOf(db, Latest(db)) = Researchers(Latest(db))
      BY DEF JudgingHasAllSubmissions
  <2> DEFINE g == Latest(db)
  <2>1. StatusFits(db) /\ Shape(db) /\ db \in Database BY <1>1 DEF RunInv
  <2>2. JudgesFollow(db, g)
    <3>1. CASE db.status = "JUDGING" BY <1>1, <3>1 DEF Undisturbed, Knows, JudgesStand
    <3>2. CASE db.status = "COMPLETED" BY <2>1, <3>2 DEF StatusFits, Latest
    <3> QED BY <3>1, <3>2
  <2>3. PICK c \in Copies : Agent(g, "judge", 1, c) \in Here(db)
      BY <2>2 DEF JudgesFollow, JudgeCount
  <2>4. Agent(g, "judge", 1, c).role = "judge" /\ Agent(g, "judge", 1, c).gen = g BY DEF Agent
  <2>5. Researchers(g) \subseteq db.subs BY <2>1, <2>3, <2>4 DEF Shape
  <2> QED BY <2>5 DEF SubsOf
<1> QED BY <1>1, KnowledgeInvariant, PTL

\* Each judge role has at most one agent, however often start_judging is retried
\* after a crash between spawning and enqueueing, as long as no live worker loses
\* its lease. (Nothing in the schema says so: the twin a lapse lets in is what
\* the run TournamentTwins looks at.)
THEOREM OneJudgePerRole == Spec => [](budget.lapses = 0 => NoDuplicateJudges)
<1>1. ASSUME RunInv, Undisturbed, budget.lapses = 0 PROVE NoDuplicateJudges
  <2> SUFFICES ASSUME NEW g \in Generations, NEW i \in 1..JudgeCount
               PROVE  Cardinality(JudgeCopies(db, g, i)) <= 1
      BY DEF NoDuplicateJudges
  <2> DEFINE S == JudgeCopies(db, g, i)
  <2>1. \A c, e \in S : c = e BY <1>1 DEF Undisturbed, Knows, OneOfEach
  <2> HIDE DEF S
  <2>2. S = {} => Cardinality(S) <= 1 BY FS_EmptySet
  <2>3. ASSUME NEW c \in S PROVE Cardinality(S) <= 1
    <3>1. S = {c} BY <2>1
    <3>2. Cardinality({c}) = 1 BY FS_Singleton
    <3> QED BY <3>1, <3>2
  <2> QED BY <2>2, <2>3 DEF S
<1> QED BY <1>1, KnowledgeInvariant, PTL

-----------------------------------------------------------------------------
(* Verdicts, where there is one worker or there are no critics; and jobs    *)
(* that come too late.                                                      *)

Single == \A u, w \in Workers : u = w

\* A candidate is what its verification made of it.
VerdictFits(d) == \A s \in Submissions :
  /\ d.verdict[s] # "NONE" => d.cands[s] = CandidateAfter[d.verdict[s]]
  /\ (CriticCount = 0 /\ d.verdict[s] = "NONE") => d.cands[s] \in {"ABSENT", "VERIFICATION"}
NoVerdict(d) == \A s \in Submissions : d.verdict[s] = "NONE"
ReadsNow == \A w \in Workers : view[w] # None => view[w] = db
OpenedOnTime == \A w \in Workers : pc[w] = "opened" => db.status # "COMPLETED"
\* With one worker, what it has read is still so; with many, a candidate it has
\* read is still one.
VerdictInv ==
  /\ Single => ReadsNow /\ (db.status = "COMPLETED" \/ NoVerdict(db)) /\ OpenedOnTime
  /\ (Single \/ CriticCount = 0) => VerdictFits(db)
  /\ CriticCount = 0 => \A w \in Workers : view[w] # None =>
       /\ VerdictFits(view[w])
       /\ \A s \in Submissions : view[w].cands[s] # "ABSENT" => db.cands[s] # "ABSENT"

\* A unit of work writes in its last step, and is alone in it.
LEMMA UnitOfWorkEnds ==
  ASSUME RunInv, NEW w \in Workers, UnitOfWork(w)
  PROVE  view'[w] = None /\ \A u \in Workers \ {w} : pc'[u] = pc[u]
<1>1. CASE ReportFailure(w)
  <2>1. PICK where : Goto(w, where, {}) BY <1>1 DEF ReportFailure, Drop
  <2> QED BY <2>1, GotoView DEF Goto, RunInv, Loop, LoopInv, LoopTyped
<1>2. CASE Continues(w) BY <1>2 DEF Continues, RunInv, Loop, LoopInv, LoopTyped
<1> QED BY <1>1, <1>2, Zenon, StartRunContinues, MaybeScheduleJudgingContinues,
           StartJudgingContinues, MaybeScheduleFinalizeContinues, AfterOpeningContinues,
           FinalizeRunContinues, FailRunContinues, StartContinues, StoreSubmissionContinues,
           StoreEvaluationsContinues, StoreFindingContinues DEF UnitOfWork

LEMMA GotoPlace ==
  ASSUME RunInv, NEW w \in Workers, NEW where, NEW keys, Goto(w, where, keys)
  PROVE  pc'[w] = where /\ todo'[w] = keys
BY DEF Goto, RunInv, Loop, LoopInv, LoopTyped

\* A unit of work is in "opened" once it has opened the stage.
LEMMA OnlyByOpening ==
  ASSUME RunInv, NEW w \in Workers, UnitOfWork(w), pc'[w] = "opened"
  PROVE  /\ pc[w] = "schedule" /\ view[w] # None /\ view[w].status = "JUDGING" /\ CriticCount # 0
         /\ job[w].gen \in Generations
         /\ \E v \in Reads(w) : JudgingComplete(v, job[w].gen) /\ OpensIt(w, v, job[w].gen)
         /\ db'.status = db.status
<1> DEFINE g == job[w].gen
           Elsewhere == {"settle", "enqueue", "raised", "failrun", "calling", "schedule", "idle", "dead"}
<1>1. ASSUME NEW where \in Elsewhere, NEW keys, Goto(w, where, keys) PROVE FALSE
    BY <1>1, GotoPlace
<1>2. ~StartRun(w) BY <1>1 DEF StartRun, CommitStatus, Commit, Raise, Return
<1>3. ~MaybeScheduleJudging(w) BY <1>1 DEF MaybeScheduleJudging, Return
<1>4. ~StartJudging(w)
  <2>1. ASSUME StartJudging(w) PROVE \E where \in Elsewhere : \E keys : Goto(w, where, keys)
    <3>1. \A keys : ThenEnqueue(keys) \in Elsewhere BY DEF ThenEnqueue
    <3> QED BY <2>1, <3>1, StartJudgingEffect DEF CommitStatus, Commit, Raise, Return
  <2> QED BY <1>1, <2>1
<1>5. ASSUME NEW r, NEW f PROVE ~Listens(w, r, f, g)
    BY <1>1 DEF Listens, Return, Commit
<1>6. ~AfterOpening(w) BY <1>5, AfterOpeningEffect
<1>7. ~FinalizeRun(w)
  <2>1. ASSUME NEW v PROVE ~Finalizes(w, v, g)
      BY <1>1 DEF Finalizes, CommitStatus, Commit, Raise, Return
  <2> QED BY <2>1, FinalizeRunEffect
<1>8. ~FailRun(w) /\ ~ReportFailure(w)
    BY <1>1 DEF FailRun, ReportFailure, CommitStatus, Commit, Raise, Return, Drop
<1>9. ~StartResearch(w) /\ ~StartJudge(w) /\ ~StartCritic(w)
    BY <1>1 DEF StartResearch, StartJudge, StartCritic, Resume, Becomes, Commit, Return
<1>10. ~StoreSubmission(w) /\ ~StoreEvaluations(w) /\ ~StoreFinding(w)
    BY <1>1 DEF StoreSubmission, StoreEvaluations, StoreFinding, Becomes, Commit, Raise, Return
<1>11. MaybeScheduleFinalize(w)
    BY <1>2, <1>3, <1>4, <1>6, <1>7, <1>8, <1>9, <1>10 DEF UnitOfWork
<1>12. pc[w] = "schedule" /\ view[w] # None /\ Inside(w) BY <1>11 DEF MaybeScheduleFinalize, At, Inside
<1>13. g \in Generations /\ db \in Database /\ Shape(db) BY <1>12, InsideFits DEF RunInv
<1>14. PICK v \in Reads(w) : Schedules(w, v, g) BY <1>11, <1>13, MaybeScheduleFinalizeEffect
<1>15. ~FindsItOpen(w, v, g) BY <1>1, <1>5 DEF FindsItOpen, Return
<1>16. \A where \in Elsewhere : \A keys : ~Return(w, where, keys) BY <1>1 DEF Return
<1>17. v.status = "JUDGING" /\ JudgingComplete(v, g) /\ CriticCount # 0 /\ OpensIt(w, v, g)
  <2> HIDE DEF g
  <2> QED BY <1>14, <1>15, <1>16 DEF Schedules
<1>18. db'.status = db.status
  <2>1. PICK s : Raise(w) \/ (NewCritics(g) \subseteq CriticsOf(g) /\ Commit(w, Opened(s, g), "opened", {}))
      BY <1>17 DEF OpensIt
  <2>2. ~Raise(w) BY <1>16 DEF Raise
  <2> HIDE DEF g
  <2>3. db' = Opened(s, g) /\ NewCritics(g) \subseteq CriticsOf(g) BY <2>1, <2>2 DEF Commit
  <2> QED BY <1>13, <1>17, <2>3, OpensTheStage
<1> QED BY <1>12, <1>13, <1>14, <1>17, <1>18, ReadsStatus

LEMMA OnlyUnitsWrite ==
  ASSUME RunInv, [Next]_vars, db' # db, db.status # "NONE"
  PROVE  \E w \in Workers : UnitOfWork(w)
<1>1. CASE \E w \in Workers :
             \/ Begin(w) \/ ProviderAnswers(w) \/ ProviderFails(w) \/ EnqueueNext(w)
             \/ Settle(w) \/ Fail(w) \/ CrashWorker(w) \/ Restart(w)
    BY <1>1 DEF Begin, BeginAt, ProviderAnswers, Return, ProviderFails, EnqueueNext, EnqueueOne,
                Settle, Fail, CrashWorker, Restart
<1>2. CASE \/ CreateRun \/ EnqueueCreateGeneration \/ CrashApi \/ UNCHANGED vars
           \/ \E w \in Workers, j \in Jobs : Claim(w, j)
           \/ \E j \in Jobs : Lapse(j)
    BY <1>2 DEF CreateRun, EnqueueCreateGeneration, CrashApi, Claim, ClaimFor, Lapse, vars, RunInv
<1> QED BY <1>1, <1>2, Zenon DEF Next, Proceed

\* Who has an open unit of work has read a run that exists.
LEMMA ReaderOfRun ==
  ASSUME RunInv, NEW w \in Workers, view[w] # None
  PROVE  /\ job[w] # None /\ view[w] \in Database /\ db.status # "NONE"
         /\ Behind(view[w], db)
<1>1. job[w] # None /\ view[w] \in Database /\ Behind(view[w], db) /\ JobFits(job[w], view[w])
  <2>1. job[w] # None /\ view[w] \in Database
      BY DEF RunInv, Loop, LoopInv, LoopTyped, LoopOK, UnitsOfWork
  <2> QED BY <2>1 DEF RunInv, WorkerFits
<1>2. JobFits(job[w], db) BY <1>1, HolderFits
<1> QED BY <1>1, <1>2 DEF JobFits

\* With one worker, what it has read is what there is.
LEMMA ReadsNowKept ==
  ASSUME RunInv, Single, ReadsNow, [Next]_vars
  PROVE  ReadsNow'
<1> SUFFICES ASSUME NEW u \in Workers, view'[u] # None PROVE view'[u] = db'
    BY DEF ReadsNow
<1>1. view'[u] = view[u] \/ (view'[u] = db /\ db' = db) BY NextAround DEF Around
<1>2. CASE view'[u] = view[u]
  <2>1. view[u] = db /\ db.status # "NONE" BY <1>2, ReaderOfRun DEF ReadsNow
  <2>2. ~\E w \in Workers : UnitOfWork(w) BY UnitOfWorkEnds DEF Single
  <2> QED BY <1>2, <2>1, <2>2, OnlyUnitsWrite
<1> QED BY <1>1, <1>2

\* The verification of the last generation leaves its candidate as it says, on
\* whatever rows of an earlier one it was decided.
LEMMA CompletesFits ==
  ASSUME RunInv, RecordInv, VerdictInv, Single \/ CriticCount = 0, NEW w \in Workers, Completes(w)
  PROVE  /\ VerdictFits(db')
         /\ \A t \in Submissions : db.cands[t] # "ABSENT" => db'.cands[t] # "ABSENT"
<1> DEFINE g == job[w].gen
<1>1. view[w] # None /\ view[w].status = "JUDGING" /\ g \in Generations /\ db \in Database
    BY DEF Completes, RunInv
<1>2. PICK v \in Reads(w) :
        /\ v.cands[Target(v, g)] = "ABSENT" => db.cands[Target(v, g)] = "ABSENT"
        /\ \/ db'.cands = Staged(v, g).cands /\ db'.verdict = db.verdict
           \/ /\ v.verdict[Target(v, g)] = "NONE" => db.verdict[Target(v, g)] = "NONE"
              /\ \E verdict \in IF v.verdict[Target(v, g)] = "NONE" THEN VerdictsOn(v, Target(v, g))
                                ELSE {v.verdict[Target(v, g)]} :
                   /\ db'.verdict = [db.verdict EXCEPT ![Target(v, g)] = verdict]
                   /\ \E seen \in IF Proposed(v, g) THEN {Staged(v, g)} ELSE {v, db} :
                        \A t \in Submissions :
                          db'.cands[t] =
                            IF t = Target(v, g) /\ seen.cands[t] # CandidateAfter[verdict]
                            THEN CandidateAfter[verdict] ELSE Staged(v, g).cands[t]
    BY Zenon DEF Completes
<1> DEFINE s == Target(v, g)
<1>3. v \in Database /\ Stands(v, db) BY <1>1, ReadsRecord
<1>4. /\ s \in Submissions
      /\ \A t \in Submissions :
           Staged(v, g).cands[t] = IF t = s /\ Proposed(v, g) THEN "VERIFICATION" ELSE db.cands[t]
    BY <1>1, <1>3, JudgementKeeps
<1>5. Proposed(v, g) <=> v.cands[s] \notin {"REFUTED", "VERIFIED", "VERIFICATION"}
    BY DEF Proposed
<1> HIDE DEF g
<1>6. VerdictFits(db) BY DEF VerdictInv
<1>7. Single => v.cands = db.cands /\ v.verdict = db.verdict /\ NoVerdict(db)
  <2> SUFFICES ASSUME Single PROVE v.cands = db.cands /\ v.verdict = db.verdict /\ NoVerdict(db)
      OBVIOUS
  <2>1. view[w] = db /\ (db.status = "COMPLETED" \/ NoVerdict(db)) BY <1>1 DEF VerdictInv, ReadsNow
  <2>2. NoVerdict(db) BY <1>1, <2>1
  <2> QED BY <1>1, <2>1, <2>2 DEF Reads, Database
<1>8. CriticCount = 0 => VerdictFits(v) /\ (v.cands[s] # "ABSENT" => db.cands[s] # "ABSENT")
  <2> SUFFICES ASSUME CriticCount = 0
               PROVE  VerdictFits(v) /\ (v.cands[s] # "ABSENT" => db.cands[s] # "ABSENT")
      OBVIOUS
  <2>1. CASE v = view[w] BY <1>1, <1>4, <2>1 DEF VerdictInv
  <2>2. CASE v = [db EXCEPT !.status = view[w].status]
    <3>1. v.cands = db.cands /\ v.verdict = db.verdict BY <1>1, <2>2 DEF Database
    <3> QED BY <1>6, <3>1 DEF VerdictFits
  <2> QED BY <2>1, <2>2 DEF Reads
<1>9. v.verdict[s] # "NONE" => db.verdict[s] = v.verdict[s] BY <1>3, <1>4 DEF Stands
<1>10. /\ db.verdict[s] # "NONE" => db.cands[s] = CandidateAfter[db.verdict[s]]
       /\ (CriticCount = 0 /\ db.verdict[s] = "NONE") => db.cands[s] \in {"ABSENT", "VERIFICATION"}
       /\ CriticCount = 0 =>
            /\ v.verdict[s] # "NONE" => v.cands[s] = CandidateAfter[v.verdict[s]]
            /\ v.verdict[s] = "NONE" => v.cands[s] \in {"ABSENT", "VERIFICATION"}
            /\ v.cands[s] # "ABSENT" => db.cands[s] # "ABSENT"
       /\ Single => v.cands[s] = db.cands[s] /\ v.verdict[s] = "NONE" /\ db.verdict[s] = "NONE"
    BY <1>4, <1>6, <1>7, <1>8 DEF VerdictFits, NoVerdict
<1>11. \A said \in {"PASSED", "FAILED", "INCONCLUSIVE"} :
         CandidateAfter[said] \in {"REFUTED", "VERIFIED", "VERIFICATION"}
    BY DEF CandidateAfter
<1>12. v.verdict[s] \in Verdicts /\ db.verdict[s] \in Verdicts BY <1>1, <1>3, <1>4 DEF Database
<1>13. v.cands[s] = "ABSENT" => db.cands[s] = "ABSENT" BY <1>2
<1>14. CASE db'.cands = Staged(v, g).cands /\ db'.verdict = db.verdict
  <2> HIDE DEF s
  <2>1. ASSUME Proposed(v, g) PROVE db.verdict[s] = "NONE"
      BY <1>5, <1>10, <1>11, <1>12, <1>13, <2>1 DEF Verdicts
  <2>2. ASSUME NEW t \in Submissions
        PROVE  /\ db'.verdict[t] # "NONE" => db'.cands[t] = CandidateAfter[db'.verdict[t]]
               /\ (CriticCount = 0 /\ db'.verdict[t] = "NONE") => db'.cands[t] \in {"ABSENT", "VERIFICATION"}
               /\ db.cands[t] # "ABSENT" => db'.cands[t] # "ABSENT"
      BY <1>4, <1>6, <1>14, <2>1 DEF VerdictFits
  <2> QED BY <2>2 DEF VerdictFits
<1>15. ASSUME v.verdict[s] = "NONE" => db.verdict[s] = "NONE",
              NEW verdict \in IF v.verdict[s] = "NONE" THEN VerdictsOn(v, s) ELSE {v.verdict[s]},
              db'.verdict = [db.verdict EXCEPT ![s] = verdict],
              NEW seen \in IF Proposed(v, g) THEN {Staged(v, g)} ELSE {v, db},
              \A t \in Submissions :
                db'.cands[t] = IF t = s /\ seen.cands[t] # CandidateAfter[verdict]
                               THEN CandidateAfter[verdict] ELSE Staged(v, g).cands[t]
       PROVE  /\ VerdictFits(db')
              /\ \A t \in Submissions : db.cands[t] # "ABSENT" => db'.cands[t] # "ABSENT"
  <2>1. verdict \in {"PASSED", "FAILED", "INCONCLUSIVE"} BY <1>3, <1>4, <1>15, VerdictsType, Zenon
  <2> HIDE DEF s
  <2>2. db.verdict \in [Submissions -> Verdicts] BY <1>1 DEF Database
  <2>3. db'.verdict[s] = verdict /\ \A t \in Submissions \ {s} : db'.verdict[t] = db.verdict[t]
      BY <1>4, <1>15, <2>2
  <2>4. v.verdict[s] # "NONE" => verdict = v.verdict[s] BY <1>15
  <2>5. db'.cands[s] = CandidateAfter[verdict]
    <3>1. CASE seen.cands[s] # CandidateAfter[verdict] BY <1>4, <1>15, <3>1
    <3>2. CASE seen.cands[s] = CandidateAfter[verdict]
      <4>1. db'.cands[s] = Staged(v, g).cands[s] BY <1>4, <1>15, <3>2
      <4>2. CASE Proposed(v, g) BY <1>15, <3>2, <4>1, <4>2
      <4>3. CASE ~Proposed(v, g)
        <5>1. db'.cands[s] = db.cands[s] /\ seen \in {v, db} BY <1>4, <1>15, <4>1, <4>3
        <5>2. CASE seen = db BY <3>2, <5>1, <5>2
        <5>3. CASE seen = v
          <6>1. v.cands[s] = CandidateAfter[verdict] BY <3>2, <5>3
          <6>2. CASE Single BY <1>10, <5>1, <6>1, <6>2
          <6>3. CASE CriticCount = 0 /\ v.verdict[s] # "NONE" BY <1>9, <1>10, <2>4, <5>1, <6>3
          <6>4. CASE CriticCount = 0 /\ v.verdict[s] = "NONE"
            <7>1. v.cands[s] = "VERIFICATION" BY <1>10, <1>11, <2>1, <6>1, <6>4
            <7>2. db.cands[s] = "VERIFICATION" BY <1>10, <1>15, <6>4, <7>1
            <7> QED BY <5>1, <6>1, <7>1, <7>2
          <6> QED BY <6>2, <6>3, <6>4
        <5> QED BY <5>1, <5>2, <5>3
      <4> QED BY <4>2, <4>3
    <3> QED BY <3>1, <3>2
  <2>6. \A t \in Submissions \ {s} : db'.cands[t] = db.cands[t] BY <1>4, <1>15
  <2>7. VerdictFits(db')
    <3>1. db'.verdict[s] # "NONE" BY <2>1, <2>3
    <3>2. ASSUME NEW t \in Submissions \ {s}
          PROVE  /\ db'.verdict[t] # "NONE" => db'.cands[t] = CandidateAfter[db'.verdict[t]]
                 /\ (CriticCount = 0 /\ db'.verdict[t] = "NONE") => db'.cands[t] \in {"ABSENT", "VERIFICATION"}
        BY <1>6, <2>3, <2>6 DEF VerdictFits
    <3> QED BY <2>3, <2>5, <3>1, <3>2 DEF VerdictFits
  <2>8. db'.cands[s] # "ABSENT" BY <1>11, <2>1, <2>5
  <2> QED BY <2>6, <2>7, <2>8
<1>16. \/ db'.cands = Staged(v, g).cands /\ db'.verdict = db.verdict
       \/ /\ v.verdict[s] = "NONE" => db.verdict[s] = "NONE"
          /\ \E verdict \in IF v.verdict[s] = "NONE" THEN VerdictsOn(v, s) ELSE {v.verdict[s]} :
               /\ db'.verdict = [db.verdict EXCEPT ![s] = verdict]
               /\ \E seen \in IF Proposed(v, g) THEN {Staged(v, g)} ELSE {v, db} :
                    \A t \in Submissions :
                      db'.cands[t] = IF t = s /\ seen.cands[t] # CandidateAfter[verdict]
                                     THEN CandidateAfter[verdict] ELSE Staged(v, g).cands[t]
    BY <1>2, Zenon
<1> HIDE DEF s
<1> QED BY <1>14, <1>15, <1>16, Zenon

\* What ends the critic stage changes nothing but a candidate.
LEMMA ClosesRows ==
  ASSUME RunInv, NEW w \in Workers, Closes(w)
  PROVE  db'.status = db.status /\ db'.verdict = db.verdict
<1> DEFINE g == job[w].gen
<1>1. PICK f, seen : db' = CandidateUpdates(db, seen, Elite(g, {}), Outcome(f, g)) BY DEF Closes
<1>2. Outcome(f, g) \in CandidateStatus BY DEF Outcome, CandidateStatus
<1>3. db \in Database /\ Elite(g, {}) \in Submissions BY EliteParts DEF Closes, RunInv
<1> HIDE DEF g
<1> QED BY <1>1, <1>2, <1>3, CandidateUpdatesKeep

\* With one worker nothing takes a run out of its end.
LEMMA EndStays ==
  ASSUME RunInv, ReadsNow, Effects, db.status \in Over
  PROVE  db'.status = db.status
<1>1. db.status \in {"COMPLETED", "FAILED"} BY DEF Over
<1>2. \A u \in Workers : view[u] # None => view[u] = db BY DEF ReadsNow
<1>3. CASE Plain BY <1>1, <1>2, <1>3 DEF Plain, Undecided
<1>4. ASSUME NEW w \in Workers, Effect(w) PROVE db'.status = db.status
  <2>1. CASE Plain BY <1>3, <2>1
  <2>2. CASE Starts(w) \/ Opens(w) \/ Completes(w) \/ Advances(w)
    <3>1. view[w] # None /\ view[w].status \in {"CREATED", "JUDGING"}
        BY <2>2 DEF Starts, Opens, Completes, Advances
    <3> QED BY <1>1, <1>2, <3>1
  <2>6. CASE Closes(w) BY <2>6, ClosesRows
  <2>3. CASE Hears(w) BY <2>3 DEF Hears
  <2>4. CASE Reopens(w)
    <3>1. view[w] = db /\ view[w].gens = 0 /\ db.gens > 0 BY <1>2, <2>4 DEF Reopens
    <3> QED BY <3>1
  <2>5. CASE Spawns(w)
    <3>1. PICK v \in Reads(w) : v.status \in {"RESEARCHING", "JUDGING"} BY <2>5 DEF Spawns
    <3>2. view[w] = db BY <1>2, <2>5 DEF Spawns
    <3> QED BY <1>1, <3>1, <3>2, ReadsStatus
  <2> QED BY <1>4, <2>1, <2>2, <2>3, <2>4, <2>5, <2>6, Zenon DEF Effect
<1> QED BY <1>3, <1>4 DEF Effects

LEMMA EffectVerdicts ==
  ASSUME RunInv, RecordInv, VerdictInv, Effects, Single \/ CriticCount = 0
  PROVE  /\ VerdictFits(db')
         /\ CriticCount = 0 => \A t \in Submissions : db.cands[t] # "ABSENT" => db'.cands[t] # "ABSENT"
         /\ Single => db'.status = "COMPLETED" \/ NoVerdict(db')
<1>1. VerdictFits(db) BY DEF VerdictInv
<1>2. Single => ReadsNow /\ (db.status = "COMPLETED" \/ NoVerdict(db)) /\ OpenedOnTime BY DEF VerdictInv
<1>3. ASSUME db'.verdict = db.verdict
      PROVE  Single => db'.status = "COMPLETED" \/ NoVerdict(db')
  <2>1. (Single /\ db.status = "COMPLETED") => db'.status = "COMPLETED" BY <1>2, EndStays DEF Over
  <2> QED BY <1>2, <1>3, <2>1 DEF NoVerdict
<1>4. ASSUME db'.cands = db.cands, db'.verdict = db.verdict
      PROVE  /\ VerdictFits(db')
             /\ CriticCount = 0 => \A t \in Submissions : db.cands[t] # "ABSENT" => db'.cands[t] # "ABSENT"
             /\ Single => db'.status = "COMPLETED" \/ NoVerdict(db')
    BY <1>1, <1>3, <1>4 DEF VerdictFits
<1>5. ASSUME NEW w \in Workers, view[w] # None, view[w].status = "JUDGING" \/ pc[w] = "opened",
             CriticCount # 0, db'.verdict = db.verdict
      PROVE  /\ VerdictFits(db')
             /\ Single => db'.status = "COMPLETED" \/ NoVerdict(db')
  <2>1. view[w] = db BY <1>2, <1>5 DEF ReadsNow
  <2>2. NoVerdict(db') BY <1>2, <1>5, <2>1 DEF NoVerdict, OpenedOnTime
  <2> QED BY <1>5, <2>2 DEF VerdictFits, NoVerdict
<1>6. CASE Plain BY <1>4, <1>6 DEF Plain, Alike
<1>7. ASSUME NEW w \in Workers, Effect(w)
      PROVE  /\ VerdictFits(db')
             /\ CriticCount = 0 => \A t \in Submissions : db.cands[t] # "ABSENT" => db'.cands[t] # "ABSENT"
             /\ Single => db'.status = "COMPLETED" \/ NoVerdict(db')
  <2>1. CASE Plain \/ Starts(w) \/ Reopens(w) \/ Spawns(w) \/ Hears(w) \/ Advances(w)
    <3>1. db'.cands = db.cands /\ db'.verdict = db.verdict
        BY <2>1 DEF Plain, Starts, Reopens, Alike, Spawns, Hears, Advances
    <3> QED BY <1>4, <3>1
  <2>2. CASE Opens(w) BY <1>5, <2>2 DEF Opens
  <2>3. CASE Closes(w)
    <3>1. view[w] # None /\ CriticCount # 0 /\ (view[w].status = "JUDGING" \/ pc[w] = "opened")
        BY <2>3 DEF Closes
    <3> QED BY <1>5, <2>3, <3>1, ClosesRows
  <2>4. CASE Completes(w)
    <3>1. db'.status = "COMPLETED" BY <2>4 DEF Completes
    <3> QED BY <2>4, <3>1, CompletesFits
  <2> QED BY <1>7, <2>1, <2>2, <2>3, <2>4, Zenon DEF Effect
<1> QED BY <1>6, <1>7 DEF Effects

\* A step around the units of work does not lead into a stage just opened.
LEMMA OpenedStays ==
  ASSUME RunInv, [Next]_vars, NEW w \in Workers, pc'[w] = "opened", pc[w] # "opened"
  PROVE  UnitOfWork(w)
<1>1. pc \in [Workers -> UnitsOfWork \union Between] BY DEF RunInv, Loop, LoopInv, LoopTyped
<1>2. ASSUME NEW u \in Workers, UnitOfWork(u) PROVE u = w BY <1>2, UnitOfWorkEnds
<1>3. ASSUME NEW u \in Workers,
             \/ Begin(u) \/ ProviderAnswers(u) \/ ProviderFails(u) \/ EnqueueNext(u)
             \/ Settle(u) \/ Fail(u) \/ CrashWorker(u) \/ Restart(u)
      PROVE  FALSE
  <2>1. \/ pc' = pc
        \/ \E where \in {"result", "raised", "settle", "enqueue", "idle", "dead", "terminal"} : \E keys :
             Goto(u, where, keys)
      BY <1>3 DEF Begin, BeginAt, ProviderAnswers, Return, ProviderFails, EnqueueNext, EnqueueOne,
                  Settle, Fail, CrashWorker, Restart, Drop
  <2> QED BY <1>1, <2>1 DEF Goto
<1>4. ASSUME NEW u \in Workers, NEW j \in Jobs, Claim(u, j) PROVE FALSE
  <2>1. FirstUnit(j.type) # "opened"
    <3>1. j.type \in {"CREATE_GENERATION", "START_JUDGING", "FINALIZE_RUN"} \union AgentJobs BY TypeSays
    <3> QED BY <3>1 DEF FirstUnit, AgentJobs
  <2> QED BY <1>1, <1>4, <2>1 DEF Claim, ClaimFor
<1>5. CASE CreateRun \/ EnqueueCreateGeneration \/ CrashApi \/ UNCHANGED vars \/ \E j \in Jobs : Lapse(j)
    BY <1>5 DEF CreateRun, EnqueueCreateGeneration, CrashApi, Lapse, vars, workerVars
<1> QED BY <1>2, <1>3, <1>4, <1>5, Zenon DEF Next, Proceed

LEMMA OpenedKept ==
  ASSUME RunInv, Single, ReadsNow, OpenedOnTime, [Next]_vars
  PROVE  OpenedOnTime'
<1> SUFFICES ASSUME NEW w \in Workers, pc'[w] = "opened" PROVE db'.status # "COMPLETED"
    BY DEF OpenedOnTime
<1>1. CASE UnitOfWork(w)
  <2>1. view[w] # None /\ view[w].status = "JUDGING" /\ db'.status = db.status
      BY <1>1, OnlyByOpening
  <2> QED BY <2>1 DEF ReadsNow
<1>2. CASE ~UnitOfWork(w)
  <2>1. pc[w] = "opened" /\ db.status # "COMPLETED" BY <1>2, OpenedStays DEF OpenedOnTime
  <2>2. db.status # "NONE" BY <2>1, InsideFits DEF Inside
  <2>3. \A u \in Workers : ~UnitOfWork(u) BY <1>2 DEF Single
  <2> QED BY <2>1, <2>2, <2>3, OnlyUnitsWrite
<1> QED BY <1>1, <1>2

LEMMA InitVerdicts == ASSUME Init PROVE VerdictInv
<1>1. /\ \A w \in Workers : view[w] = None /\ pc[w] = "idle"
      /\ \A s \in Submissions : db.verdict[s] = "NONE" /\ db.cands[s] = "ABSENT"
    BY DEF Init, LoopInit
<1> QED BY <1>1 DEF VerdictInv, ReadsNow, NoVerdict, VerdictFits, OpenedOnTime

LEMMA NextKeepsVerdicts ==
  ASSUME RunInv, RecordInv, VerdictInv, [Next]_vars
  PROVE  VerdictInv'
<1>1. Effects /\ Around BY NextDoes, NextAround
<1>2. Single => ReadsNow' BY ReadsNowKept DEF VerdictInv
<1>3. (Single \/ CriticCount = 0) =>
        /\ VerdictFits(db')
        /\ CriticCount = 0 => \A t \in Submissions : db.cands[t] # "ABSENT" => db'.cands[t] # "ABSENT"
        /\ Single => db'.status = "COMPLETED" \/ NoVerdict(db')
    BY <1>1, EffectVerdicts
<1>4. ASSUME CriticCount = 0, NEW u \in Workers, view'[u] # None
      PROVE  /\ VerdictFits(view'[u])
             /\ \A s \in Submissions : view'[u].cands[s] # "ABSENT" => db'.cands[s] # "ABSENT"
  <2>1. view'[u] = view[u] \/ (view'[u] = db /\ db' = db) BY <1>1, <1>4 DEF Around
  <2>2. CASE view'[u] = view[u]
    <3>1. /\ VerdictFits(view[u])
          /\ \A s \in Submissions : view[u].cands[s] # "ABSENT" => db.cands[s] # "ABSENT"
        BY <1>4, <2>2 DEF VerdictInv
    <3> QED BY <1>3, <1>4, <2>2, <3>1
  <2>3. CASE view'[u] = db /\ db' = db BY <1>3, <1>4, <2>3
  <2> QED BY <2>1, <2>2, <2>3
<1>5. Single <=> Single' BY DEF Single
<1>8. Single => OpenedOnTime' BY OpenedKept DEF VerdictInv
<1>6. (Single \/ CriticCount = 0) => VerdictFits(db)' BY <1>3 DEF VerdictFits
<1>7. (CriticCount = 0 => \A w \in Workers : view[w] # None =>
        /\ VerdictFits(view[w])
        /\ \A s \in Submissions : view[w].cands[s] # "ABSENT" => db.cands[s] # "ABSENT")'
    BY <1>4 DEF VerdictFits
<1> QED BY <1>2, <1>3, <1>5, <1>6, <1>7, <1>8 DEF VerdictInv, NoVerdict, ReadsNow

LEMMA VerdictInvariant == Spec => [](RunInv /\ RecordInv /\ VerdictInv)
<1>1. Init => RunInv /\ RecordInv /\ VerdictInv BY InitRun, InitRecord, InitVerdicts
<1>2. RunInv /\ RecordInv /\ VerdictInv /\ [Next]_vars => (RunInv /\ RecordInv /\ VerdictInv)'
    BY NextKeepsRun, NextKeepsRecord, NextKeepsVerdicts
<1> QED BY <1>1, <1>2, PTL DEF Spec

\* The candidate of a completed run is what its verification made of it, where
\* there is one worker, killed and slow as it may be, or where there are no
\* critics, for any number of workers: finalize_run, which verifies on rows it
\* has read before, does not give a verdict over another's.
THEOREM VerdictHolds == Spec => []((Single \/ CriticCount = 0) => VerdictStands)
<1>1. ASSUME RunInv, RecordInv, VerdictInv
      PROVE  (Single \/ CriticCount = 0) => VerdictStands
  <2> SUFFICES ASSUME Single \/ CriticCount = 0, db.status = "COMPLETED", NEW s \in Researchers(Latest(db))
               PROVE  /\ db.cands[s] = "VERIFIED" <=> db.verdict[s] = "PASSED"
                      /\ db.verdict[s] = "FAILED" => db.cands[s] = "REFUTED"
      BY DEF VerdictStands
  <2>1. Latest(db) \in Generations
    <3>1. db.gens = MaxGenerations BY <1>1 DEF RunInv, StatusFits
    <3> QED BY <3>1, RunCreateAssumption DEF Latest, Generations
  <2>2. s \in Submissions BY <2>1, AgentSets
  <2>3. db.verdict[s] # "NONE" => db.cands[s] = CandidateAfter[db.verdict[s]]
      BY <1>1, <2>2 DEF VerdictInv, VerdictFits
  <2>4. db.cands[s] = "VERIFIED" => db.verdict[s] = "PASSED"
      BY <1>1, <2>2 DEF RecordInv, Record, VerdictsFit
  <2> QED BY <2>3, <2>4 DEF CandidateAfter
<1> QED BY <1>1, VerdictInvariant, PTL

\* A single worker never takes a run out of its end, whatever it was killed in
\* and however late it is.
THEOREM OneWorkerEndsOnce == Single => (Spec => TerminalIsFinal)
<1> SUFFICES ASSUME Single PROVE Spec => TerminalIsFinal OBVIOUS
<1>1. ASSUME RunInv, VerdictInv, [Next]_vars
      PROVE  [(db.status \in Over /\ budget.lapses = 0) => db'.status = db.status]_vars
  <2>1. Effects /\ ReadsNow BY <1>1, NextDoes DEF VerdictInv
  <2> QED BY <1>1, <2>1, EndStays
<1> QED BY <1>1, VerdictInvariant, PTL DEF Spec, TerminalIsFinal

\* Where none may, no live worker loses a lease.
LEMMA NoLapses == Spec => [](MaxLapses = 0 => budget.lapses = 0)
<1>1. Init => (MaxLapses = 0 => budget.lapses = 0) BY DEF Init, LoopInit
<1>2. ASSUME RunInv, MaxLapses = 0 => budget.lapses = 0, [Next]_vars
      PROVE  (MaxLapses = 0 => budget.lapses = 0)'
  <2> SUFFICES ASSUME MaxLapses = 0, budget.lapses = 0 PROVE budget'.lapses = 0 BY <1>2
  <2>1. budget \in [raises : Nat, lapses : Nat, crashes : Nat, lost : SUBSET Jobs]
      BY <1>2 DEF RunInv, Loop, LoopInv, LoopTyped
  <2>2. ASSUME NEW w \in Workers, Continues(w) PROVE budget'.lapses = 0
      BY <1>2, <2>1, <2>2 DEF Continues, Works
  <2>3. ASSUME NEW w \in Workers, UnitOfWork(w) \/ ProviderAnswers(w) \/ ProviderFails(w)
        PROVE  budget'.lapses = 0
    <3>1. CASE ReportFailure(w) BY <1>2, <3>1 DEF ReportFailure
    <3>2. CASE Continues(w) BY <2>2, <3>2
    <3> QED BY <1>2, <2>3, <3>1, <3>2, Zenon, StartRunContinues, MaybeScheduleJudgingContinues,
               StartJudgingContinues, MaybeScheduleFinalizeContinues, AfterOpeningContinues,
               FinalizeRunContinues, FailRunContinues, StartContinues, StoreSubmissionContinues,
               StoreEvaluationsContinues, StoreFindingContinues, ProviderAnswersContinues,
               ProviderFailsContinues DEF UnitOfWork
  <2>4. ASSUME NEW w \in Workers,
               \/ Begin(w) \/ EnqueueNext(w) \/ Settle(w) \/ Fail(w) \/ CrashWorker(w) \/ Restart(w)
        PROVE  budget'.lapses = 0
      BY <1>2, <2>1, <2>4
      DEF Begin, BeginAt, EnqueueNext, EnqueueOne, Settle, Fail, CrashWorker, Restart
  <2>5. ASSUME NEW j \in Jobs, Lapse(j) PROVE budget'.lapses = 0
      BY <1>2, <2>1, <2>5 DEF Lapse, May
  <2>6. CASE \/ CreateRun \/ EnqueueCreateGeneration \/ CrashApi \/ UNCHANGED vars
             \/ \E w \in Workers, j \in Jobs : Claim(w, j)
      BY <1>2, <2>1, <2>6 DEF CreateRun, EnqueueCreateGeneration, CrashApi, Claim, ClaimFor, vars
  <2> QED BY <1>2, <2>3, <2>4, <2>5, <2>6, Zenon DEF Next, Proceed
<1>3. Spec => []RunInv BY RunInvariant, PTL
<1> QED BY <1>1, <1>2, <1>3, PTL DEF Spec

\* A worker on a job of a generation that has been left behind does not move the
\* run, except to fail it: whatever it has read of the run that is out of date, it
\* also reads that its generation has its judges, or is no longer the latest.
THEOREM StaleJobsAreHarmless == (Single \/ MaxLapses = 0) => (Spec => StaleJobsMoveNothing)
<1> SUFFICES ASSUME Single \/ MaxLapses = 0 PROVE Spec => StaleJobsMoveNothing OBVIOUS
<1>1. ASSUME RunInv, Undisturbed, VerdictInv, MaxLapses = 0 => budget.lapses = 0, [Next]_vars,
             NEW w \in Workers, job[w] # None, job[w].gen < Latest(db), pc'[w] # pc[w]
      PROVE  db'.status \in {db.status, "FAILED"}
  <2> DEFINE g == job[w].gen
  <2>1. g \in Generations /\ db.gens \in Nat /\ db.gens <= MaxGenerations /\ g \in Nat /\ g + 1 < db.gens
    <3>1. g \in Generations /\ g \in Nat BY <1>1, HolderFits, JobParts, GenerationsType
    <3>2. db \in Database BY <1>1 DEF RunInv
    <3>3. db.gens \in Nat /\ db.gens <= MaxGenerations BY <3>2, GensType
    <3>4. g < db.gens - 1 BY <1>1 DEF Latest
    <3>5. g + 1 < db.gens BY <3>1, <3>3, <3>4
    <3> QED BY <3>1, <3>3, <3>5
  <2>2. db.status # "NONE" BY <2>1, <1>1, GenerationsType DEF RunInv, StatusFits
  <2>3. CASE db' = db BY <2>3
  <2>4. CASE db' # db
    <3>1. PICK u \in Workers : UnitOfWork(u) BY <1>1, <2>2, <2>4, OnlyUnitsWrite
    <3>2. u = w BY <1>1, <3>1, UnitOfWorkEnds
    <3>3. ReportFailure(w) \/ Effect(w)
        BY <1>1, <3>1, <3>2, WorkerDoes
    <3>4. (Plain /\ NothingFinal) \/ Effect(w) BY <1>1, <3>3, ReportFailureDoes
    <3>5. CASE Plain BY <2>2, <3>5 DEF Plain
    <3>6. CASE Hears(w) \/ Opens(w) BY <3>6 DEF Hears, Opens
    <3>7. CASE Closes(w)
      <4> QED BY <1>1, <3>7, ClosesRows
    <3>8. ~Starts(w) BY <2>1 DEF Starts
    <3>9. ~Completes(w) BY <2>1 DEF Completes
    <3>10. ~Advances(w) BY <2>1 DEF Advances
    <3>11. CASE Reopens(w) \/ Spawns(w)
      <4>1. view[w] # None BY <3>11 DEF Reopens, Spawns
      <4>2. CASE Single
        <5>1. view[w] = db BY <1>1, <4>1, <4>2 DEF VerdictInv, ReadsNow
        <5>2. ~Reopens(w) BY <2>1, <5>1 DEF Reopens
        <5>3. ASSUME NEW v \in Reads(w), IsLatest(v, g) PROVE FALSE
          <6>1. v.gens = db.gens BY <1>1, <5>1 DEF Reads, RunInv, Database
          <6> QED BY <2>1, <5>3, <6>1 DEF IsLatest, Latest
        <5> QED BY <3>11, <5>2, <5>3 DEF Spawns
      <4>3. CASE MaxLapses = 0
        <5>1. budget.lapses = 0 /\ Knows
            BY <1>1, <4>3 DEF Undisturbed, RunInv, Loop, LoopInv, LoopTyped
        <5>2. ~Reopens(w) BY <2>1, <5>1, ReopensNever
        <5>3. PICK v \in Reads(w) :
                /\ pc[w] = "judging" /\ IsLatest(v, g)
                /\ \/ v.status = "RESEARCHING" /\ db'.status = "JUDGING"
                   \/ v.status = "JUDGING" /\ db'.status = db.status
            BY <3>11, <5>2 DEF Spawns
        <5>4. v.status # "RESEARCHING"
          <6> SUFFICES ASSUME v.status = "RESEARCHING" PROVE FALSE OBVIOUS
          <6>1. v = view[w]
            <7>1. v.gens # db.gens
              <8>1. v.gens \in Nat BY <1>1, <4>1, ReadsFit, GensType
              <8> QED BY <2>1, <5>3, <8>1 DEF IsLatest, Latest
            <7> QED BY <1>1, <7>1 DEF Reads, RunInv, Database
          <6>2. JudgesFollow(db, g) BY <1>1, <2>1 DEF RunInv, Shape
          <6>3. PICK c \in Copies : Agent(g, "judge", 1, c) \in Here(db)
              BY <6>2 DEF JudgesFollow, JudgeCount
          <6>4. Agent(g, "judge", 1, c).role = "judge" /\ Agent(g, "judge", 1, c).gen = g
              BY DEF Agent
          <6>5. Agent(g, "judge", 1, c) \in Here(view[w])
              BY <4>1, <5>1, <5>3, <6>3, <6>4 DEF Knows, SeesJudges
          <6>6. NoJudgeYet(view[w]) BY <4>1, <5>1 DEF Knows, SeesJudges
          <6> QED BY <5>3, <6>1, <6>4, <6>5, <6>6 DEF NoJudgeYet, IsLatest
        <5> QED BY <5>3, <5>4
      <4> QED BY <4>2, <4>3
    <3> QED BY <3>4, <3>5, <3>6, <3>7, <3>8, <3>9, <3>10, <3>11, Zenon DEF Effect
  <2> QED BY <2>3, <2>4
<1>2. ASSUME RunInv, Undisturbed, VerdictInv, MaxLapses = 0 => budget.lapses = 0, [Next]_vars
      PROVE  [\A w \in Workers :
                (job[w] # None /\ job[w].gen < Latest(db) /\ pc'[w] # pc[w]) =>
                  db'.status \in {db.status, "FAILED"}]_vars
    BY <1>1, <1>2
<1> QED BY <1>2, VerdictInvariant, KnowledgeInvariant, NoLapses, PTL DEF Spec, StaleJobsMoveNothing

-----------------------------------------------------------------------------
(* What agents have done, as long as no live worker has lost a lease.        *)

\* The result of an agent is stored: for a judge, of its whole generation.
Answered(d, a) ==
  /\ a.role = "researcher" => a \in d.subs
  /\ a.role = "judge" => \A s \in Researchers(a.gen) : <<s, a>> \in d.evals
  /\ a.role = "critic" => Findings(d, a) # {}
JudgesAnswered(d, g) ==
  /\ JudgesFollow(d, g)
  /\ \A a \in Here(d) \intersect JudgesOf(g) :
       d.agents[a] \in {"COMPLETED", "FAILED"} /\ Answered(d, a)

\* An agent that is COMPLETED has answered, judges judge their own generation,
\* and critics come after all of its judges.
ResultsFit(d) ==
  /\ \A a \in Agents : d.agents[a] = "COMPLETED" => Answered(d, a)
  /\ \A e \in d.evals : e[2].gen = e[1].gen /\ e[2] \in Here(d)
  /\ \A a \in Here(d) : a.role = "critic" =>
       JudgesAnswered(d, a.gen) /\ d.cands[Elite(a.gen, {})] # "ABSENT"

\* An agent that was seen COMPLETED or FAILED is so still, or has failed since.
AgentsStand(v, d) == \A a \in Agents :
  /\ v.agents[a] = "COMPLETED" => d.agents[a] \in {"COMPLETED", "FAILED"}
  /\ v.agents[a] = "FAILED" => d.agents[a] = "FAILED"

\* What the database says of one agent.
SameRows(v, d, a) ==
  /\ v.agents[a] = d.agents[a] /\ (a \in v.subs <=> a \in d.subs)
  /\ \A s \in Submissions : <<s, a>> \in v.evals <=> <<s, a>> \in d.evals
  /\ Findings(v, a) = Findings(d, a)

\* Nobody but its own worker writes the rows of an agent.
OwnRows(w) == (job[w] # None /\ pc[w] # "terminal") =>
  LET a == job[w].agent IN
  /\ (a # None /\ view[w] # None) => SameRows(view[w], db, a)
  /\ pc[w] \in {"schedule", "opened", "failrun"} => db.agents[a] = "COMPLETED"
FailedJobs == \A j \in Jobs :
  (j.agent # None /\ db.agents[j.agent] = "FAILED") => jobs[j].status = "failed"

Results ==
  /\ ResultsFit(db) /\ FailedJobs
  /\ \A w \in Workers :
       /\ OwnRows(w)
       /\ view[w] # None => ResultsFit(view[w]) /\ AgentsStand(view[w], db)
ResultsInv == budget.lapses = 0 => Results

-----------------------------------------------------------------------------
(* Jobs of agents.                                                         *)

LEMMA AgentJobForms ==
  ASSUME NEW j \in Jobs, j.agent # None
  PROVE  \E g \in Generations :
           \/ \E a \in Researchers(g) : j = ResearchJob(a)
           \/ \E a \in JudgesOf(g) : j = JudgeJob(a)
           \/ \E a \in CriticsOf(g) : j = CriticJob(a)
<1>1. CreateJob.agent = None /\ \A g : StartJudgingJob(g).agent = None /\ FinalizeJob(g).agent = None
  BY DEF CreateJob, StartJudgingJob, FinalizeJob, Job
<1> QED BY <1>1 DEF Jobs

\* An agent has one job.
LEMMA OneJobPerAgent ==
  ASSUME NEW j \in Jobs, NEW k \in Jobs, j.agent # None, k.agent = j.agent
  PROVE  k = j
<1>1. PICK g \in Generations : \/ \E a \in Researchers(g) : j = ResearchJob(a)
                               \/ \E a \in JudgesOf(g) : j = JudgeJob(a)
                               \/ \E a \in CriticsOf(g) : j = CriticJob(a)
  BY AgentJobForms
<1>2. PICK h \in Generations : \/ \E a \in Researchers(h) : k = ResearchJob(a)
                               \/ \E a \in JudgesOf(h) : k = JudgeJob(a)
                               \/ \E a \in CriticsOf(h) : k = CriticJob(a)
  BY AgentJobForms
<1>3. \A a : ResearchJob(a).agent = a /\ JudgeJob(a).agent = a /\ CriticJob(a).agent = a
  BY DEF ResearchJob, JudgeJob, CriticJob, Job
<1>4. /\ \A a \in Researchers(g) \union Researchers(h) : a.role = "researcher"
      /\ \A a \in JudgesOf(g) \union JudgesOf(h) : a.role = "judge"
      /\ \A a \in CriticsOf(g) \union CriticsOf(h) : a.role = "critic"
  BY ResearcherParts, JudgeParts, CriticParts
<1>5. CASE \E a \in Researchers(g) : j = ResearchJob(a)
  BY <1>5, <1>2, <1>3, <1>4
<1>6. CASE \E a \in JudgesOf(g) : j = JudgeJob(a)
  BY <1>6, <1>2, <1>3, <1>4
<1>7. CASE \E a \in CriticsOf(g) : j = CriticJob(a)
  BY <1>7, <1>2, <1>3, <1>4
<1> QED BY <1>1, <1>5, <1>6, <1>7

-----------------------------------------------------------------------------
(* The two ways in which the rows of agents change.                        *)

\* Agents come to be, none twice: judges where there are none of a role, and
\* critics once all judges have answered.
Spawning(d, e, new) ==
  /\ new \in SUBSET Agents /\ new \intersect Here(d) = {}
  /\ \A a \in Agents : e.agents[a] = IF a \in new THEN "PENDING" ELSE d.agents[a]
  /\ e.subs = d.subs /\ e.evals = d.evals /\ e.finds = d.finds
  /\ \A s \in Submissions : d.cands[s] # "ABSENT" => e.cands[s] # "ABSENT"
  /\ \A a \in new : a.role = "judge" => ~JudgesFollow(d, a.gen)
  /\ \A a \in new : a.role = "critic" =>
       JudgesAnswered(d, a.gen) /\ e.cands[Elite(a.gen, {})] # "ABSENT"

\* The rows of one agent are written.
Writing(d, e, a) ==
  /\ a \in Here(d) /\ \A b \in Agents \ {a} : SameRows(d, e, b)
  /\ e.agents[a] # "ABSENT" /\ e.cands = d.cands
  /\ d.subs \subseteq e.subs /\ d.evals \subseteq e.evals /\ d.finds \subseteq e.finds
  /\ \A x \in e.evals : x \in d.evals \/ (x[2] = a /\ x[1].gen = a.gen)
OwnDoes(w) ==
  LET a == job[w].agent IN
  /\ job[w] # None /\ a # None /\ view'[w] = None /\ Writing(db, db', a)
  /\ \/ pc[w] = "start" /\ db'.agents[a] = "RUNNING" /\ ~Answered(db, a)
     \/ pc[w] \in {"start", "result"} /\ db'.agents[a] = "COMPLETED" /\ Answered(db', a)
     \/ pc[w] = "terminal" /\ db'.agents[a] = "FAILED" /\ db'.status = "FAILED"

Changes == (\E new : Spawning(db, db', new)) \/ \E w \in Workers : OwnDoes(w)
SchedulesOwn == \A u \in Workers : pc'[u] \in {"schedule", "opened", "failrun"} =>
  \/ pc[u] \in {"schedule", "opened", "failrun"} /\ job'[u] = job[u]
  \/ db'.agents[job'[u].agent] = "COMPLETED"

LEMMA AnsweredStill ==
  ASSUME NEW d, NEW e, NEW a, Answered(d, a),
         d.subs \subseteq e.subs, d.evals \subseteq e.evals, d.finds \subseteq e.finds
  PROVE  Answered(e, a)
<1>1. Findings(d, a) \subseteq Findings(e, a)
  BY DEF Findings
<1> QED BY <1>1 DEF Answered

\* What follows of any such change.
StandsBy(d, e) ==
  /\ ResultsFit(e) /\ AgentsStand(d, e)
  /\ \A g \in Generations : JudgesAnswered(d, g) => JudgesAnswered(e, g)

LEMMA SpawningStands ==
  ASSUME NEW d \in Database, NEW e \in Database, NEW new, ResultsFit(d), Spawning(d, e, new)
  PROVE  /\ StandsBy(d, e) /\ \A a \in Here(d) : SameRows(d, e, a)
         /\ \A a \in Agents : e.agents[a] = "FAILED" => d.agents[a] = "FAILED"
<1>1. Here(e) = Here(d) \union new
  BY DEF Spawning, Here
<1>2. \A a \in Here(d) : SameRows(d, e, a) /\ a \in Agents
  BY DEF Spawning, Here, SameRows, Findings
<1>3. \A a \in Agents : /\ e.agents[a] = "FAILED" => d.agents[a] = "FAILED"
                        /\ e.agents[a] = "COMPLETED" => d.agents[a] = "COMPLETED"
  BY DEF Spawning
<1>4. \A a : Answered(d, a) => Answered(e, a)
  BY AnsweredStill DEF Spawning
<1>5. AgentsStand(d, e)
  <2>1. \A a \in Agents : d.agents[a] \in {"COMPLETED", "FAILED"} => e.agents[a] = d.agents[a]
    BY DEF Spawning, Here
  <2> QED BY <2>1 DEF AgentsStand
<1>6. ASSUME NEW g \in Generations, JudgesAnswered(d, g) PROVE JudgesAnswered(e, g)
  <2>1. JudgesFollow(d, g)
    BY <1>6 DEF JudgesAnswered
  <2>2. JudgesFollow(e, g)
    BY <2>1, <1>1 DEF JudgesFollow
  <2>3. ASSUME NEW a \in Here(e) \intersect JudgesOf(g)
        PROVE  e.agents[a] \in {"COMPLETED", "FAILED"} /\ Answered(e, a)
    <3>1. a.role = "judge" /\ a.gen = g
      BY JudgeParts
    <3>2. a \in Here(d) /\ a \in Agents
      BY <3>1, <2>1, <1>1, <1>2 DEF Spawning
    <3>3. e.agents[a] = d.agents[a]
      BY <3>2, <1>2 DEF SameRows
    <3> QED BY <3>2, <3>3, <1>4, <1>6 DEF JudgesAnswered
  <2> QED BY <2>2, <2>3 DEF JudgesAnswered
<1>7. ResultsFit(e)
  <2>1. \A a \in Agents : e.agents[a] = "COMPLETED" => Answered(e, a)
    BY <1>3, <1>4 DEF ResultsFit
  <2>2. \A x \in e.evals : x[2].gen = x[1].gen /\ x[2] \in Here(e)
    BY <1>1 DEF ResultsFit, Spawning
  <2>3. ASSUME NEW a \in Here(e), a.role = "critic"
        PROVE  JudgesAnswered(e, a.gen) /\ e.cands[Elite(a.gen, {})] # "ABSENT"
    <3>1. a \in Agents /\ a.gen \in Generations
      BY AgentParts DEF Here
    <3>2. Elite(a.gen, {}) \in Submissions
      BY <3>1, EliteParts
    <3>3. JudgesAnswered(d, a.gen)
      BY <2>3, <1>1 DEF ResultsFit, Spawning
    <3>4. e.cands[Elite(a.gen, {})] # "ABSENT"
      <4>1. CASE a \in Here(d)
        BY <4>1, <2>3, <3>2 DEF ResultsFit, Spawning
      <4>2. CASE a \in new
        BY <4>2, <2>3 DEF Spawning
      <4> QED BY <4>1, <4>2, <1>1
    <3> QED BY <3>1, <3>3, <3>4, <1>6
  <2> QED BY <2>1, <2>2, <2>3 DEF ResultsFit
<1> QED BY <1>2, <1>3, <1>5, <1>6, <1>7 DEF StandsBy

LEMMA WritingStands ==
  ASSUME NEW d \in Database, NEW e \in Database, NEW a \in Agents, ResultsFit(d), Writing(d, e, a),
         \/ e.agents[a] = "RUNNING" /\ ~Answered(d, a) /\ d.agents[a] # "FAILED"
         \/ e.agents[a] = "COMPLETED" /\ Answered(e, a) /\ d.agents[a] # "FAILED"
         \/ e.agents[a] = "FAILED"
  PROVE  StandsBy(d, e)
<1>1. Here(e) = Here(d)
  BY DEF Writing, Here, SameRows
<1>2. \A b \in Agents : b # a => e.agents[b] = d.agents[b]
  BY DEF Writing, SameRows
<1>3. \A b : Answered(d, b) => Answered(e, b)
  BY AnsweredStill DEF Writing
<1>4. d.agents[a] = "COMPLETED" => Answered(d, a)
  BY DEF ResultsFit
<1>5. AgentsStand(d, e)
  BY <1>2, <1>4 DEF AgentsStand
<1>6. ASSUME NEW g \in Generations, JudgesAnswered(d, g) PROVE JudgesAnswered(e, g)
  <2>1. JudgesFollow(e, g)
    BY <1>6, <1>1 DEF JudgesAnswered, JudgesFollow
  <2>2. ASSUME NEW b \in Here(e) \intersect JudgesOf(g)
        PROVE  e.agents[b] \in {"COMPLETED", "FAILED"} /\ Answered(e, b)
    <3>1. d.agents[b] \in {"COMPLETED", "FAILED"} /\ Answered(d, b) /\ b \in Agents
      BY <1>6, <1>1 DEF JudgesAnswered, Here
    <3> QED BY <3>1, <1>2, <1>3
  <2> QED BY <2>1, <2>2 DEF JudgesAnswered
<1>7. ResultsFit(e)
  <2>1. \A b \in Agents : e.agents[b] = "COMPLETED" => Answered(e, b)
    BY <1>2, <1>3 DEF ResultsFit
  <2>2. \A x \in e.evals : x[2].gen = x[1].gen /\ x[2] \in Here(e)
    BY <1>1 DEF ResultsFit, Writing
  <2>3. ASSUME NEW b \in Here(e), b.role = "critic"
        PROVE  JudgesAnswered(e, b.gen) /\ e.cands[Elite(b.gen, {})] # "ABSENT"
    <3>1. b.gen \in Generations
      BY AgentParts DEF Here
    <3>2. JudgesAnswered(d, b.gen) /\ d.cands[Elite(b.gen, {})] # "ABSENT"
      BY <2>3, <1>1 DEF ResultsFit
    <3> QED BY <3>1, <3>2, <1>6 DEF Writing
  <2> QED BY <2>1, <2>2, <2>3 DEF ResultsFit
<1> QED BY <1>5, <1>6, <1>7 DEF StandsBy

\* A nonterminal holder's job is running, and its agent has not failed.
LEMMA HolderOfAgent ==
  ASSUME RunInv, FailedJobs, budget.lapses = 0, NEW w \in Workers, job[w] # None, job[w].agent # None
  PROVE  /\ job[w] \in Jobs /\ job[w].agent \in Here(db) /\ job[w].agent \in Agents
         /\ pc[w] # "terminal" => /\ Owns(w) /\ jobs[job[w]].status = "running"
                                  /\ db.agents[job[w].agent] # "FAILED"
         /\ pc[w] = "terminal" => jobs[job[w]].status = "failed"
<1>1. job[w] \in Jobs /\ JobFits(job[w], db)
  BY HolderFits
<1>2. job[w].agent \in Here(db) /\ job[w].agent \in Agents
  BY <1>1 DEF JobFits, Here
<1>3. IF pc[w] = "terminal" THEN jobs[job[w]].status = "failed" ELSE Owns(w)
  BY DEF RunInv, Loop, LoopInv, Exclusive
<1> QED BY <1>1, <1>2, <1>3 DEF Owns, FailedJobs

LEMMA ChangesStand ==
  ASSUME RunInv, Results, budget.lapses = 0, db' \in Database, Changes
  PROVE  /\ StandsBy(db, db')
         /\ \A a \in Agents : (db'.agents[a] = "FAILED" /\ db.agents[a] # "FAILED") =>
              /\ db'.status = "FAILED"
              /\ \E w \in Workers : pc[w] = "terminal" /\ job[w] # None /\ job[w].agent = a
         /\ \A u \in Workers : (job[u] # None /\ job[u].agent # None /\ pc[u] # "terminal") =>
              SameRows(db, db', job[u].agent) \/ (OwnDoes(u) /\ pc[u] \in {"start", "result"})
<1>0. db \in Database
  BY DEF RunInv
<1>1. CASE \E new : Spawning(db, db', new)
  <2>1. PICK new : Spawning(db, db', new)
    BY <1>1
  <2>2. /\ StandsBy(db, db') /\ \A a \in Here(db) : SameRows(db, db', a)
        /\ \A a \in Agents : db'.agents[a] = "FAILED" => db.agents[a] = "FAILED"
    BY <2>1, <1>0, SpawningStands DEF Results
  <2>3. \A u \in Workers : (job[u] # None /\ job[u].agent # None) => job[u].agent \in Here(db)
    BY HolderFits DEF JobFits
  <2> QED BY <2>2, <2>3
<1>2. CASE \E w \in Workers : OwnDoes(w)
  <2>1. PICK w \in Workers : OwnDoes(w)
    BY <1>2
  <2> DEFINE a == job[w].agent
  <2>2. /\ job[w] # None /\ a # None /\ Writing(db, db', a)
        /\ \/ pc[w] = "start" /\ db'.agents[a] = "RUNNING" /\ ~Answered(db, a)
           \/ pc[w] \in {"start", "result"} /\ db'.agents[a] = "COMPLETED" /\ Answered(db', a)
           \/ pc[w] = "terminal" /\ db'.agents[a] = "FAILED" /\ db'.status = "FAILED"
    BY <2>1 DEF OwnDoes
  <2>3. /\ job[w] \in Jobs /\ a \in Agents
        /\ pc[w] # "terminal" => Owns(w) /\ jobs[job[w]].status = "running" /\ db.agents[a] # "FAILED"
        /\ pc[w] = "terminal" => jobs[job[w]].status = "failed"
    BY <2>2, HolderOfAgent DEF Results
  <2>4. StandsBy(db, db')
    BY <2>2, <2>3, <1>0, WritingStands DEF Results
  <2>5. ASSUME NEW b \in Agents, db'.agents[b] = "FAILED", db.agents[b] # "FAILED"
        PROVE  b = a /\ pc[w] = "terminal" /\ db'.status = "FAILED"
    BY <2>2, <2>5 DEF Writing, SameRows
  <2>6. ASSUME NEW u \in Workers, job[u] # None, job[u].agent # None, pc[u] # "terminal",
               ~SameRows(db, db', job[u].agent)
        PROVE  OwnDoes(u) /\ pc[u] \in {"start", "result"}
    <3>1. job[u] \in Jobs /\ job[u].agent \in Agents /\ jobs[job[u]].status = "running"
      BY <2>6, HolderOfAgent DEF Results
    <3>2. job[u].agent = a
      BY <2>2, <2>6, <3>1 DEF Writing
    <3>3. job[u] = job[w]
      BY <3>1, <3>2, <2>2, <2>3, OneJobPerAgent
    <3>4. pc[w] # "terminal"
      BY <3>1, <3>3, <2>3
    <3>5. u = w
      BY <3>3, <3>4, <2>2, <2>6, Alone
    <3> QED BY <3>5, <3>4, <2>1, <2>2
  <2> QED BY <2>1, <2>2, <2>4, <2>5, <2>6
<1> QED BY <1>1, <1>2 DEF Changes

LEMMA AgentsStandOn ==
  ASSUME NEW v, NEW d, NEW e, AgentsStand(v, d), AgentsStand(d, e)
  PROVE  AgentsStand(v, e)
BY DEF AgentsStand

LEMMA SameRowsOn ==
  ASSUME NEW v, NEW d, NEW e, NEW a, SameRows(v, d, a), SameRows(d, e, a)
  PROVE  SameRows(v, e, a)
BY DEF SameRows

LEMMA ResultsKept ==
  ASSUME RunInv, RunInv', Results, budget.lapses = 0, budget'.lapses = 0, Around, RowsMove(Jobs),
         Changes, SchedulesOwn
  PROVE  Results'
<1>0. db' \in Database /\ db \in Database
  BY DEF RunInv
<1>1. /\ StandsBy(db, db')
      /\ \A a \in Agents : (db'.agents[a] = "FAILED" /\ db.agents[a] # "FAILED") =>
           \E w \in Workers : pc[w] = "terminal" /\ job[w] # None /\ job[w].agent = a
      /\ \A u \in Workers : (job[u] # None /\ job[u].agent # None /\ pc[u] # "terminal") =>
           SameRows(db, db', job[u].agent) \/ (OwnDoes(u) /\ pc[u] \in {"start", "result"})
  BY <1>0, ChangesStand
<1>2. ResultsFit(db')
  BY <1>1 DEF StandsBy
<1>3. FailedJobs'
  <2> SUFFICES ASSUME NEW j \in Jobs, j.agent # None, db'.agents[j.agent] = "FAILED"
               PROVE  jobs'[j].status = "failed"
    BY DEF FailedJobs
  <2>1. j.agent \in Agents
    BY TypeSays
  <2>2. jobs[j].status = "failed"
    <3>1. CASE db.agents[j.agent] = "FAILED"
      BY <3>1 DEF Results, FailedJobs
    <3>2. CASE db.agents[j.agent] # "FAILED"
      <4>1. PICK w \in Workers : pc[w] = "terminal" /\ job[w] # None /\ job[w].agent = j.agent
        BY <3>2, <2>1, <1>1
      <4>2. job[w] \in Jobs /\ jobs[job[w]].status = "failed"
        BY <4>1, HolderOfAgent DEF Results
      <4>3. job[w] = j
        BY <4>1, <4>2, OneJobPerAgent
      <4> QED BY <4>2, <4>3
    <3> QED BY <3>1, <3>2
  <2>3. RowMoves(jobs[j], jobs'[j])
    BY DEF RowsMove
  <2> QED BY <2>2, <2>3 DEF RowMoves
<1>4. ASSUME NEW u \in Workers
      PROVE  OwnRows(u)' /\ (view'[u] # None => ResultsFit(view'[u]) /\ AgentsStand(view'[u], db'))
  <2>1. view'[u] # None => ResultsFit(view'[u]) /\ AgentsStand(view'[u], db')
    <3> SUFFICES ASSUME view'[u] # None PROVE ResultsFit(view'[u]) /\ AgentsStand(view'[u], db')
      OBVIOUS
    <3>1. view'[u] = view[u] \/ (view'[u] = db /\ db' = db)
      BY DEF Around
    <3>2. CASE view'[u] = view[u]
      BY <3>2, <1>1, AgentsStandOn DEF Results, StandsBy
    <3>3. CASE view'[u] = db
      BY <3>3, <1>1, <1>2, <3>1 DEF Results, StandsBy
    <3> QED BY <3>1, <3>2, <3>3
  <2>2. OwnRows(u)'
    <3> DEFINE a == job'[u].agent
    <3> SUFFICES ASSUME job'[u] # None, pc'[u] # "terminal"
                 PROVE  /\ (a # None /\ view'[u] # None) => SameRows(view'[u], db', a)
                        /\ pc'[u] \in {"schedule", "opened", "failrun"} => db'.agents[a] = "COMPLETED"
      BY DEF OwnRows
    <3>1. ASSUME a # None, view'[u] # None PROVE SameRows(view'[u], db', a)
      <4>1. job'[u] = job[u] /\ pc'[u] = pc[u]
        BY <3>1 DEF Around
      <4>2. view'[u] = view[u] \/ (view'[u] = db /\ db' = db)
        BY <3>1 DEF Around
      <4>3. CASE view'[u] = db /\ db' = db
        <5> HIDE DEF a
        <5> QED BY <4>3 DEF SameRows
      <4>4. CASE view'[u] = view[u]
        <5>1. SameRows(view[u], db, a)
          BY <4>1, <4>4, <3>1 DEF Results, OwnRows
        <5>2. ~OwnDoes(u)
          BY <3>1 DEF OwnDoes
        <5>3. SameRows(db, db', a)
          BY <4>1, <5>2, <3>1, <1>1
        <5> HIDE DEF a
        <5> QED BY <4>4, <5>1, <5>3, SameRowsOn
      <4> QED BY <4>2, <4>3, <4>4
    <3>2. ASSUME pc'[u] \in {"schedule", "opened", "failrun"} PROVE db'.agents[a] = "COMPLETED"
      <4>1. CASE pc[u] \in {"schedule", "opened", "failrun"} /\ job'[u] = job[u]
        <5>1. db.agents[a] = "COMPLETED"
          BY <4>1 DEF Results, OwnRows
        <5>2. job[u].agent \in Here(db) /\ job[u].type \in AgentJobs /\ job[u] \in Jobs
          BY <4>1, InsideFits DEF Inside
        <5>3. job[u].agent # None
          BY <5>2, TypeSays, NoneAssumption
        <5>4. SameRows(db, db', a)
          BY <4>1, <5>3, <1>1
        <5> HIDE DEF a
        <5> QED BY <5>1, <5>4 DEF SameRows
      <4>2. CASE db'.agents[job'[u].agent] = "COMPLETED"
        BY <4>2
      <4> QED BY <3>2, <4>1, <4>2 DEF SchedulesOwn
    <3> QED BY <3>1, <3>2
  <2> QED BY <2>1, <2>2
<1> QED BY <1>2, <1>3, <1>4 DEF Results

-----------------------------------------------------------------------------
(* Every step changes agents in these ways only.                           *)

ResultsStep == Changes /\ SchedulesOwn

LEMMA RowsStay ==
  ASSUME db' = db \/ (/\ db'.agents = db.agents /\ db'.subs = db.subs /\ db'.evals = db.evals
                      /\ db'.finds = db.finds
                      /\ \A s \in Submissions : db.cands[s] # "ABSENT" => db'.cands[s] # "ABSENT")
  PROVE  Changes
<1>1. Spawning(db, db', {})
  BY Zenon DEF Spawning
<1> QED BY <1>1 DEF Changes

LEMMA GotoSchedules ==
  ASSUME RunInv, NEW w \in Workers, NEW where, NEW keys, Goto(w, where, keys),
         job' = job \/ job' = [job EXCEPT ![w] = None],
         where \in {"schedule", "opened", "failrun"} =>
           job' = job /\ (pc[w] \in {"schedule", "opened", "failrun"} \/ db'.agents[job[w].agent] = "COMPLETED")
  PROVE  SchedulesOwn
<1>1. pc \in [Workers -> UnitsOfWork \union Between] /\ job \in [Workers -> Jobs \union {None}]
  BY DEF RunInv, Loop, LoopInv, LoopTyped
<1>2. pc'[w] = where /\ \A u \in Workers \ {w} : pc'[u] = pc[u] /\ job'[u] = job[u]
  BY <1>1 DEF Goto
<1> QED BY <1>2 DEF SchedulesOwn

LEMMA ReturnResults ==
  ASSUME RunInv, NEW w \in Workers, NEW where, NEW keys, Return(w, where, keys),
         where \in {"schedule", "opened", "failrun"} =>
           pc[w] \in {"schedule", "opened", "failrun"} \/ db.agents[job[w].agent] = "COMPLETED"
  PROVE  ResultsStep
BY RowsStay, GotoSchedules DEF Return, ResultsStep

LEMMA RaiseResults ==
  ASSUME RunInv, NEW w \in Workers, Raise(w)
  PROVE  ResultsStep
BY ReturnResults DEF Raise

LEMMA CommitResults ==
  ASSUME RunInv, NEW w \in Workers, NEW new, NEW where, NEW keys, Commit(w, new, where, keys),
         where \in {"schedule", "opened", "failrun"} => pc[w] = "schedule"
  PROVE  db' = new /\ SchedulesOwn
BY GotoSchedules DEF Commit

LEMMA SpawnedByStep ==
  ASSUME NEW e \in Database, NEW new \in SUBSET Agents, new \intersect Here(db) = {},
         e.agents = Spawned(db.agents, new), db' = e \/ \E st \in RunStatus : db' = [e EXCEPT !.status = st],
         e.subs = db.subs, e.evals = db.evals, e.finds = db.finds,
         \A s \in Submissions : db.cands[s] # "ABSENT" => e.cands[s] # "ABSENT",
         \A a \in new : a.role = "judge" => ~JudgesFollow(db, a.gen),
         \A a \in new : a.role = "critic" =>
           JudgesAnswered(db, a.gen) /\ e.cands[Elite(a.gen, {})] # "ABSENT"
  PROVE  Spawning(db, db', new) /\ Changes
<1>1. db'.agents = e.agents /\ db'.subs = e.subs /\ db'.evals = e.evals /\ db'.finds = e.finds
      /\ db'.cands = e.cands
  BY DEF Database
<1>2. \A a \in Agents : db'.agents[a] = IF a \in new THEN "PENDING" ELSE db.agents[a]
  BY <1>1 DEF Spawned
<1>3. Spawning(db, db', new)
  BY <1>1, <1>2 DEF Spawning
<1> QED BY <1>3 DEF Changes

\* The researchers of a generation that is not there yet.
LEMMA ResearchersAreNew ==
  ASSUME RunInv, NEW g \in Generations, g >= db.gens
  PROVE  /\ Researchers(g) \in SUBSET Agents /\ Researchers(g) \intersect Here(db) = {}
         /\ \A a \in Researchers(g) : a.role # "judge" /\ a.role # "critic"
<1>1. \A a \in Here(db) : a.gen < db.gens
  BY DEF RunInv, Shape
<1>2. db.gens \in Nat /\ g \in Nat
  BY GensType, GenerationsType DEF RunInv
<1> QED BY <1>1, <1>2, ResearcherParts, AgentSets

LEMMA StartRunResults ==
  ASSUME RunInv, NEW w \in Workers, StartRun(w)
  PROVE  ResultsStep
<1>0. db \in Database
  BY DEF RunInv
<1>1. PICK v \in Reads(w) :
        LET new == IF v.gens > 0 THEN db
                   ELSE [db EXCEPT !.gens = 1, !.agents = Spawned(@, Researchers(0))]
            keys == {ResearchJob(a) : a \in Researchers(0)}
        IN  IF v.status = "FAILED" \/ (v.gens = 0 /\ db.gens > 0) THEN Raise(w)
            ELSE IF v.status = "CREATED" THEN CommitStatus(w, new, "RESEARCHING", "enqueue", keys)
            ELSE IF v.status = "COMPLETED" THEN Commit(w, new, "settle", {})
            ELSE Commit(w, new, "enqueue", keys)
  BY DEF StartRun
<1> DEFINE new == IF v.gens > 0 THEN db
                  ELSE [db EXCEPT !.gens = 1, !.agents = Spawned(@, Researchers(0))]
<1>2. v.gens \in Nat /\ db.gens \in Nat
  BY ReadsFit, GensType, <1>0 DEF StartRun, At
<1>3. \/ Raise(w)
      \/ /\ ~(v.gens = 0 /\ db.gens > 0)
         /\ \/ \E keys : Commit(w, [new EXCEPT !.status = "RESEARCHING"], "enqueue", keys)
            \/ \E where \in {"settle", "enqueue"} : \E keys : Commit(w, new, where, keys)
  BY <1>1, CommitStatusIs
<1>4. CASE Raise(w)
  BY <1>4, RaiseResults
<1>5. CASE /\ ~(v.gens = 0 /\ db.gens > 0)
           /\ \/ \E keys : Commit(w, [new EXCEPT !.status = "RESEARCHING"], "enqueue", keys)
              \/ \E where \in {"settle", "enqueue"} : \E keys : Commit(w, new, where, keys)
  <2>1. (db' = new \/ db' = [new EXCEPT !.status = "RESEARCHING"]) /\ SchedulesOwn
    BY <1>5, CommitResults
  <2>2. CASE v.gens > 0
    <3>1. new = db
      BY <2>2
    <3>2. Changes
      BY <2>1, <3>1, <1>0, RowsStay DEF Database
    <3> QED BY <3>2, <2>1 DEF ResultsStep
  <2>3. CASE ~(v.gens > 0)
    <3> DEFINE e == [db EXCEPT !.gens = 1, !.agents = Spawned(@, Researchers(0))]
    <3>1. db.gens = 0 /\ new = e
      BY <2>3, <1>2, <1>5
    <3>2. /\ 0 \in Generations /\ Researchers(0) \in SUBSET Agents /\ Researchers(0) \intersect Here(db) = {}
          /\ \A a \in Researchers(0) : a.role # "judge" /\ a.role # "critic"
      BY <3>1, ResearchersAreNew, GenerationsType
    <3>3. e \in Database
      <4>1. Spawned(db.agents, Researchers(0)) \in [Agents -> AgentStatus]
        BY <1>0 DEF Spawned, Database, AgentStatus
      <4>2. 1 \in 0..MaxGenerations
        BY RunCreateAssumption
      <4> QED BY <1>0, <4>1, <4>2 DEF Database
    <3>4. /\ e.agents = Spawned(db.agents, Researchers(0)) /\ e.subs = db.subs /\ e.evals = db.evals
          /\ e.finds = db.finds /\ e.cands = db.cands
      BY <1>0 DEF Database
    <3>5. db' = e \/ \E st \in RunStatus : db' = [e EXCEPT !.status = st]
      BY <2>1, <3>1 DEF RunStatus
    <3> HIDE DEF e
    <3>6. Changes
      BY <3>2, <3>3, <3>4, <3>5, SpawnedByStep
    <3> QED BY <3>6, <2>1 DEF ResultsStep
  <2> QED BY <2>2, <2>3
<1> QED BY <1>3, <1>4, <1>5

LEMMA MaybeScheduleJudgingResults ==
  ASSUME RunInv, NEW w \in Workers, MaybeScheduleJudging(w)
  PROVE  ResultsStep
<1>1. pc[w] = "schedule"
  BY DEF MaybeScheduleJudging, At
<1>2. \E where, keys : Return(w, where, keys)
  BY DEF MaybeScheduleJudging
<1> QED BY <1>1, <1>2, ReturnResults

\* A judge role that nobody was seen in has nobody.
LEMMA MissingIsNew ==
  ASSUME RunInv, Knows, NEW w \in Workers, pc[w] = "judging", view[w] # None, NEW v \in Reads(w)
  PROVE  /\ \A i \in Missing(w, v) : JudgeCopies(db, job[w].gen, i) = {}
         /\ Added(w, v) \intersect Here(db) = {}
         /\ Added(w, v) # {} => ~JudgesFollow(db, job[w].gen)
<1> DEFINE g == job[w].gen
<1>1. g \in Generations
  BY InsideFits DEF Inside
<1>2. v \in Database /\ Behind(view[w], v) /\ Behind(v, db)
  BY ReadsFit
<1>3. \A a \in Here(db) : (a.role = "judge" /\ a.gen = g) => a \in Here(v)
  <2>1. \A a \in Here(db) : (a.role = "judge" /\ a.gen = g) => a \in Here(view[w])
    BY DEF Knows, SeesJudges
  <2> QED BY <2>1, <1>2 DEF Behind
<1>4. ASSUME NEW i \in Missing(w, v) PROVE JudgeCopies(db, g, i) = {}
  <2>1. i \in 1..JudgeCount /\ JudgeCopies(v, g, i) = {}
    BY <1>4 DEF Missing, MissingJudges
  <2>2. /\ JudgeCopies(db, g, i) = {c \in Copies : Agent(g, "judge", i, c) \in Here(db)}
        /\ JudgeCopies(v, g, i) = {c \in Copies : Agent(g, "judge", i, c) \in Here(v)}
    BY <1>1, <2>1, CopiesHere
  <2>3. \A c : Agent(g, "judge", i, c).role = "judge" /\ Agent(g, "judge", i, c).gen = g
    BY DEF Agent
  <2> QED BY <2>1, <2>2, <2>3, <1>3
<1>5. ASSUME NEW a \in Added(w, v) PROVE a \notin Here(db) /\ ~JudgesFollow(db, g)
  <2>1. PICK i \in Missing(w, v) : a = Agent(g, "judge", i, Cardinality(JudgeCopies(db, g, i)) + 1)
    BY <1>5 DEF Added
  <2>2. i \in 1..JudgeCount /\ JudgeCopies(db, g, i) = {}
    BY <1>4 DEF Missing, MissingJudges
  <2>3. \A c \in Copies : Agent(g, "judge", i, c) \notin Here(db)
    BY <1>1, <2>2, CopiesHere
  <2>4. a = Agent(g, "judge", i, 1)
    BY <2>1, <2>2, FS_EmptySet
  <2>5. 1 \in Copies
    BY LoopAssumption DEF Copies
  <2> QED BY <2>2, <2>3, <2>4, <2>5 DEF JudgesFollow
<1> QED BY <1>4, <1>5

LEMMA StartJudgingResults ==
  ASSUME RunInv, Knows, NEW w \in Workers, StartJudging(w)
  PROVE  ResultsStep
<1>0. db \in Database /\ pc[w] = "judging" /\ view[w] # None /\ job[w].gen \in Generations
  BY InsideFits DEF RunInv, StartJudging, At, Inside
<1>1. CASE Return(w, "settle", {}) \/ Raise(w)
  BY <1>1, ReturnResults, RaiseResults
<1>2. ASSUME NEW v \in Reads(w), ResearchComplete(v, job[w].gen),
             Added(w, v) \subseteq JudgesOf(job[w].gen),
             IF v.status = "RESEARCHING"
               THEN CommitStatus(w, Judging(w, v), "JUDGING", ThenEnqueue(ToJudge(w, v)), ToJudge(w, v))
               ELSE Commit(w, Judging(w, v), ThenEnqueue(ToJudge(w, v)), ToJudge(w, v))
      PROVE  ResultsStep
  <2> DEFINE e == Judging(w, v)
  <2>1. e \in Database /\ SpawnsJudges(db, e) /\ e.cands = db.cands
    BY <1>0, <1>2, SpawnsTheJudges
  <2>2. e.agents = Spawned(db.agents, Added(w, v))
    BY <1>0 DEF Judging, Database
  <2>3. Added(w, v) \in SUBSET Agents /\ \A a \in Added(w, v) : a.role = "judge" /\ a.gen = job[w].gen
    BY <1>0, <1>2, AgentSets, JudgeParts
  <2>4. Added(w, v) \intersect Here(db) = {} /\ (Added(w, v) # {} => ~JudgesFollow(db, job[w].gen))
    BY <1>0, MissingIsNew
  <2>5. CASE Raise(w)
    BY <2>5, RaiseResults
  <2>6. CASE \E st \in RunStatus : Commit(w, [e EXCEPT !.status = st], ThenEnqueue(ToJudge(w, v)), ToJudge(w, v))
    <3>1. (\E st \in RunStatus : db' = [e EXCEPT !.status = st]) /\ SchedulesOwn
      BY <2>6, CommitResults DEF ThenEnqueue
    <3> HIDE DEF e
    <3>2. Changes
      BY <3>1, <2>1, <2>2, <2>3, <2>4, SpawnedByStep DEF SpawnsJudges
    <3> QED BY <3>1, <3>2 DEF ResultsStep
  <2>7. CASE Commit(w, e, ThenEnqueue(ToJudge(w, v)), ToJudge(w, v))
    <3>1. db' = e /\ SchedulesOwn
      BY <2>7, CommitResults DEF ThenEnqueue
    <3> HIDE DEF e
    <3>2. Changes
      BY <3>1, <2>1, <2>2, <2>3, <2>4, SpawnedByStep DEF SpawnsJudges
    <3> QED BY <3>1, <3>2 DEF ResultsStep
  <2> QED BY <1>2, <2>5, <2>6, <2>7, CommitStatusIs DEF RunStatus
<1> QED BY <1>1, <1>2, StartJudgingEffect


\* What was judged completely stays answered.
LEMMA JudgingAnswered ==
  ASSUME RunInv, Knows, Results, NEW w \in Workers, view[w] # None, NEW v \in Reads(w),
         NEW g \in Generations, JudgingComplete(v, g)
  PROVE  JudgesAnswered(v, g) /\ JudgesAnswered(db, g)
<1>1. v \in Database /\ Shape(v) /\ Behind(v, db)
  BY ReadsFit
<1>2. JudgesFollow(v, g) /\ Researchers(g) \subseteq v.subs
  BY <1>1, CompleteIsJudged DEF JudgingComplete
<1>3. JudgesFollow(db, g)
  BY <1>1, <1>2, FollowStill DEF Behind
<1>4. ASSUME NEW a \in Here(v) \intersect JudgesOf(g)
      PROVE  v.agents[a] = "COMPLETED" /\ Answered(v, a)
  <2>1. a \in Present(v, JudgesOf(g)) /\ a.role = "judge" /\ a.gen = g
    BY JudgeParts DEF Here, Present
  <2>2. v.agents[a] = "COMPLETED"
    BY <2>1 DEF JudgingComplete, AllCompleted
  <2>3. \A s \in Researchers(g) : <<s, a>> \in v.evals
    <3>1. {e \in v.evals : e[1] \in Researchers(g)} = SubsOf(v, g) \X Present(v, JudgesOf(g))
      BY DEF JudgingComplete, EvaluationsComplete
    <3>2. \A s \in Researchers(g) : s \in SubsOf(v, g)
      BY <1>2 DEF SubsOf
    <3> QED BY <2>1, <3>1, <3>2
  <2> QED BY <2>1, <2>2, <2>3 DEF Answered
<1>5. AgentsStand(v, db)
  <2>1. CASE v = view[w]
    BY <2>1 DEF Results
  <2>2. CASE v = [db EXCEPT !.status = view[w].status]
    <3>1. v.agents = db.agents
      BY <2>2 DEF RunInv, Database
    <3> QED BY <3>1 DEF AgentsStand
  <2> QED BY <2>1, <2>2 DEF Reads
<1>6. ASSUME NEW a \in Here(db) \intersect JudgesOf(g) PROVE a \in Here(v) /\ a \in Agents
  <2>1. a = Agent(g, "judge", a.index, a.copy) /\ a.index \in 1..JudgeCount /\ a.copy \in Copies
    BY JudgeParts
  <2>2. PICK c \in Copies : Agent(g, "judge", a.index, c) \in Here(v)
    BY <1>2, <2>1 DEF JudgesFollow
  <2>3. Agent(g, "judge", a.index, c) \in Here(db)
    BY <1>1, <2>2 DEF Behind
  <2>4. c \in JudgeCopies(db, g, a.index) /\ a.copy \in JudgeCopies(db, g, a.index)
    BY <2>1, <2>2, <2>3, CopiesHere
  <2>5. c = a.copy
    BY <2>1, <2>4 DEF Knows, OneOfEach
  <2> QED BY <2>1, <2>2, <2>5 DEF Here
<1>7. ASSUME NEW a \in Here(db) \intersect JudgesOf(g)
      PROVE  db.agents[a] \in {"COMPLETED", "FAILED"} /\ Answered(db, a)
  <2>1. a \in Here(v) \intersect JudgesOf(g) /\ a \in Agents
    BY <1>6
  <2>2. v.agents[a] = "COMPLETED" /\ Answered(v, a)
    BY <1>4, <2>1
  <2> QED BY <2>1, <2>2, <1>1, <1>5, AnsweredStill DEF AgentsStand, Behind
<1> QED BY <1>2, <1>3, <1>4, <1>7 DEF JudgesAnswered

\* To hear the critics changes no agent, and no candidate back.
LEMMA ListensResults ==
  ASSUME RunInv, NEW w \in Workers, pc[w] \in {"schedule", "opened"}, NEW r, NEW f,
         NEW g \in Generations, Listens(w, r, f, g)
  PROVE  ResultsStep
<1>1. CASE \E where, keys : Return(w, where, keys)
  BY <1>1, ReturnResults
<1>2. ASSUME NEW seen,
             Commit(w, CandidateUpdates(db, seen, Elite(g, {}), Outcome(f, g)), "enqueue", {FinalizeJob(g)})
      PROVE  ResultsStep
  <2>1. Elite(g, {}) \in Submissions /\ Outcome(f, g) \in CandidateStatus /\ Outcome(f, g) # "ABSENT"
    BY EliteParts DEF Outcome, CandidateStatus
  <2>2. db' = CandidateUpdates(db, seen, Elite(g, {}), Outcome(f, g)) /\ SchedulesOwn
    BY <1>2, CommitResults
  <2>3. db'.agents = db.agents /\ Keeps(db, db')
    <3> DEFINE e == CandidateUpdates(db, seen, Elite(g, {}), Outcome(f, g))
    <3>1. e = CandidateUpdates(db, seen, Elite(g, {}), Outcome(f, g)) /\ db \in Database
      BY DEF RunInv
    <3> HIDE DEF e
    <3>2. e.agents = db.agents /\ Keeps(db, e)
      BY <2>1, <3>1, CandidateUpdatesKeep
    <3> QED BY <2>2, <3>1, <3>2
  <2>4. \A s \in Submissions : db.cands[s] # "ABSENT" => db'.cands[s] # "ABSENT"
    <3>1. db \in Database
      BY DEF RunInv
    <3>2. ASSUME NEW s \in Submissions
          PROVE  db'.cands[s] = IF s = Elite(g, {}) /\ seen.cands[Elite(g, {})] # Outcome(f, g)
                                THEN Outcome(f, g) ELSE db.cands[s]
      BY <3>1, <2>1, <2>2, CandidateUpdatesTo
    <3> QED BY <2>1, <3>2
  <2>5. Changes
    BY <2>3, <2>4, RowsStay DEF Keeps
  <2> QED BY <2>2, <2>5 DEF ResultsStep
<1> QED BY <1>1, <1>2, Zenon DEF Listens

LEMMA AfterOpeningResults ==
  ASSUME RunInv, NEW w \in Workers, AfterOpening(w)
  PROVE  ResultsStep
<1>1. pc[w] = "opened" /\ view[w] # None
  BY DEF AfterOpening, At
<1>2. job[w].gen \in Generations
  BY <1>1, InsideFits DEF Inside
<1> QED BY <1>1, <1>2, AfterOpeningEffect, ListensResults

\* Where candidates were seen, the one under attack is there now.
LEMMA AttackedStill ==
  ASSUME RunInv, RecordInv, Results, CriticCount # 0, NEW g \in Generations, NEW s,
         CriticsFit(s), Here(s) \subseteq Here(db), ~Unattacked(s, g)
  PROVE  db.cands[Elite(g, {})] # "ABSENT"
<1>1. PICK t \in Researchers(g) : s.cands[t] # "ABSENT"
  BY DEF Unattacked
<1>2. t \in Submissions /\ t.gen = g
  BY <1>1, ResearcherParts, AgentSets
<1>3. FirstCritics(g) \subseteq Here(db)
  BY <1>1, <1>2 DEF CriticsFit
<1>4. PICK a \in FirstCritics(g) : TRUE
  <2>1. 1 \in 1..CriticCount
    BY RunCreateAssumption
  <2> QED BY <2>1 DEF FirstCritics, CriticSet
<1>5. a.role = "critic" /\ a.gen = g
  BY <1>4 DEF FirstCritics, CriticSet, Agent
<1> QED BY <1>3, <1>4, <1>5 DEF Results, ResultsFit

LEMMA OpensResults ==
  ASSUME RunInv, Knows, RecordInv, Results, NEW w \in Workers, pc[w] = "schedule", view[w] # None,
         CriticCount # 0, NEW g \in Generations, NEW v \in Reads(w), JudgingComplete(v, g), OpensIt(w, v, g)
  PROVE  ResultsStep
<1>1. PICK c \in {v, Now(w)} : \E s \in {c, Now(w)} :
        \/ Unattacked(s, g) /\ ~Unattacked(db, g) /\ Raise(w)
        \/ /\ Unattacked(s, g) => Unattacked(db, g)
           /\ NewCritics(g) \subseteq CriticsOf(g) /\ Commit(w, Opened(s, g), "opened", {})
  BY DEF OpensIt
<1>2. PICK s \in {c, Now(w)} :
        \/ Unattacked(s, g) /\ ~Unattacked(db, g) /\ Raise(w)
        \/ /\ Unattacked(s, g) => Unattacked(db, g)
           /\ NewCritics(g) \subseteq CriticsOf(g) /\ Commit(w, Opened(s, g), "opened", {})
  BY <1>1
<1>3. db \in Database /\ Shape(db) /\ v \in Database /\ Behind(v, db)
  BY ReadsFit DEF RunInv
<1>4. CASE Raise(w)
  BY <1>4, RaiseResults
<1>5. CASE /\ Unattacked(s, g) => Unattacked(db, g)
           /\ NewCritics(g) \subseteq CriticsOf(g) /\ Commit(w, Opened(s, g), "opened", {})
  <2> DEFINE e == Opened(s, g)
             N == NewCritics(g)
  <2>1. db' = e /\ SchedulesOwn
    BY <1>5, CommitResults
  <2>2. /\ e \in Database /\ e.subs = db.subs /\ e.evals = db.evals /\ e.finds = db.finds
        /\ e.agents = Spawned(db.agents, N) /\ N \intersect Here(db) = {}
        /\ e.cands = IF Unattacked(s, g) THEN Opening(g) ELSE db.cands
    BY <1>3, <1>5, OpensTheStage
  <2>3. N \in SUBSET Agents /\ \A a \in N : a.role # "judge" /\ a.gen = g
    BY <1>5, AgentSets, CriticParts
  <2>4. Elite(g, {}) \in Researchers(g) /\ Elite(g, {}) \in Submissions
    BY EliteIsBest, AgentSets
  <2>5. JudgesAnswered(db, g)
    BY JudgingAnswered
  <2>6. /\ e.cands[Elite(g, {})] # "ABSENT"
        /\ \A t \in Submissions : db.cands[t] # "ABSENT" => e.cands[t] # "ABSENT"
    <3>1. CASE Unattacked(s, g)
      BY <3>1, <1>5, <2>2, <2>4 DEF Opening, Unattacked
    <3>2. CASE ~Unattacked(s, g)
      <4>1. CriticsFit(s) /\ Here(s) \subseteq Here(db)
        <5>1. CriticsFit(db) /\ CriticsFit(view[w]) /\ Behind(view[w], db)
          BY DEF RecordInv, RunInv, WorkerFits
        <5>2. CASE s = view[w]
          BY <5>1, <5>2 DEF Behind
        <5>3. CASE s.agents = db.agents /\ s.cands = db.cands /\ s.finds = db.finds
          BY <5>1, <5>3 DEF CriticsFit, Here, Findings
        <5>4. s \in {view[w], Now(w)}
          BY <1>1, <1>2 DEF Reads, Now
        <5>5. Now(w).agents = db.agents /\ Now(w).cands = db.cands /\ Now(w).finds = db.finds
          BY <1>3 DEF Now, Database
        <5> QED BY <5>2, <5>3, <5>4, <5>5
      <4> QED BY <3>2, <4>1, <2>2, AttackedStill
    <3> QED BY <3>1, <3>2
  <2> HIDE DEF e
  <2>7. \A a \in N : a.role = "judge" => ~JudgesFollow(db, a.gen)
    BY <2>3
  <2>8. \A a \in N : a.role = "critic" => JudgesAnswered(db, a.gen) /\ e.cands[Elite(a.gen, {})] # "ABSENT"
    BY <2>3, <2>5, <2>6
  <2> HIDE DEF N
  <2>9. Changes
    BY <2>1, <2>2, <2>3, <2>6, <2>7, <2>8, SpawnedByStep
  <2> QED BY <2>1, <2>9 DEF ResultsStep
<1> QED BY <1>2, <1>4, <1>5

LEMMA MaybeScheduleFinalizeResults ==
  ASSUME RunInv, Knows, RecordInv, Results, NEW w \in Workers, MaybeScheduleFinalize(w)
  PROVE  ResultsStep
<1>0. /\ db \in Database /\ pc[w] = "schedule" /\ view[w] # None /\ job[w].gen \in Generations
  BY InsideFits DEF RunInv, MaybeScheduleFinalize, At, Inside
<1> DEFINE g == job[w].gen
<1>1. PICK v \in Reads(w) : Schedules(w, v, g)
  BY <1>0, MaybeScheduleFinalizeEffect
<1>2. CASE \E where, keys : Return(w, where, keys)
  BY <1>0, <1>2, ReturnResults
<1>3. ASSUME FindsItOpen(w, v, g) PROVE ResultsStep
  <2>1. Return(w, "settle", {}) \/ \E r, h : Listens(w, r, h, g)
    BY <1>3 DEF FindsItOpen
  <2> QED BY <1>0, <2>1, <1>2, ListensResults
<1>4. ASSUME JudgingComplete(v, g), CriticCount # 0, OpensIt(w, v, g) PROVE ResultsStep
  BY <1>0, <1>1, <1>4, OpensResults
<1> HIDE DEF g
<1> QED BY <1>1, <1>2, <1>3, <1>4, Zenon DEF Schedules

LEMMA FinalizeRunResults ==
  ASSUME RunInv, NEW w \in Workers, FinalizeRun(w)
  PROVE  ResultsStep
<1>0. /\ db \in Database /\ pc[w] = "finalize" /\ view[w] # None /\ job[w].gen \in Generations
  BY InsideFits DEF RunInv, FinalizeRun, At, Inside
<1> DEFINE g == job[w].gen
<1>1. PICK v \in Reads(w) : Finalizes(w, v, g)
  BY FinalizeRunEffect
<1>2. v \in Database /\ Behind(v, db)
  BY <1>0, ReadsFit
<1> HIDE DEF g
<1>00. g \in Generations
  BY <1>0 DEF g
<1>9. /\ Target(v, g) \in Submissions /\ Staged(v, g) \in Database /\ Keeps(db, Staged(v, g))
      /\ \A s \in Submissions : db.cands[s] # "ABSENT" => Staged(v, g).cands[s] # "ABSENT"
  <2>1. /\ Target(v, g) \in Submissions /\ Staged(v, g) \in Database /\ Keeps(db, Staged(v, g))
        /\ \A t \in Submissions :
             Staged(v, g).cands[t] = IF t = Target(v, g) /\ Proposed(v, g) THEN "VERIFICATION" ELSE db.cands[t]
    BY <1>0, <1>00, <1>2, JudgementKeeps
  <2> QED BY <2>1
<1>3. CASE \E where, keys : Return(w, where, keys) /\ where \notin {"schedule", "opened", "failrun"}
  BY <1>3, ReturnResults
<1>4. CASE Raise(w)
  BY <1>4, RaiseResults
<1>5. ASSUME NEW e \in Database, Keeps(db, e), e.agents = db.agents,
             \A s \in Submissions : db.cands[s] # "ABSENT" => e.cands[s] # "ABSENT",
             CommitStatus(w, e, "COMPLETED", "settle", {})
      PROVE  ResultsStep
  <2>1. CASE Raise(w)
    BY <2>1, RaiseResults
  <2>2. CASE Commit(w, [e EXCEPT !.status = "COMPLETED"], "settle", {})
    <3>1. db' = [e EXCEPT !.status = "COMPLETED"] /\ SchedulesOwn
      BY <2>2, CommitResults
    <3>2. /\ db'.agents = e.agents /\ db'.cands = e.cands
          /\ db'.subs = e.subs /\ db'.evals = e.evals /\ db'.finds = e.finds
      BY <3>1 DEF Database
    <3>3. Changes
      BY <1>5, <3>2, RowsStay DEF Keeps
    <3> QED BY <3>1, <3>3 DEF ResultsStep
  <2> QED BY <1>5, <2>1, <2>2, CommitStatusIs
<1>6. CASE CommitStatus(w, Staged(v, g), "COMPLETED", "settle", {})
  <2>1. Staged(v, g).agents = db.agents
    BY <1>0 DEF Staged, Database
  <2> QED BY <1>5, <1>6, <1>9, <2>1
<1>7. CASE \E verdict \in IF v.verdict[Target(v, g)] = "NONE" THEN VerdictsOn(v, Target(v, g))
                          ELSE {v.verdict[Target(v, g)]} : \E seen :
             CommitStatus(w, Judgement(v, g, verdict, seen), "COMPLETED", "settle", {})
  <2>0. PICK verdict \in IF v.verdict[Target(v, g)] = "NONE" THEN VerdictsOn(v, Target(v, g))
                         ELSE {v.verdict[Target(v, g)]} :
          \E seen : CommitStatus(w, Judgement(v, g, verdict, seen), "COMPLETED", "settle", {})
    BY <1>7
  <2>1. PICK seen : CommitStatus(w, Judgement(v, g, verdict, seen), "COMPLETED", "settle", {})
    BY <2>0
  <2> DEFINE e == Judgement(v, g, verdict, seen)
  <2>2. verdict \in {"PASSED", "FAILED", "INCONCLUSIVE"}
    BY <1>2, <1>9, <2>0, VerdictsType, Zenon
  <2>31. \A said \in {"PASSED", "FAILED", "INCONCLUSIVE"} : \A other :
           LET h == Judgement(v, g, said, other)
           IN  /\ h \in Database /\ Keeps(db, h) /\ h.status = db.status
               /\ h.parent = db.parent /\ h.survivors = db.survivors
               /\ h.verdict = [db.verdict EXCEPT ![Target(v, g)] = said]
               /\ \A t \in Submissions :
                    h.cands[t] = IF t = Target(v, g) /\ other.cands[t] # CandidateAfter[said]
                                 THEN CandidateAfter[said] ELSE Staged(v, g).cands[t]
    BY <1>0, <1>00, <1>2, JudgementKeeps
  <2>3. /\ e \in Database /\ Keeps(db, e)
        /\ \A t \in Submissions :
             e.cands[t] = IF t = Target(v, g) /\ seen.cands[t] # CandidateAfter[verdict]
                          THEN CandidateAfter[verdict] ELSE Staged(v, g).cands[t]
    <3>1. e \in Database /\ Keeps(db, e)
      BY <2>2, <2>31
    <3>2. ASSUME NEW t \in Submissions
          PROVE  e.cands[t] = IF t = Target(v, g) /\ seen.cands[t] # CandidateAfter[verdict]
                              THEN CandidateAfter[verdict] ELSE Staged(v, g).cands[t]
      BY <2>2, <2>31
    <3> QED BY <3>1, <3>2
  <2>4. CandidateAfter[verdict] # "ABSENT"
    BY <2>2 DEF CandidateAfter
  <2>6. \A s \in Submissions : db.cands[s] # "ABSENT" => e.cands[s] # "ABSENT"
    BY <1>9, <2>3, <2>4
  <2>7. e.agents = db.agents
    <3>1. Staged(v, g).agents = db.agents /\ Staged(v, g) \in Database
      BY <1>0, <1>9 DEF Staged, Database
    <3> DEFINE f == [Staged(v, g) EXCEPT !.verdict[Target(v, g)] = verdict]
    <3>2. f.agents = db.agents
      BY <3>1 DEF Database
    <3>3. e = CandidateUpdates(f, seen, Target(v, g), CandidateAfter[verdict])
      BY DEF Judgement
    <3>4. f \in [DOMAIN f -> {f[x] : x \in DOMAIN f}] /\ "agents" \in DOMAIN f
      BY <3>1 DEF Database
    <3> HIDE DEF f
    <3> QED BY <3>2, <3>3, <3>4 DEF CandidateUpdates
  <2> HIDE DEF e
  <2> QED BY <2>1, <2>3, <2>6, <2>7, <1>5 DEF e
<1>8. CASE /\ IsLatest(v, g) /\ g + 1 # MaxGenerations /\ ~(v.gens < db.gens)
           /\ \E selected \in Selections(v, g) :
                CommitStatus(w, Bred(g, selected), "RESEARCHING", "enqueue",
                             {ResearchJob(a) : a \in Researchers(g + 1)})
  <2>1. PICK selected \in Selections(v, g) :
          CommitStatus(w, Bred(g, selected), "RESEARCHING", "enqueue",
                       {ResearchJob(a) : a \in Researchers(g + 1)})
    BY <1>8
  <2> DEFINE e == Bred(g, selected)
  <2>2. selected \in Seq(Submissions) /\ Len(selected) > 0
    BY <1>0, <1>00, <1>2, SelectionType
  <2>3. g \in Nat /\ db.gens \in Nat /\ v.gens \in Nat /\ g + 1 = db.gens /\ v.gens <= db.gens
    BY <1>0, <1>00, <1>2, <1>8, GensType, GenerationsType DEF IsLatest, Latest, Behind
  <2>4. g + 1 \in Generations
    BY <1>0, <1>00, <1>8, RunCreateAssumption DEF Generations
  <2>5. /\ Researchers(g + 1) \in SUBSET Agents /\ Researchers(g + 1) \intersect Here(db) = {}
        /\ \A a \in Researchers(g + 1) : a.role # "judge" /\ a.role # "critic"
    BY <2>3, <2>4, ResearchersAreNew
  <2>6. /\ e \in Database /\ e.subs = db.subs /\ e.evals = db.evals /\ e.finds = db.finds
        /\ e.cands = db.cands
    BY <1>0, <1>00, <1>8, <2>2, <2>3, BreedsTheNext
  <2>7. e.agents = Spawned(db.agents, Researchers(g + 1))
    BY <1>0 DEF Bred, Database
  <2>8. CASE Raise(w)
    BY <2>8, RaiseResults
  <2>9. CASE Commit(w, [e EXCEPT !.status = "RESEARCHING"], "enqueue",
                    {ResearchJob(a) : a \in Researchers(g + 1)})
    <3>1. db' = [e EXCEPT !.status = "RESEARCHING"] /\ SchedulesOwn /\ "RESEARCHING" \in RunStatus
      BY <2>9, CommitResults DEF RunStatus
    <3> HIDE DEF e
    <3>2. Changes
      BY <3>1, <2>5, <2>6, <2>7, SpawnedByStep
    <3> QED BY <3>1, <3>2 DEF ResultsStep
  <2> QED BY <2>1, <2>8, <2>9, CommitStatusIs
<1> QED BY <1>1, <1>3, <1>4, <1>6, <1>7, <1>8 DEF Finalizes

LEMMA FailRunResults ==
  ASSUME RunInv, NEW w \in Workers, FailRun(w)
  PROVE  ResultsStep
<1>0. db \in Database
  BY DEF RunInv
<1>1. \/ Return(w, "settle", {}) \/ Raise(w)
      \/ Commit(w, [db EXCEPT !.status = "FAILED"], "settle", {})
  BY CommitStatusIs DEF FailRun
<1>2. CASE Commit(w, [db EXCEPT !.status = "FAILED"], "settle", {})
  <2>1. db' = [db EXCEPT !.status = "FAILED"] /\ SchedulesOwn
    BY <1>2, CommitResults
  <2>2. /\ db'.agents = db.agents /\ db'.cands = db.cands
        /\ db'.subs = db.subs /\ db'.evals = db.evals /\ db'.finds = db.finds
    BY <1>0, <2>1 DEF Database
  <2>3. Changes
    BY <2>2, RowsStay
  <2> QED BY <2>1, <2>3 DEF ResultsStep
<1> QED BY <1>1, <1>2, ReturnResults, RaiseResults

-----------------------------------------------------------------------------
(* The handlers of the jobs of agents write their agent's rows only.        *)

\* What the handler of an agent's job sees of its own agent.
LEMMA OwnSight ==
  ASSUME RunInv, Results, budget.lapses = 0, NEW w \in Workers, view[w] # None,
         pc[w] \in {"start", "result", "schedule", "opened", "failrun"}
  PROVE  LET a == job[w].agent IN
         /\ job[w] \in Jobs /\ job[w] # None /\ a # None /\ a \in Agents /\ a.gen = job[w].gen
         /\ a.gen \in Generations /\ job[w].gen \in Generations
         /\ a \in Here(db) /\ a \in Here(view[w]) /\ SameRows(view[w], db, a)
         /\ db \in Database /\ view[w] \in Database /\ Shape(view[w]) /\ Shape(db)
         /\ view[w].subs \subseteq db.subs /\ view[w].evals \subseteq db.evals
         /\ view[w].finds \subseteq db.finds
         /\ db.agents[a] # "FAILED"
         /\ job[w].type = "RUN_RESEARCH_AGENT" => a \in Researchers(a.gen) /\ a.role = "researcher"
         /\ job[w].type = "RUN_JUDGE" => a \in JudgesOf(a.gen) /\ a.role = "judge"
         /\ job[w].type = "RUN_CRITIC" => a \in CriticsOf(a.gen) /\ a.role = "critic"
         /\ job[w].type \in AgentJobs
<1> DEFINE a == job[w].agent
<1>1. /\ job[w] # None /\ job[w] \in Jobs /\ job[w].type \in AgentJobs /\ job[w].gen \in Generations
  BY InsideFits DEF Inside
<1>2. a \in Agents /\ a.gen = job[w].gen /\ a # None
  BY <1>1, TypeSays, NoneAssumption
<1>3. /\ job[w].type = "RUN_RESEARCH_AGENT" => a \in Researchers(job[w].gen)
      /\ job[w].type = "RUN_JUDGE" => a \in JudgesOf(job[w].gen)
      /\ job[w].type = "RUN_CRITIC" => a \in CriticsOf(job[w].gen)
  BY <1>1, TypeSays
<1>4. view[w] \in Database /\ view[w] \in Reads(w)
  BY ReadsFit DEF Reads
<1>5. Shape(view[w]) /\ JobFits(job[w], view[w]) /\ Behind(view[w], db) /\ Shape(db) /\ db \in Database
  BY <1>4, ReadsFit DEF RunInv
<1>6. SameRows(view[w], db, a)
  BY <1>1, <1>2 DEF Results, OwnRows
<1>7. a \in Here(db) /\ db.agents[a] # "FAILED"
  BY <1>1, <1>2, HolderOfAgent DEF Results
<1>8. /\ job[w].type = "RUN_RESEARCH_AGENT" => a.role = "researcher"
      /\ job[w].type = "RUN_JUDGE" => a.role = "judge"
      /\ job[w].type = "RUN_CRITIC" => a.role = "critic"
  BY <1>3, ResearcherParts, JudgeParts, CriticParts
<1> HIDE DEF a
<1>9. a \in Here(view[w])
  BY <1>2, <1>5 DEF JobFits, a
<1> QED BY <1>1, <1>2, <1>3, <1>4, <1>5, <1>6, <1>7, <1>8, <1>9 DEF Behind, a

\* The handler writes the status of its agent, and its results with it.
LEMMA BecomesWrites ==
  ASSUME RunInv, Results, budget.lapses = 0, NEW w \in Workers, view[w] # None,
         pc[w] \in {"start", "result"},
         NEW new \in Database, new.agents = db.agents, new.cands = db.cands,
         \A b \in Agents \ {job[w].agent} : SameRows(db, new, b),
         db.subs \subseteq new.subs, db.evals \subseteq new.evals, db.finds \subseteq new.finds,
         \A x \in new.evals : x \in db.evals \/ (x[2] = job[w].agent /\ x[1].gen = job[w].agent.gen),
         NEW status \in {"RUNNING", "COMPLETED"}, NEW where, Becomes(w, new, status, where)
  PROVE  /\ Writing(db, db', job[w].agent) /\ db'.agents[job[w].agent] = status
         /\ db'.subs = new.subs /\ db'.evals = new.evals /\ db'.finds = new.finds
         /\ Goto(w, where, {}) /\ job' = job /\ view'[w] = None
<1> DEFINE a == job[w].agent
<1>1. /\ a \in Agents /\ a \in Here(db) /\ SameRows(view[w], db, a) /\ db \in Database
  BY OwnSight
<1>2. PICK seen \in {view[w], db} : Commit(w, AgentUpdates(new, seen, a, status), where, {})
  BY DEF Becomes
<1>3. seen.agents[a] = db.agents[a]
  BY <1>1, <1>2 DEF SameRows
<1>4. db' = AgentUpdates(new, seen, a, status) /\ Goto(w, where, {}) /\ job' = job
  BY <1>2 DEF Commit
<1>5. view'[w] = None
  BY <1>4, GotoView
<1> HIDE DEF a
<1>6. /\ db'.agents[a] = status /\ \A b \in Agents \ {a} : db'.agents[b] = db.agents[b]
      /\ db'.subs = new.subs /\ db'.evals = new.evals /\ db'.finds = new.finds
      /\ db'.cands = new.cands
  <2>1. CASE seen.agents[a] = status
    <3>1. db' = new
      BY <1>4, <2>1 DEF AgentUpdates
    <3> QED BY <3>1, <2>1, <1>3
  <2>2. CASE seen.agents[a] # status
    <3>1. db' = [new EXCEPT !.agents[a] = status]
      BY <1>4, <2>2 DEF AgentUpdates
    <3> QED BY <3>1, <1>1 DEF Database
  <2> QED BY <2>1, <2>2
<1>7. \A b \in Agents \ {a} : SameRows(db, new, b)
  BY DEF a
<1>8. \A b \in Agents \ {a} : SameRows(db, db', b)
  <2> SUFFICES ASSUME NEW b \in Agents \ {a} PROVE SameRows(db, db', b)
    OBVIOUS
  <2>1. SameRows(db, new, b)
    BY <1>7
  <2> QED BY <2>1, <1>6 DEF SameRows, Findings
<1>9. \A x \in db'.evals : x \in db.evals \/ (x[2] = a /\ x[1].gen = a.gen)
  BY <1>6 DEF a
<1>10. Writing(db, db', a)
  BY <1>1, <1>6, <1>8, <1>9 DEF Writing
<1> QED BY <1>4, <1>5, <1>6, <1>10 DEF a

LEMMA RunsResults ==
  ASSUME RunInv, Results, budget.lapses = 0, NEW w \in Workers, view[w] # None, pc[w] = "start",
         ~Answered(db, job[w].agent), Becomes(w, db, "RUNNING", "calling")
  PROVE  ResultsStep
<1>1. \A b : SameRows(db, db, b)
  BY DEF SameRows
<1>2. /\ Writing(db, db', job[w].agent) /\ db'.agents[job[w].agent] = "RUNNING"
      /\ Goto(w, "calling", {}) /\ job' = job /\ view'[w] = None
  BY <1>1, BecomesWrites DEF RunInv
<1>3. OwnDoes(w)
  BY <1>2, OwnSight DEF OwnDoes
<1>4. SchedulesOwn
  BY <1>2, GotoSchedules
<1> QED BY <1>3, <1>4 DEF ResultsStep, Changes

LEMMA AnswersResults ==
  ASSUME RunInv, Results, budget.lapses = 0, NEW w \in Workers, view[w] # None,
         pc[w] \in {"start", "result"},
         NEW new \in Database, new.agents = db.agents, new.cands = db.cands,
         \A b \in Agents \ {job[w].agent} : SameRows(db, new, b),
         db.subs \subseteq new.subs, db.evals \subseteq new.evals, db.finds \subseteq new.finds,
         \A x \in new.evals : x \in db.evals \/ (x[2] = job[w].agent /\ x[1].gen = job[w].agent.gen),
         Answered(new, job[w].agent), Becomes(w, new, "COMPLETED", "schedule")
  PROVE  ResultsStep
<1>1. /\ Writing(db, db', job[w].agent) /\ db'.agents[job[w].agent] = "COMPLETED"
      /\ db'.subs = new.subs /\ db'.evals = new.evals /\ db'.finds = new.finds
      /\ Goto(w, "schedule", {}) /\ job' = job /\ view'[w] = None
  BY BecomesWrites
<1>2. Answered(db', job[w].agent)
  BY <1>1, AnsweredStill
<1>3. OwnDoes(w)
  BY <1>1, <1>2, OwnSight DEF OwnDoes
<1>4. SchedulesOwn
  BY <1>1, GotoSchedules
<1> QED BY <1>3, <1>4 DEF ResultsStep, Changes

LEMMA ResumeResults ==
  ASSUME RunInv, Results, budget.lapses = 0, NEW w \in Workers, view[w] # None, pc[w] = "start",
         Answered(db, job[w].agent), Resume(w)
  PROVE  ResultsStep
<1>1. \A b : SameRows(db, db, b)
  BY DEF SameRows
<1>2. CASE view[w].agents[job[w].agent] # "COMPLETED"
  BY <1>1, <1>2, AnswersResults DEF Resume, RunInv
<1>3. CASE view[w].agents[job[w].agent] = "COMPLETED"
  BY <1>3, OwnSight, ReturnResults DEF Resume, SameRows
<1> QED BY <1>2, <1>3

LEMMA StartResults ==
  ASSUME RunInv, Results, budget.lapses = 0, NEW w \in Workers,
         StartResearch(w) \/ StartJudge(w) \/ StartCritic(w)
  PROVE  ResultsStep
<1> DEFINE a == job[w].agent
<1>1. view[w] # None /\ pc[w] = "start"
  BY DEF StartResearch, StartJudge, StartCritic, At
<1>2. /\ a \in Agents /\ a.gen \in Generations /\ SameRows(view[w], db, a) /\ a \in Here(view[w])
      /\ Shape(view[w]) /\ job[w].gen = a.gen
      /\ job[w].type = "RUN_RESEARCH_AGENT" => a.role = "researcher"
      /\ job[w].type = "RUN_JUDGE" => a.role = "judge"
      /\ job[w].type = "RUN_CRITIC" => a.role = "critic"
  BY <1>1, OwnSight
<1>3. CASE Return(w, "settle", {})
  BY <1>3, ReturnResults
<1>4. CASE StartResearch(w)
  <2>1. Answered(db, a) <=> a \in view[w].subs
    BY <1>2, <1>4 DEF StartResearch, Answered, SameRows
  <2> QED BY <1>1, <1>3, <1>4, <2>1, ResumeResults, RunsResults DEF StartResearch
<1>5. CASE StartJudge(w)
  <2>1. SubsOf(view[w], a.gen) = Researchers(a.gen) /\ Researchers(a.gen) \subseteq Submissions
    BY <1>2, <1>5, AgentSets DEF StartJudge, Shape, SubsOf
  <2>2. Researchers(a.gen) # {}
    <3>1. Agent(a.gen, "researcher", 1, 1) \in Researchers(a.gen)
      BY RunCreateAssumption DEF Researchers
    <3> QED BY <3>1
  <2>3. Answered(db, a) <=> \A s \in Researchers(a.gen) : <<s, a>> \in view[w].evals
    BY <1>2, <1>5, <2>1 DEF StartJudge, Answered, SameRows
  <2>4. Answered(db, a) <=> (Unjudged(view[w], a) = {} /\ SubsOf(view[w], job[w].gen) # {})
    BY <1>2, <2>1, <2>2, <2>3 DEF Unjudged
  <2> QED BY <1>1, <1>3, <1>5, <2>4, ResumeResults, RunsResults DEF StartJudge
<1>6. CASE StartCritic(w)
  <2>1. Answered(db, a) <=> Findings(view[w], a) # {}
    BY <1>2, <1>6 DEF StartCritic, Answered, SameRows
  <2> QED BY <1>1, <1>3, <1>6, <2>1, ResumeResults, RunsResults DEF StartCritic
<1> QED BY <1>4, <1>5, <1>6

LEMMA StoreSubmissionResults ==
  ASSUME RunInv, Results, budget.lapses = 0, NEW w \in Workers, StoreSubmission(w)
  PROVE  ResultsStep
<1> DEFINE a == job[w].agent
           new == [db EXCEPT !.subs = @ \union {a}]
<1>1. view[w] # None /\ pc[w] = "result" /\ job[w].type = "RUN_RESEARCH_AGENT"
  BY DEF StoreSubmission, At
<1>2. a \in Agents /\ a \in Researchers(a.gen) /\ a.gen \in Generations /\ a.role = "researcher" /\ db \in Database
  BY <1>1, OwnSight
<1>3. a \in Submissions
  BY <1>2, AgentSets
<1>4. /\ new \in Database /\ new.agents = db.agents /\ new.cands = db.cands
      /\ new.subs = db.subs \union {a} /\ new.evals = db.evals /\ new.finds = db.finds
  BY <1>2, <1>3 DEF Database
<1>5. Raise(w) \/ Becomes(w, new, "COMPLETED", "schedule")
  BY DEF StoreSubmission
<1> HIDE DEF new, a
<1>6. Answered(new, a)
  BY <1>2, <1>4 DEF Answered
<1>7. \A b \in Agents \ {a} : SameRows(db, new, b)
  BY <1>4 DEF SameRows, Findings
<1> QED BY <1>1, <1>4, <1>5, <1>6, <1>7, RaiseResults, AnswersResults DEF a

LEMMA StoreEvaluationsResults ==
  ASSUME RunInv, Results, budget.lapses = 0, NEW w \in Workers, StoreEvaluations(w)
  PROVE  ResultsStep
<1> DEFINE a == job[w].agent
           fresh == Unjudged(view[w], a)
           new == [db EXCEPT !.evals = @ \union (fresh \X {a})]
<1>1. view[w] # None /\ pc[w] = "result" /\ job[w].type = "RUN_JUDGE"
  BY DEF StoreEvaluations, At
<1>2. /\ a \in Agents /\ a \in JudgesOf(a.gen) /\ a.gen \in Generations /\ a.role = "judge"
      /\ db \in Database /\ a \in Here(view[w]) /\ Shape(view[w]) /\ view[w].evals \subseteq db.evals
      /\ view[w] \in Database
  BY <1>1, OwnSight
<1>3. SubsOf(view[w], a.gen) = Researchers(a.gen)
  BY <1>2 DEF Shape, SubsOf
<1>4. Researchers(a.gen) \subseteq Submissions /\ a \in UNION {JudgesOf(g) : g \in Generations}
  BY <1>2, AgentSets
<1>5. fresh = {s \in Researchers(a.gen) : <<s, a>> \notin view[w].evals}
  BY <1>3 DEF Unjudged
<1>6. Raise(w) \/ Becomes(w, new, "COMPLETED", "schedule")
  BY DEF StoreEvaluations
<1> HIDE DEF fresh, a
<1>7. /\ new \in Database /\ new.agents = db.agents /\ new.cands = db.cands
      /\ new.subs = db.subs /\ new.evals = db.evals \union (fresh \X {a}) /\ new.finds = db.finds
  <2>1. fresh \X {a} \subseteq Submissions \X UNION {JudgesOf(g) : g \in Generations}
    BY <1>4, <1>5
  <2> QED BY <1>2, <2>1 DEF Database
<1> HIDE DEF new
<1>8. Answered(new, a)
  BY <1>2, <1>5, <1>7 DEF Answered
<1>9. \A x \in new.evals : x \in db.evals \/ (x[2] = a /\ x[1].gen = a.gen)
  BY <1>5, <1>7, ResearcherParts
<1>10. ASSUME NEW b \in Agents \ {a} PROVE SameRows(db, new, b)
  <2>1. \A s : <<s, b>> \in new.evals <=> <<s, b>> \in db.evals
    BY <1>7
  <2> QED BY <1>7, <2>1 DEF SameRows, Findings
<1> QED BY <1>1, <1>6, <1>7, <1>8, <1>9, <1>10, RaiseResults, AnswersResults DEF a

LEMMA StoreFindingResults ==
  ASSUME RunInv, Results, budget.lapses = 0, NEW w \in Workers, StoreFinding(w)
  PROVE  ResultsStep
<1> DEFINE a == job[w].agent
<1>1. view[w] # None /\ pc[w] = "result" /\ job[w].type = "RUN_CRITIC"
  BY DEF StoreFinding, At
<1>2. /\ a \in Agents /\ a.gen \in Generations /\ a.role = "critic" /\ db \in Database
      /\ SameRows(view[w], db, a)
  BY <1>1, OwnSight
<1>3. \A b : SameRows(db, db, b)
  BY DEF SameRows
<1>4. CASE Raise(w)
  BY <1>4, RaiseResults
<1>5. CASE Findings(view[w], a) # {} /\ Becomes(w, db, "COMPLETED", "schedule")
  <2>1. Answered(db, a)
    BY <1>2, <1>5 DEF SameRows, Answered
  <2> QED BY <1>1, <1>2, <1>3, <1>5, <2>1, AnswersResults
<1>6. ASSUME NEW fatal \in BOOLEAN,
             Becomes(w, [db EXCEPT !.finds = @ \union {[critic |-> a, sub |-> Elite(a.gen, {}), fatal |-> fatal]}],
                     "COMPLETED", "schedule")
      PROVE  ResultsStep
  <2> DEFINE f == [critic |-> a, sub |-> Elite(a.gen, {}), fatal |-> fatal]
             new == [db EXCEPT !.finds = @ \union {f}]
  <2>1. Elite(a.gen, {}) \in Submissions
    BY <1>2, EliteParts
  <2>2. f \in [critic : Agents, sub : Submissions, fatal : BOOLEAN] /\ f.critic = a
    BY <1>2, <2>1
  <2>3. Becomes(w, new, "COMPLETED", "schedule")
    BY <1>6
  <2> HIDE DEF f, a
  <2>4. /\ new \in Database /\ new.agents = db.agents /\ new.cands = db.cands
        /\ new.subs = db.subs /\ new.evals = db.evals /\ new.finds = db.finds \union {f}
    BY <1>2, <2>2 DEF Database
  <2> HIDE DEF new
  <2>5. Answered(new, a)
    BY <1>2, <2>2, <2>4 DEF Answered, Findings
  <2>6. \A b \in Agents \ {a} : SameRows(db, new, b)
    BY <2>2, <2>4 DEF SameRows, Findings
  <2> QED BY <1>1, <2>3, <2>4, <2>5, <2>6, AnswersResults DEF a
<1> QED BY <1>4, <1>5, <1>6 DEF StoreFinding

LEMMA ReportFailureResults ==
  ASSUME RunInv, Results, NEW w \in Workers, ReportFailure(w)
  PROVE  ResultsStep
<1> DEFINE a == job[w].agent
<1>0. db \in Database /\ pc[w] = "terminal" /\ view[w] # None
  BY DEF RunInv, ReportFailure, At
<1>1. job[w] # None
  BY <1>0 DEF RunInv, Loop, LoopInv, LoopOK
<1>2. \E where \in {"idle", "dead"} : Drop(w, where)
  BY DEF ReportFailure
<1>3. SchedulesOwn /\ view'[w] = None
  BY <1>2, GotoSchedules, GotoView DEF Drop
<1>4. CASE db' = db \/ db' = [db EXCEPT !.status = "FAILED"]
  <2>1. Changes
    BY <1>0, <1>4, RowsStay DEF Database
  <2> QED BY <2>1, <1>3 DEF ResultsStep
<1>5. ASSUME NEW v \in Reads(w), a # None, db' = [AgentUpdates(db, v, a, "FAILED") EXCEPT !.status = "FAILED"]
      PROVE  ResultsStep
  <2>1. a \in Agents /\ a \in Here(db)
    BY <1>1, <1>5, HolderFits DEF JobFits, Here
  <2>2. v.agents[a] = "FAILED" => db.agents[a] = "FAILED"
    <3>1. CASE v = view[w]
      BY <3>1, <2>1, <1>0 DEF Results, AgentsStand
    <3>2. CASE v = [db EXCEPT !.status = view[w].status]
      BY <3>2, <1>0 DEF Database
    <3> QED BY <3>1, <3>2 DEF Reads
  <2> HIDE DEF a
  <2>3. /\ db'.agents[a] = "FAILED" /\ \A b \in Agents \ {a} : db'.agents[b] = db.agents[b]
        /\ db'.subs = db.subs /\ db'.evals = db.evals /\ db'.finds = db.finds /\ db'.cands = db.cands
    <3>1. CASE v.agents[a] = "FAILED"
      <4>1. db' = [db EXCEPT !.status = "FAILED"]
        BY <3>1, <1>5 DEF AgentUpdates
      <4> QED BY <4>1, <3>1, <2>2, <1>0 DEF Database
    <3>2. CASE v.agents[a] # "FAILED"
      <4>1. db' = [[db EXCEPT !.agents[a] = "FAILED"] EXCEPT !.status = "FAILED"]
        BY <3>2, <1>5 DEF AgentUpdates
      <4> QED BY <4>1, <2>1, <1>0 DEF Database
    <3> QED BY <3>1, <3>2
  <2>4. \A b \in Agents \ {a} : SameRows(db, db', b)
    BY <2>3 DEF SameRows, Findings
  <2>5. Writing(db, db', a)
    BY <2>1, <2>3, <2>4 DEF Writing
  <2>6. OwnDoes(w)
    <3>1. db'.status = "FAILED"
      <4>1. AgentUpdates(db, v, a, "FAILED") \in [DOMAIN db -> {AgentUpdates(db, v, a, "FAILED")[x] : x \in DOMAIN db}]
            /\ "status" \in DOMAIN db
        BY <1>0 DEF AgentUpdates, Database
      <4> QED BY <4>1, <1>5
    <3> QED BY <1>0, <1>1, <1>3, <1>5, <2>3, <2>5, <3>1 DEF OwnDoes, a
  <2> QED BY <2>6, <1>3 DEF ResultsStep, Changes
<1> QED BY <1>4, <1>5 DEF ReportFailure

-----------------------------------------------------------------------------
(* What agents have done is an invariant.                                   *)

LEMMA LoopResults ==
  ASSUME RunInv, NEW w \in Workers,
         \/ Begin(w) \/ ProviderAnswers(w) \/ ProviderFails(w) \/ EnqueueNext(w)
         \/ Settle(w) \/ Fail(w) \/ CrashWorker(w) \/ Restart(w)
  PROVE  ResultsStep
<1>1. CASE Begin(w)
  <2>1. db' = db /\ pc' = pc /\ job' = job
    BY <1>1 DEF Begin, BeginAt
  <2> QED BY <2>1, RowsStay DEF ResultsStep, SchedulesOwn
<1>2. CASE ProviderAnswers(w) \/ ProviderFails(w) \/ EnqueueNext(w) \/ Settle(w) \/ Fail(w)
           \/ CrashWorker(w) \/ Restart(w)
  <2>1. db' = db
    BY <1>2 DEF ProviderAnswers, ProviderFails, EnqueueNext, EnqueueOne, Settle, Fail, CrashWorker,
                Restart, Return
  <2>2. (\E where, keys : Goto(w, where, keys) /\ where \notin {"schedule", "opened", "failrun"})
        /\ (job' = job \/ job' = [job EXCEPT ![w] = None])
    <3>1. CASE ProviderAnswers(w) \/ ProviderFails(w)
      BY <3>1 DEF ProviderAnswers, ProviderFails, Return
    <3>2. CASE EnqueueNext(w)
      <4>1. PICK j : EnqueueOne(w, j)
        BY <3>2 DEF EnqueueNext
      <4>2. CASE todo[w] = {j}
        BY <4>1, <4>2 DEF EnqueueOne
      <4>3. CASE todo[w] # {j}
        BY <4>1, <4>3 DEF EnqueueOne
      <4> QED BY <4>2, <4>3
    <3>3. CASE Settle(w) \/ CrashWorker(w) \/ Restart(w)
      BY <3>3 DEF Settle, CrashWorker, Restart, Drop
    <3>4. CASE Fail(w)
      BY <3>4 DEF Fail, Drop
    <3> QED BY <1>2, <3>1, <3>2, <3>3, <3>4
  <2>3. SchedulesOwn
    BY <2>2, GotoSchedules
  <2> QED BY <2>1, <2>3, RowsStay DEF ResultsStep
<1> QED BY <1>1, <1>2

LEMMA OthersResults ==
  ASSUME RunInv,
         \/ CreateRun \/ EnqueueCreateGeneration \/ CrashApi \/ UNCHANGED vars
         \/ \E w \in Workers, j \in Jobs : Claim(w, j)
         \/ \E j \in Jobs : Lapse(j)
  PROVE  ResultsStep
<1>0. db \in Database /\ pc \in [Workers -> UnitsOfWork \union Between]
  BY DEF RunInv, Loop, LoopInv, LoopTyped
<1>1. CASE CreateRun
  <2>1. db' = [db EXCEPT !.status = "CREATED"] /\ pc' = pc /\ job' = job
    BY <1>1 DEF CreateRun, workerVars
  <2>2. Changes
    BY <1>0, <2>1, RowsStay DEF Database
  <2> QED BY <2>1, <2>2 DEF ResultsStep, SchedulesOwn
<1>2. CASE EnqueueCreateGeneration \/ CrashApi \/ UNCHANGED vars \/ \E j \in Jobs : Lapse(j)
  <2>1. db' = db /\ pc' = pc /\ job' = job
    BY <1>2 DEF EnqueueCreateGeneration, CrashApi, vars, Lapse, workerVars
  <2> QED BY <2>1, RowsStay DEF ResultsStep, SchedulesOwn
<1>3. ASSUME NEW w \in Workers, NEW j \in Jobs, Claim(w, j) PROVE ResultsStep
  <2>1. FirstUnit(j.type) \in {"create", "judging", "finalize", "start"}
    BY TypeSays DEF FirstUnit, AgentJobs
  <2>2. db' = db /\ pc' = [pc EXCEPT ![w] = FirstUnit(j.type)] /\ job' = [job EXCEPT ![w] = j]
    BY <1>3 DEF Claim, ClaimFor
  <2>3. job \in [Workers -> Jobs \union {None}]
    BY DEF RunInv, Loop, LoopInv, LoopTyped
  <2>4. SchedulesOwn
    BY <1>0, <2>1, <2>2, <2>3 DEF SchedulesOwn
  <2> QED BY <2>2, <2>4, RowsStay DEF ResultsStep
<1> QED BY <1>1, <1>2, <1>3

LEMMA NextResults ==
  ASSUME RunInv, Knows, RecordInv, Results, budget.lapses = 0, [Next]_vars
  PROVE  ResultsStep
<1>1. ASSUME NEW w \in Workers, Proceed(w) PROVE ResultsStep
  <2>1. CASE UnitOfWork(w)
    BY <2>1, StartRunResults, MaybeScheduleJudgingResults, StartJudgingResults,
       MaybeScheduleFinalizeResults, AfterOpeningResults, FinalizeRunResults, FailRunResults, ReportFailureResults,
       StartResults, StoreSubmissionResults, StoreEvaluationsResults, StoreFindingResults DEF UnitOfWork
  <2> QED BY <1>1, <2>1, LoopResults DEF Proceed
<1>2. CASE Next
  BY <1>1, <1>2, LoopResults, OthersResults DEF Next
<1> QED BY <1>2, OthersResults

\* What agents have done is kept: a result is not lost, an answer stands, and
\* only an agent's own worker writes its rows.
LEMMA NextKeepsResults ==
  ASSUME RunInv, Undisturbed, RecordInv, ResultsInv, [Next]_vars
  PROVE  ResultsInv'
<1> SUFFICES ASSUME budget'.lapses = 0 PROVE Results'
  BY DEF ResultsInv
<1>1. Around /\ RunInv' /\ RowsMove(Jobs)
  BY NextAround, NextKeepsRun
<1>2. budget.lapses = 0
  BY <1>1 DEF Around
<1>3. Knows /\ Results
  BY <1>2 DEF Undisturbed, ResultsInv
<1>4. ResultsStep
  BY <1>2, <1>3, NextResults
<1> QED BY <1>1, <1>2, <1>3, <1>4, ResultsKept DEF ResultsStep

LEMMA InitResults ==
  ASSUME Init PROVE ResultsInv
<1>1. /\ db.agents = [a \in Agents |-> "ABSENT"] /\ db.evals = {}
      /\ job = [w \in Workers |-> None] /\ view = [w \in Workers |-> None]
  BY DEF Init, LoopInit
<1>2. Here(db) = {}
  BY <1>1 DEF Here
<1>3. ResultsFit(db)
  BY <1>1, <1>2 DEF ResultsFit
<1>4. FailedJobs
  BY <1>1, TypeSays DEF FailedJobs
<1> QED BY <1>1, <1>3, <1>4 DEF ResultsInv, Results, OwnRows

LEMMA ResultsInvariant == Spec => [](RunInv /\ Undisturbed /\ RecordInv /\ ResultsInv)
<1>1. Init => ResultsInv
  BY InitResults
<1>2. RunInv /\ Undisturbed /\ RecordInv /\ ResultsInv /\ [Next]_vars => ResultsInv'
  BY NextKeepsResults
<1> QED BY <1>1, <1>2, KnowledgeInvariant, RecordInvariant, PTL DEF Spec

=============================================================================
