----------------------------- MODULE Tournament -----------------------------
(***************************************************************************)
(* One research run, from POST /runs to COMPLETED or FAILED: the API, the  *)
(* worker processes, the handlers of the six research job types            *)
(* (services/worker/worker/handlers/baseline.py) and the tournament        *)
(* orchestrator they call (packages/core/orchestration/tournament.py).     *)
(*                                                                         *)
(* Grain: see WorkerLoop. Other units of work commit after the last read   *)
(* of a unit of work, or after the first, which is that of the run         *)
(* (Reads); in the critic stage, where it matters, before or after each of *)
(* its queries. What each commit checks against the database as it then    *)
(* is: unique constraints, and, for a status column, the row update_status *)
(* reads again just before its UPDATE, which may or may not see the other  *)
(* commit (\E seen).                                                       *)
(***************************************************************************)
EXTENDS WorkerLoop, FiniteSets, Sequences, SequencesExt

CONSTANTS
  MaxGenerations, Population, SurvivorCount, FreshCount, CriticCount,
  VerificationEnabled,  \* the shape of the run: the fields of RunCreate
  Flawed                \* researchers <<g, i>> whose submission a judge calls fatal

ASSUME RunCreateAssumption ==
  /\ MaxGenerations \in Nat \ {0}
  /\ Population \in Nat /\ Population >= 2
  /\ SurvivorCount \in 1..Population - 1
  /\ FreshCount \in 0..Population - 1
  /\ CriticCount \in Nat
  /\ VerificationEnabled \in BOOLEAN

JudgeCount == 2
\* Bound: how many judges of one role can come to be. A lapse, or a kill, has
\* START_JUDGING executed once more.
Copies == 1..MaxLapses + MaxCrashes + 1

Generations == 0..MaxGenerations - 1
Agent(g, role, i, copy) == [gen |-> g, role |-> role, index |-> i, copy |-> copy]
Researchers(g) == {Agent(g, "researcher", i, 1) : i \in 1..Population}
JudgesOf(g) == {Agent(g, "judge", i, c) : i \in 1..JudgeCount, c \in Copies}
\* Bound: how often the critic stage of a generation can be opened: once by each
\* execution of a judge's job that was under way when it was opened first.
CriticCopies == 1..JudgeCount + MaxLapses
CriticSet(g, c) == {Agent(g, "critic", i, c) : i \in 1..CriticCount}
FirstCritics(g) == CriticSet(g, 1)
CriticsOf(g) == UNION {CriticSet(g, c) : c \in CriticCopies}
Agents == UNION {Researchers(g) \union JudgesOf(g) \union CriticsOf(g) : g \in Generations}

\* A submission is named by the agent that wrote it: uq_submission_agent.
Submissions == UNION {Researchers(g) : g \in Generations}

\* Jobs are named by what their idempotency keys are made of. The target of a
\* critic job is the one submission its generation puts under attack.
Job(type, g, agent) == [type |-> type, gen |-> g, agent |-> agent]
CreateJob == Job("CREATE_GENERATION", 0, None)
ResearchJob(a) == Job("RUN_RESEARCH_AGENT", a.gen, a)
StartJudgingJob(g) == Job("START_JUDGING", g, None)
JudgeJob(a) == Job("RUN_JUDGE", a.gen, a)
CriticJob(a) == Job("RUN_CRITIC", a.gen, a)
FinalizeJob(g) == Job("FINALIZE_RUN", g, None)
Jobs ==
  {CreateJob} \union UNION {
    {ResearchJob(a) : a \in Researchers(g)} \union {JudgeJob(a) : a \in JudgesOf(g)} \union
    {CriticJob(a) : a \in CriticsOf(g)} \union {StartJudgingJob(g), FinalizeJob(g)} : g \in Generations}

RunStatus == {"NONE", "CREATED", "RESEARCHING", "JUDGING", "COMPLETED", "FAILED"}
AgentStatus == {"ABSENT", "PENDING", "RUNNING", "COMPLETED", "FAILED"}
CandidateStatus == {"ABSENT", "PROPOSED", "PROMISING", "UNDER_ATTACK", "VERIFICATION", "VERIFIED", "REFUTED"}
Verdicts == {"NONE", "PASSED", "FAILED", "INCONCLUSIVE"}
Over == {"COMPLETED", "FAILED"}

Database ==
  [status : RunStatus,                        \* runs.status
   gens : 0..MaxGenerations,                  \* generations 0..gens-1 exist
   agents : [Agents -> AgentStatus],
   subs : SUBSET Submissions,
   evals : SUBSET (Submissions \X UNION {JudgesOf(g) : g \in Generations}),
   finds : SUBSET [critic : Agents, sub : Submissions, fatal : BOOLEAN],
   cands : [Submissions -> CandidateStatus],  \* candidate_states
   verdict : [Submissions -> Verdicts],       \* overall status of verification_results
   survivors : [Generations -> Seq(Submissions)],     \* selected decisions by rank
   parent : [Submissions -> Submissions \union {None}]]  \* lineage_links

Init ==
  /\ db = [status |-> "NONE", gens |-> 0, agents |-> [a \in Agents |-> "ABSENT"],
           subs |-> {}, evals |-> {}, finds |-> {}, cands |-> [s \in Submissions |-> "ABSENT"],
           verdict |-> [s \in Submissions |-> "NONE"], survivors |-> [g \in Generations |-> <<>>],
           parent |-> [s \in Submissions |-> None]]
  /\ jobs = [j \in Jobs |-> NoJob]
  /\ api = "new"
  /\ LoopInit

ASSUME NoneAssumption == None \notin Jobs /\ None \notin Database /\ None \notin Agents

-----------------------------------------------------------------------------
(* The selection policy (tournament_policy.py). Quality and novelty of a    *)
(* submission are data: within a generation quality falls with the index.   *)

Flaw(s) == <<s.gen, s.index>> \in Flawed

Fatal(s, refuted) == Flaw(s) \/ s \in refuted
Better(refuted, s, t) ==
  \/ ~Fatal(s, refuted) /\ Fatal(t, refuted)
  \/ (Fatal(s, refuted) <=> Fatal(t, refuted)) /\ s.index < t.index

\* The submissions a slot may go to: the nonfatal ones, or all if none is.
Viable(g, refuted) ==
  LET nonfatal == {s \in Researchers(g) : ~Fatal(s, refuted)}
  IN  IF nonfatal = {} THEN Researchers(g) ELSE nonfatal

Elite(g, refuted) ==
  CHOOSE s \in Viable(g, refuted) : \A t \in Viable(g, refuted) \ {s} : Better(refuted, s, t)

\* The elite, and in the other slots the viable ones diversity prefers: here
\* those of lowest quality. Fewer than SurvivorCount if fewer are viable.
Selected(g, refuted) ==
  LET rest == Viable(g, refuted) \ {Elite(g, refuted)}
  IN  {Elite(g, refuted)} \union
        {s \in rest : Cardinality({t \in rest : t.index > s.index}) < SurvivorCount - 1}

ByRank(S, refuted) ==
  {q \in [1..Cardinality(S) -> S] : \A i, j \in DOMAIN q : i < j => Better(refuted, q[i], q[j])}

NoneRefuted(d, g) == {}  \* mutant: selection forgets what the critics refuted
Refuted(d, g) == {s \in Researchers(g) : d.cands[s] = "REFUTED"}

-----------------------------------------------------------------------------
(* Reading and writing rows.                                               *)

Allowed == [from \in RunStatus |->
  CASE from = "CREATED" -> {"RESEARCHING", "FAILED"}
    [] from = "RESEARCHING" -> {"JUDGING", "FAILED"}
    [] from = "JUDGING" -> {"RESEARCHING", "COMPLETED", "FAILED"}
    [] OTHER -> {}]

\* add_many of new rows, on the agents column of the database.
Spawned(agents, new) == [a \in Agents |-> IF a \in new THEN "PENDING" ELSE agents[a]]

\* update_status of an agent reads the row, then writes it if it differs: the
\* row it read may be older than the one it writes over.
AgentUpdates(d, seen, a, status) ==
  IF seen.agents[a] = status THEN d ELSE [d EXCEPT !.agents[a] = status]
CandidateUpdates(d, seen, s, status) ==
  IF seen.cands[s] = status THEN d ELSE [d EXCEPT !.cands[s] = status]

Present(d, S) == {a \in S : d.agents[a] # "ABSENT"}
AllCompleted(d, S) == \A a \in S : d.agents[a] = "COMPLETED"
SomeFailed(d, S) == \E a \in S : d.agents[a] = "FAILED"
SubsOf(d, g) == d.subs \intersect Researchers(g)
Latest(d) == d.gens - 1

AnyIsLatest(d, g) == TRUE  \* mutant: the stale-job check is gone
IsLatest(d, g) == g = Latest(d)

SomeResearchComplete(d, g) == \E a \in Researchers(g) : d.agents[a] = "COMPLETED"  \* mutant
ResearchComplete(d, g) == AllCompleted(d, Researchers(g)) /\ SubsOf(d, g) = Researchers(g)

EvaluationsComplete(d, g, judges) ==
  /\ SubsOf(d, g) # {}
  /\ {e \in d.evals : e[1] \in Researchers(g)} = SubsOf(d, g) \X judges

JudgesPresent(d, g) == Cardinality(Present(d, JudgesOf(g))) = JudgeCount
JudgesPresentOnly(d, g) == JudgesPresent(d, g)  \* mutant: counted, not asked
JudgingComplete(d, g) ==
  /\ JudgesPresent(d, g)
  /\ AllCompleted(d, Present(d, JudgesOf(g)))
  /\ EvaluationsComplete(d, g, Present(d, JudgesOf(g)))

-----------------------------------------------------------------------------
(* The worker's steps around a unit of work.                               *)

UnitsOfWork ==
  {"create", "judging", "finalize", "start", "result", "schedule", "opened", "failrun", "terminal"}

\* What the orchestrator's unit of work may have read: the run first.
Reads(w) == {view[w], [db EXCEPT !.status = view[w].status]}

Begin(w) == BeginAt(w, UnitsOfWork)

\* A run status update, on the row as update_status sees it.
CommitStatus(w, new, target, where, keys) ==
  \E seen \in {view[w], db} :
    IF target \in Allowed[seen.status]
      THEN Commit(w, [new EXCEPT !.status = target], where, keys)
      ELSE Raise(w)

-----------------------------------------------------------------------------
(* The API.                                                                *)

CreateRun ==
  /\ api = "new"
  /\ api' = "committed"
  /\ db' = [db EXCEPT !.status = "CREATED"]
  /\ UNCHANGED <<jobs, workerVars, budget>>

EnqueueCreateGeneration ==
  /\ api = "committed"
  /\ api' = "done"
  /\ jobs' = Enqueued(jobs, {CreateJob})
  /\ UNCHANGED <<db, workerVars, budget>>

-----------------------------------------------------------------------------
(* The orchestrator's units of work.                                       *)

\* start_run, for CREATE_GENERATION. It raises when another has created
\* generation 0 since (uq_generation_run_index).
StartRun(w) ==
  /\ At(w, "create")
  /\ \E v \in Reads(w) :
       LET new == IF v.gens > 0 THEN db
                  ELSE [db EXCEPT !.gens = 1, !.agents = Spawned(@, Researchers(0))]
           keys == {ResearchJob(a) : a \in Researchers(0)}
       IN  IF v.status = "FAILED" \/ (v.gens = 0 /\ db.gens > 0) THEN Raise(w)
           ELSE IF v.status = "CREATED" THEN CommitStatus(w, new, "RESEARCHING", "enqueue", keys)
           ELSE IF v.status = "COMPLETED" THEN Commit(w, new, "settle", {})
           ELSE Commit(w, new, "enqueue", keys)

\* maybe_schedule_judging: reads only. "failrun" is its nested fail_run.
MaybeScheduleJudging(w) ==
  /\ At(w, "schedule")
  /\ job[w].type = "RUN_RESEARCH_AGENT"
  /\ \E v \in Reads(w) :
       LET g == job[w].gen
       IN  IF v.status # "RESEARCHING" \/ ~IsLatest(v, g) THEN Return(w, "settle", {})
           ELSE IF SomeFailed(v, Researchers(g)) THEN Return(w, "failrun", {})
           ELSE IF ResearchComplete(v, g) THEN Return(w, "enqueue", {StartJudgingJob(g)})
           ELSE Return(w, "settle", {})

\* start_judging, for START_JUDGING. Nothing in the schema keeps judge roles
\* unique: a judge this unit of work did not see gets a twin.
JudgeCopies(d, g, i) == {c \in Copies : d.agents[Agent(g, "judge", i, c)] # "ABSENT"}

AllJudgesMissing(d, g) == 1..JudgeCount  \* mutant: a retry spawns its judges again
MissingJudges(d, g) == {i \in 1..JudgeCount : JudgeCopies(d, g, i) = {}}

NewJudgesOnly(added, kept) == added  \* mutant: a retry enqueues only what it spawned
JudgesToRun(added, kept) == added \union kept

StartJudging(w) ==
  /\ At(w, "judging")
  /\ \E v \in Reads(w) :
       LET g == job[w].gen
           missing == MissingJudges(v, g)
           added == {Agent(g, "judge", i, Cardinality(JudgeCopies(db, g, i)) + 1) : i \in missing}
           kept == {Agent(g, "judge", i, CHOOSE c \in JudgeCopies(v, g, i) : TRUE) :
                      i \in 1..JudgeCount \ missing}
           new == [db EXCEPT !.agents = Spawned(@, added)]
           keys == {JudgeJob(a) : a \in JudgesToRun(added, kept)}
       IN  IF v.status = "COMPLETED" THEN Return(w, "settle", {})
           ELSE IF v.status \notin {"RESEARCHING", "JUDGING"} THEN Raise(w)
           ELSE IF ~IsLatest(v, g) THEN Return(w, "settle", {})
           ELSE IF ~ResearchComplete(v, g) THEN Raise(w)
           ELSE /\ added \subseteq JudgesOf(g)
                /\ IF v.status = "RESEARCHING"
                     THEN CommitStatus(w, new, "JUDGING", ThenEnqueue(keys), keys)
                     ELSE Commit(w, new, ThenEnqueue(keys), keys)

\* The critic stage opens: the elite is put under attack, and every critic. s is
\* the reading of the candidates. Without a candidate in it the stage raises if
\* another judge's has opened it since (uq_candidate_state_submission); with
\* them, which takes a commit between the reading of the critics and s, it
\* leaves them alone and spawns the critics a second time.
Unattacked(d, g) == \A t \in Researchers(g) : d.cands[t] = "ABSENT"
TimesOpened(d, g) == Cardinality({c \in CriticCopies : Present(d, CriticSet(g, c)) # {}})

OpenCriticStage(w, s, g) ==
  LET opening == [t \in Submissions |->
        IF t \notin Researchers(g) THEN db.cands[t]
        ELSE IF t = Elite(g, {}) THEN "UNDER_ATTACK"
        ELSE IF t \in Selected(g, {}) THEN "PROMISING" ELSE "PROPOSED"]
      added == CriticSet(g, TimesOpened(db, g) + 1)
      new == [db EXCEPT !.agents = Spawned(@, added),
                        !.cands = IF Unattacked(s, g) THEN opening ELSE @]
  IN  IF Unattacked(s, g) /\ ~Unattacked(db, g) THEN Raise(w)
      ELSE added \subseteq CriticsOf(g) /\ Commit(w, new, "opened", {})

\* The critics, read (again): those who have not answered are enqueued; once
\* all have, the findings, read after them, decide, if they are as many as one
\* opening of the stage brings.
FindingsOn(d, g) == {f \in d.finds : f.critic \in CriticsOf(g)}

HearCritics(w, v, g) ==
  LET pending == {a \in Present(v, CriticsOf(g)) : v.agents[a] # "COMPLETED"}
  IN  IF SomeFailed(v, CriticsOf(g)) THEN Return(w, "failrun", {})
      ELSE IF pending # {} THEN Return(w, "enqueue", {CriticJob(a) : a \in pending})
      ELSE \E f \in {v, db} :
        LET outcome == IF \E x \in FindingsOn(f, g) : x.fatal THEN "REFUTED" ELSE "VERIFICATION"
        IN  IF Cardinality(FindingsOn(f, g)) # CriticCount THEN Return(w, "settle", {})
            ELSE \E seen \in {f, db} :
                   Commit(w, CandidateUpdates(db, seen, Elite(g, {}), outcome),
                          "enqueue", {FinalizeJob(g)})

\* The critics were there, in the reading c: nothing to do if the candidates,
\* read after them, are no longer under attack and a critic still has to answer.
CloseCriticStage(w, c, g) == \E s \in {c, db} : \E f \in {s, db} :
  IF \/ \E t \in Researchers(g) : s.cands[t] = "UNDER_ATTACK"
     \/ /\ Cardinality(FindingsOn(f, g)) >= CriticCount
        /\ AllCompleted(c, Present(c, CriticsOf(g)))
    THEN \E v \in {f, db} : HearCritics(w, v, g)
    ELSE Return(w, "settle", {})

\* maybe_schedule_finalize, after a judge's or a critic's result.
MaybeScheduleFinalize(w) ==
  /\ At(w, "schedule")
  /\ job[w].type \in {"RUN_JUDGE", "RUN_CRITIC"}
  /\ \E v \in Reads(w) :
       LET g == job[w].gen
       IN  IF v.status # "JUDGING" \/ ~IsLatest(v, g) \/ ~JudgesPresent(v, g)
             THEN Return(w, "settle", {})
           ELSE IF SomeFailed(v, JudgesOf(g)) THEN Return(w, "failrun", {})
           ELSE IF ~JudgingComplete(v, g) THEN Return(w, "settle", {})
           ELSE IF CriticCount = 0 THEN Return(w, "enqueue", {FinalizeJob(g)})
           ELSE \E c \in {v, db} :
                  IF Present(c, CriticsOf(g)) = {} THEN \E s \in {c, db} : OpenCriticStage(w, s, g)
                  ELSE CloseCriticStage(w, c, g)

\* The same unit of work goes on after it has opened the stage and committed.
AfterOpening(w) == At(w, "opened") /\ HearCritics(w, view[w], job[w].gen)

\* VerificationEngine.verify: what the critics found, whether the answer's claims
\* have support, and whether its Python code, if there is any, compiles.
AdversarialCheck(v, s) ==
  LET findings == {f \in v.finds : f.sub = s}
  IN  IF \E f \in findings : f.fatal THEN "FAILED"
      ELSE IF findings = {} THEN "INCONCLUSIVE" ELSE "PASSED"
EvidenceChecks == {"PASSED", "INCONCLUSIVE"}
PythonChecks == {{}, {"PASSED"}, {"FAILED"}}

OverallStatus(results) ==
  IF "FAILED" \in results THEN "FAILED"
  ELSE IF results = {"PASSED"} THEN "PASSED" ELSE "INCONCLUSIVE"

VerdictsWithoutCritics(v, s) ==  \* mutant: no veto
  {OverallStatus({evidence} \union python) : evidence \in EvidenceChecks, python \in PythonChecks}
VerdictsOn(v, s) ==
  {OverallStatus({AdversarialCheck(v, s), evidence} \union python) :
     evidence \in EvidenceChecks, python \in PythonChecks}

Promoted == [PASSED |-> "VERIFIED", FAILED |-> "REFUTED", INCONCLUSIVE |-> "VERIFIED"]  \* mutant
CandidateAfter == [PASSED |-> "VERIFIED", FAILED |-> "REFUTED", INCONCLUSIVE |-> "VERIFICATION"]

\* finalize_run in the last generation: verify the best candidate and complete.
\* uq_candidate_state_submission and uq_verification_submission_kind may raise.
CompleteRun(w, v, g) ==
  LET target == Elite(g, Refuted(v, g))
      proposed == v.cands[target] \notin {"REFUTED", "VERIFIED", "VERIFICATION"}
      staged == IF proposed THEN [db EXCEPT !.cands[target] = "VERIFICATION"] ELSE db
  IN  IF v.cands[target] = "ABSENT" /\ db.cands[target] # "ABSENT" THEN Raise(w)
      ELSE IF ~VerificationEnabled THEN CommitStatus(w, staged, "COMPLETED", "settle", {})
      ELSE IF v.verdict[target] = "NONE" /\ db.verdict[target] # "NONE" THEN Raise(w)
      ELSE \E verdict \in IF v.verdict[target] = "NONE" THEN VerdictsOn(v, target)
                          ELSE {v.verdict[target]},
             seen \in IF proposed THEN {staged} ELSE {v, db} :
             CommitStatus(w,
               CandidateUpdates([staged EXCEPT !.verdict[target] = verdict],
                                seen, target, CandidateAfter[verdict]),
               "COMPLETED", "settle", {})

\* finalize_run in an earlier one: the recorded selection, or a new one.
Selections(v, g) ==
  IF v.survivors[g] # <<>> THEN {v.survivors[g]}
  ELSE ByRank(Selected(g, Refuted(v, g)), Refuted(v, g))

\* It breeds the next generation from it: clones take their parents in turn,
\* the last FreshCount researchers have none. Raises if another has done so
\* since (uq_generation_run_index, uq_selection_generation_submission).
Advance(w, v, g) == \E selected \in Selections(v, g) :
  LET clones == {a \in Researchers(g + 1) : a.index <= Population - FreshCount}
      parents == [a \in Submissions |->
        IF a \in clones THEN selected[((a.index - 1) % Len(selected)) + 1] ELSE db.parent[a]]
      bred == [db EXCEPT !.gens = g + 2, !.agents = Spawned(@, Researchers(g + 1)),
                         !.parent = parents, !.survivors[g] = selected]
  IN  IF v.gens < db.gens THEN Raise(w)
      ELSE CommitStatus(w, bred, "RESEARCHING", "enqueue",
                        {ResearchJob(a) : a \in Researchers(g + 1)})

\* finalize_run, for FINALIZE_RUN.
FinalizeRun(w) ==
  /\ At(w, "finalize")
  /\ \E v \in Reads(w) :
       LET g == job[w].gen
       IN  IF v.status \in Over THEN Return(w, "settle", {})
           ELSE IF ~IsLatest(v, g)
             THEN Return(w, "enqueue", {ResearchJob(a) : a \in Researchers(Latest(v))})
           ELSE IF v.status # "JUDGING" \/ ~JudgingComplete(v, g) THEN Raise(w)
           ELSE IF g + 1 = MaxGenerations THEN CompleteRun(w, v, g)
           ELSE Advance(w, v, g)

\* fail_run inside a scheduling unit of work: the handler still settles its
\* job, unless the transition is refused.
FailRun(w) ==
  /\ At(w, "failrun")
  /\ \E v \in Reads(w) :
       IF v.status \in Over THEN Return(w, "settle", {})
       ELSE CommitStatus(w, db, "FAILED", "settle", {})

-----------------------------------------------------------------------------
(* The handlers of the three job types that call a model provider. Each is  *)
(* a unit of work, the call, a second unit of work, and a schedule.         *)

AgentJobs == {"RUN_RESEARCH_AGENT", "RUN_JUDGE", "RUN_CRITIC"}

\* The submissions a judge has not evaluated yet.
UnjudgedByAll(d, a) == {s \in SubsOf(d, a.gen) : \A e \in d.evals : e[1] # s}  \* mutant
Unjudged(d, a) == {s \in SubsOf(d, a.gen) : <<s, a>> \notin d.evals}
Findings(d, a) == {f \in d.finds : f.critic = a}

Becomes(w, new, status, where) ==
  \E seen \in {view[w], db} :
    Commit(w, AgentUpdates(new, seen, job[w].agent, status), where, {})

\* The agent's result is there from an earlier attempt.
Resume(w) ==
  IF view[w].agents[job[w].agent] # "COMPLETED" THEN Becomes(w, db, "COMPLETED", "schedule")
  ELSE Return(w, "schedule", {})

\* Only the researcher's handler looks for a result before it looks at the run.
StartResearch(w) ==
  /\ At(w, "start")
  /\ job[w].type = "RUN_RESEARCH_AGENT"
  /\ IF job[w].agent \in view[w].subs THEN Resume(w)
     ELSE IF view[w].status \in Over THEN Return(w, "settle", {})
     ELSE Becomes(w, db, "RUNNING", "calling")

StartJudge(w) ==
  /\ At(w, "start")
  /\ job[w].type = "RUN_JUDGE"
  /\ IF view[w].status \in Over THEN Return(w, "settle", {})
     ELSE IF Unjudged(view[w], job[w].agent) = {} /\ SubsOf(view[w], job[w].gen) # {} THEN Resume(w)
     ELSE Becomes(w, db, "RUNNING", "calling")

StartCritic(w) ==
  /\ At(w, "start")
  /\ job[w].type = "RUN_CRITIC"
  /\ IF view[w].status \in Over THEN Return(w, "settle", {})
     ELSE IF Findings(view[w], job[w].agent) # {} THEN Resume(w)
     ELSE Becomes(w, db, "RUNNING", "calling")

ProviderAnswers(w) ==
  /\ pc[w] = "calling"
  /\ Return(w, "result", {})

\* The result, and with it the agent's completion. The run's status is not
\* read. A result that came in since the read raises: uq_submission_agent,
\* uq_evaluation_submission_judge, uq_critic_finding_agent_submission.
StoreSubmission(w) ==
  LET a == job[w].agent IN
  /\ At(w, "result")
  /\ job[w].type = "RUN_RESEARCH_AGENT"
  /\ IF a \notin view[w].subs /\ a \in db.subs THEN Raise(w)
     ELSE Becomes(w, [db EXCEPT !.subs = @ \union {a}], "COMPLETED", "schedule")

StoreEvaluations(w) ==
  LET a == job[w].agent
      fresh == Unjudged(view[w], a)
  IN  /\ At(w, "result")
      /\ job[w].type = "RUN_JUDGE"
      /\ IF \E s \in fresh : <<s, a>> \in db.evals THEN Raise(w)
         ELSE Becomes(w, [db EXCEPT !.evals = @ \union (fresh \X {a})], "COMPLETED", "schedule")

StoreFinding(w) ==
  LET a == job[w].agent IN
  /\ At(w, "result")
  /\ job[w].type = "RUN_CRITIC"
  /\ IF Findings(view[w], a) # {} THEN Becomes(w, db, "COMPLETED", "schedule")
     ELSE IF Findings(db, a) # {} THEN Raise(w)
     ELSE \E fatal \in BOOLEAN :
            LET finding == [critic |-> a, sub |-> Elite(a.gen, {}), fatal |-> fatal]
            IN  Becomes(w, [db EXCEPT !.finds = @ \union {finding}], "COMPLETED", "schedule")

-----------------------------------------------------------------------------
(* The worker loop and the queue (see JobQueue).                           *)

FirstUnit(type) ==
  CASE type = "CREATE_GENERATION" -> "create"
    [] type = "START_JUDGING" -> "judging"
    [] type = "FINALIZE_RUN" -> "finalize"
    [] type \in AgentJobs -> "start"

Claim(w, j) == ClaimFor(w, j, FirstUnit(j.type))

\* In the order of the roles, but for critics, which come as their ids do.
EnqueueNext(w) ==
  /\ pc[w] = "enqueue"
  /\ \E j \in todo[w] :
       /\ \A k \in todo[w] \ {j} : j.type = "RUN_CRITIC" \/ j.agent.index < k.agent.index
       /\ EnqueueOne(w, j)

\* handle_terminal_failure: fail_run, with the job's agent. Nothing catches
\* an InvalidRunTransition here.
ReportFailure(w) ==
  LET a == job[w].agent IN
  /\ At(w, "terminal")
  /\ \E v \in Reads(w) :
       IF v.status \in Over THEN UNCHANGED db /\ Drop(w, "idle")
       ELSE \E seen \in {v, db} :
         IF "FAILED" \notin Allowed[seen.status] THEN UNCHANGED db /\ Drop(w, "dead")
         ELSE /\ db' = [IF a = None THEN db ELSE AgentUpdates(db, v, a, "FAILED")
                          EXCEPT !.status = "FAILED"]
              /\ Drop(w, "idle")
  /\ UNCHANGED <<jobs, api, budget>>

-----------------------------------------------------------------------------
(* The specification.                                                      *)

UnitOfWork(w) ==
  \/ StartRun(w) \/ MaybeScheduleJudging(w) \/ StartJudging(w) \/ MaybeScheduleFinalize(w)
  \/ AfterOpening(w) \/ FinalizeRun(w) \/ FailRun(w) \/ ReportFailure(w)
  \/ StartResearch(w) \/ StartJudge(w) \/ StartCritic(w)
  \/ StoreSubmission(w) \/ StoreEvaluations(w) \/ StoreFinding(w)

Proceed(w) ==
  \/ Begin(w) \/ UnitOfWork(w)
  \/ ProviderAnswers(w) \/ ProviderFails(w)
  \/ EnqueueNext(w) \/ Settle(w) \/ Fail(w)

Next ==
  \/ CreateRun \/ EnqueueCreateGeneration \/ CrashApi
  \/ \E w \in Workers : Proceed(w) \/ CrashWorker(w) \/ Restart(w)
  \/ \E w \in Workers, j \in Jobs : Claim(w, j)
  \/ \E j \in Jobs : Lapse(j)

Spec == Init /\ [][Next]_vars

\* And the API enqueues unless it is killed. Nobody has to create a run.
Fairness ==
  /\ WF_vars(EnqueueCreateGeneration)
  /\ \A w \in Workers : WF_vars(Proceed(w)) /\ WF_vars(\E j \in Jobs : Claim(w, j))
  /\ \A j \in Jobs : WF_vars(LapseOfDead(j))

FairSpec == Spec /\ Fairness

\* The same with an operator who starts dead workers again.
RestartSpec == FairSpec /\ \A w \in Workers : WF_vars(Restart(w))

-----------------------------------------------------------------------------
(* Properties.                                                             *)

Places == UnitsOfWork \union {"idle", "calling", "enqueue", "settle", "raised", "dead"}
\* Types, and what the shape of the run implies: only existing generations
\* have rows, only jobs of existing rows are in the queue, a running job has
\* the owner that an open unit of work needs.
TypeOK ==
  /\ db \in Database
  /\ \A a \in Agents : a.gen >= db.gens => db.agents[a] = "ABSENT"
  /\ \A e \in db.evals : e[1] \in db.subs
  /\ \A f \in db.finds : f.sub \in db.subs
  /\ jobs \in [Jobs -> JobRow] /\ api \in {"new", "committed", "done", "dead"}
  /\ pc \in [Workers -> Places] /\ job \in [Workers -> Jobs \union {None}]
  /\ LoopOK(UnitsOfWork)
  /\ \A j \in Jobs :
       (jobs[j].status # "absent" /\ j.agent # None) => db.agents[j.agent] # "ABSENT"

\* A generation is left behind, or completes the run, only when every
\* submission of its population has been evaluated in both judge roles.
Judged(g) ==
  \A s \in Researchers(g), i \in 1..JudgeCount :
    \E c \in Copies : <<s, Agent(g, "judge", i, c)>> \in db.evals

JudgedBeforeAdvance ==
  \A g \in 0..db.gens - 1 : (g < Latest(db) \/ db.status = "COMPLETED") => Judged(g)

\* A run that is being judged has the whole population of its latest
\* generation: start_judging is never ahead of the researchers, as long as no
\* live worker has lost its lease.
JudgingHasAllSubmissions ==
  (db.status \in {"JUDGING", "COMPLETED"} /\ budget.lapses = 0) =>
    SubsOf(db, Latest(db)) = Researchers(Latest(db))

\* Clones, and only clones, have a parent, which was selected in the
\* generation before; a branch that judges or critics found fatally wrong has
\* descendants only where the whole generation was wrong, whichever critic
\* answered last.
LineageIsSound ==
  \A a \in Submissions :
    LET p == db.parent[a] IN
    /\ p # None <=> (a.gen \in 1..Latest(db) /\ a.index <= Population - FreshCount)
    /\ p # None =>
         /\ p.gen = a.gen - 1
         /\ \E i \in DOMAIN db.survivors[p.gen] : db.survivors[p.gen][i] = p
         /\ (Flaw(p) \/ db.cands[p] = "REFUTED") =>
              \A s \in Researchers(p.gen) : Flaw(s) \/ db.cands[s] = "REFUTED"

\* Verification outranks consensus: a candidate is VERIFIED only once it has
\* critics, all of them have answered, none with a fatal error, and its
\* verification passed. Critics that a second judge spawns over those of the
\* first (CriticsTwice) may come too late.
VerifiedIsEarned ==
  \A s \in Submissions : db.cands[s] = "VERIFIED" =>
    /\ db.verdict[s] = "PASSED"
    /\ CriticCount > 0
    /\ \A a \in FirstCritics(s.gen) : \E f \in db.finds : f.critic = a /\ f.sub = s
    /\ \A f \in db.finds : (f.sub = s /\ f.fatal) => f.critic \notin FirstCritics(s.gen)

\* The candidate state of a completed run says what its verification said.
VerdictStands ==
  db.status = "COMPLETED" =>
    \A s \in Researchers(Latest(db)) :
      /\ db.cands[s] = "VERIFIED" <=> db.verdict[s] = "PASSED"
      /\ db.verdict[s] = "FAILED" => db.cands[s] = "REFUTED"

\* At most one agent per judge role: a twin leaves the generation with three
\* judges, and it can never be finalized.
NoDuplicateJudges ==
  \A g \in Generations, i \in 1..JudgeCount : Cardinality(JudgeCopies(db, g, i)) <= 1

\* COMPLETED and FAILED are ends: state_machine.py allows no way out of them,
\* and no step takes one as long as no live worker has lost its lease.
TerminalIsFinal ==
  [][(db.status \in Over /\ budget.lapses = 0) => db'.status = db.status]_vars

\* A worker on a job of a generation that has been left behind (a duplicate,
\* or a late one) does not move the run, except to fail it.
StaleJobsMoveNothing ==
  [][\A w \in Workers :
       (job[w] # None /\ job[w].gen < Latest(db) /\ pc'[w] # pc[w]) =>
         db'.status \in {db.status, "FAILED"}]_vars

\* Workers that are in each other's way do not fail a run: where none is killed
\* or slow, it takes a provider that fails every attempt of a job.
FailsOnlyForCause ==
  (db.status = "FAILED" /\ budget.lapses = 0 /\ budget.crashes = 0) =>
    budget.raises >= MaxAttempts

\* Two judges have opened the critic stage of a generation, and it has twice the
\* critics and in the end twice the findings that its close counts on.
CriticsTwice(d, g) == Present(d, CriticsOf(g) \ FirstCritics(g)) # {}

\* Where no process is killed or slow, a run is left without a job only when it
\* is over: whichever of two workers sees the last researcher, judge or critic
\* done enqueues what comes next. But for one way: the critics came twice.
NeverStranded ==
  (Quiet /\ api = "done" /\ budget.lapses = 0 /\ budget.crashes = 0) =>
    db.status \in Over \/ CriticsTwice(db, Latest(db))

\* A candidate under attack is refuted or goes on to verification: where no
\* process is killed or slow and no job is left, no critic stage is left open
\* in a run that has not failed.
AttackIsDecided ==
  (Quiet /\ budget.lapses = 0 /\ budget.crashes = 0 /\ db.status # "FAILED") =>
    \A s \in Submissions : db.cands[s] # "UNDER_ATTACK"

\* A run whose first job was enqueued ends. The steps that see the last
\* researcher, judge or critic done are in different transactions from those
\* that make it so: none may leave the next job to the others.
RunEnds == (api = "done") ~> (db.status \in Over)

\* The queue as it is used here keeps what it promises.
Lifecycle == INSTANCE JobLifecycle
               WITH Keys <- Jobs,
                    phase <- [j \in Jobs |-> jobs[j].status],
                    tries <- [j \in Jobs |-> jobs[j].attempt]

ImplementsLifecycle == Lifecycle!Spec

=============================================================================
