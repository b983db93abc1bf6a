# Agent-coordination: a verification project

TLA+ models of the research and engineering pipelines of this repository, the
TLC configurations that check them on small instances, and TLAPS proofs about
both pipelines, the durable job queue they run on, the event log, the record of
model calls and the selection of survivors. Paths are relative to the repository.

## The system

Two kinds of run share one machine. A client posts a run to the **API**
(`services/api/app/main.py`), which commits a row and then enqueues a first
job. **Worker processes** (`services/worker/worker/runtime.py`) claim jobs from
a table in PostgreSQL (`packages/persistence/jobs.py`), call the **handler** of
the job's type, which calls a model provider and stores what it answers, and
then an **orchestrator**, which decides in a transaction of its own whether
the stage is complete and, after the commit, enqueues the jobs of the next one.
Nobody waits for anybody: all progress is by jobs that the completion of other
jobs enqueues. API and workers share nothing but the database.

### Inventory

| component | state | operations | what must be true of it |
|---|---|---|---|
| Durable job queue, `packages/persistence/jobs.py` | `jobs`: status, attempt, available_at, claimed_by, lease | enqueue (idempotent by key), claim_next (first requeues expired leases), heartbeat, complete, fail | a job is delivered at most max_attempts times and ends once; a worker settles only its own claim |
| Worker runtime, `services/worker/worker/runtime.py` | the job it holds | run_once in a loop; a lost claim, or a terminal failure that is refused, raises and ends the process | not every worker dies; every job ends; a failure is reported |
| Tournament orchestrator, `packages/core/orchestration/tournament.py` | runs, generations, agents, candidate_states, selection_decisions, lineage_links, verification_results | start_run, maybe_schedule_judging, start_judging, maybe_schedule_finalize, finalize_run, fail_run | a stage begins when the one before is complete; the run ends; lineage and verification are sound |
| Research handlers, `services/worker/worker/handlers/baseline.py` | submissions, evaluations, critic_findings | one handler per job type | a retry or a duplicate does no harm |
| Run state machine, `packages/core/orchestration/state_machine.py` | `runs.status` | assert_run_transition | COMPLETED and FAILED are final |
| Selection policy, `packages/core/orchestration/tournament_policy.py`, with the breeding in finalize_run | the slots filled so far | select; clones, parents and packets of the next generation | no slot is wasted or goes to a fatal branch; redundancy and novelty count; breeding is fair |
| Verification engine, `packages/core/verification/engine.py` | none | verify, overall_status | a fatal finding vetoes |
| Engineering pipeline, `packages/core/engineering/`, `handlers/engineering.py` | engineering_runs, engineering_artifacts, engineering_checks | plan, implement, test, review, repair, fail | no completion without passing checks; bounded repair; the run ends |
| API commands, `services/api/app/main.py` | - | create_run, create_engineering_run | the first job of a run is enqueued |
| Repositories and unit of work, `packages/persistence/repositories.py` | the transaction | begin, commit, rollback | constraints and read committed |
| Event log and SSE stream, `RunEventSqlRepository`, `main.py`, `apps/web/src/app/page.tsx` | `run_events`, the stream's cursor, what the browser has received | append, list after a cursor, reconnect | events are shown in order and once; none is missed but for a known cause |
| Adaptive routing, `packages/core/routing/adaptive.py`, `packages/providers/routed.py` | `model_profiles`, `model_states`, `model_calls` | generate, observe_call | an observation is lost only to one known race; a rate holds only what was earned |
| Worker start-up, `services/worker/worker/main.py` | the catalogue a worker routes by | build_handler seeds missing profiles | workers that start together do not all end |
| Research memory, `packages/core/research/memory.py` | knowledge | build packet | quotas per kind |
| Structured outputs, providers, prompts, mappers, migrations, layout of the web UI, baseline orchestrator (phase 1) | - | - | not part of the coordination |

What is hard here is what happens *between* transactions. Handlers read, call a
provider for up to minutes and write in another transaction. An orchestrator
commits a stage, and enqueues afterwards. Leases run out on slow workers and
their jobs are executed twice at once. Processes are killed anywhere, the
check "am I the last one?" is made in a transaction of each agent, and no row
is locked before it is decided upon. `PROJECT.json` lists these hazards at
their lines.

## Modules

```
JobLifecycle <--implements-- JobQueue ------- JobQueueProofs
     ^                       MCJobQueue
     |
     +-------implements----- Tournament --EXTENDS--> WorkerLoop
                             MCTournament               ^
EngineeringWorkflow <--impl- Engineering --EXTENDS------+
                             MCEngineering
EventLog <-EXTENDS, implements- Telemetry --- TelemetryProofs
                                MCTelemetry
Selection ------------------------------------ SelectionProofs
MCSelection

WorkerLoopProofs <-EXTENDS- TournamentProofs <-EXTENDS- TournamentRecordProofs
                 <-EXTENDS- EngineeringProofs                 <-EXTENDS- TournamentHandoverProofs
```

**JobLifecycle** is what the queue promises: each job is submitted once, is
delivered at most `MaxAttempts` times, and ends `done` or `failed`. A step is a
relation on every job, since one claim_next may requeue many.

**JobQueue** is the queue with its clock, plus the worker loop. Every
operation of `DurableJobQueue` is one transaction with the rows it decides on
locked, hence one action; the worker's claim, handler and settlement are
different actions. Times are relative to the present (`due`, `lease`) and
saturated where the code cannot tell values apart, so time is unbounded and the
state space finite. `Lag` is the time between reading the clock in Python and
the commit. `try` and `age` are history variables: which attempt a process works
on and for how long. A process that reports a terminal failure goes on or ends: run_once does not
catch what `handle_terminal_failure` raises, which it does where the run has moved on since it was read.
The pipelines' ReportFailure say when; here it may happen at any report, and `refused` remembers it.

**WorkerLoop** is the same queue and loop without the clock, as the pipelines
see it, with *units of work*: `BeginAt` reads the database into `view[w]`, and
the action named after the method of the code decides on what was read and
commits. So any other commit can come between. `Reads(w)` and `\E seen` in the
modules below say what SQLAlchemy does at READ COMMITTED: the identity map is
weak, so a row that nobody holds is read again by a later query; the run is read
first, so its row may be older than the rest; and `update_status` reads its row
once more before it writes, which may or may not see what has been committed in
the meantime. That other units of work commit between the run and the rest, and not between any two of the
rest, matters in the critic stage only. The other units of work count agents and results, which only grow: a reading that
finds them all is as good as the later one, a reading that misses one as good as the earlier. What finalize_run reads of candidates,
findings and verdicts is settled when it begins; a critic that was spawned second may still answer, which changes one table,
and another execution of finalize_run may come first, which has then written what this one finds. But maybe_schedule_finalize reads critics
before candidates, which one commit creates together, so `OpenCriticStage`, `CloseCriticStage` and
`HearCritics` choose before each of their queries whether it sees what is committed by then. Unique constraints are checked against the database as it is
at the commit. `Commit`, `Return` and `Raise` are the three ways out of a unit of
work. `Settle` and `Fail` are the two ends of run_once, `Lapse` is an expired
lease, of a dead worker or of a slow one, and `CrashWorker` and `CrashApi` kill
a process before any step.

**Tournament** is one research run. `db` has one field per table the control
flow reads; agents and submissions are named by generation, role and index,
jobs by what their idempotency keys are made of. Each action is a unit of work
of an orchestrator method or of a handler:

| code | actions |
|---|---|
| create_run | CreateRun, EnqueueCreateGeneration |
| start_run | StartRun |
| _run_research_agent, _run_judge, _run_critic | StartResearch / StartJudge / StartCritic, ProviderAnswers or ProviderFails, StoreSubmission / StoreEvaluations / StoreFinding |
| maybe_schedule_judging, maybe_schedule_finalize | MaybeScheduleJudging, MaybeScheduleFinalize (OpenCriticStage, CloseCriticStage, HearCritics), AfterOpening for what follows its commit |
| start_judging | StartJudging |
| finalize_run | FinalizeRun (CompleteRun, Advance) |
| fail_run, handle_terminal_failure | FailRun, ReportFailure |
| enqueue loops after a commit | EnqueueNext, one job per step |

Quality and novelty are data: within a generation quality falls with the index,
`Flawed` names the submissions a judge calls fatal, a critic may say anything, and
so may the evidence and Python checks of the verification within their ranges.

**EngineeringWorkflow** is what an engineering run promises without jobs or
workers; **Engineering** is the pipeline, on WorkerLoop. Whether a set of files is
clean and what a reviewer says is chosen freely; `db.files`, `db.reviews` are
sequences because no constraint keeps artifacts unique.

**EventLog** is the event log of a run, the SSE endpoint that follows it and the
control room that displays it. What matters is when things get their place: an
event's `created_at` is `now()` of its transaction, so the start of the unit of
work, and the commit that makes it visible comes later. `BeginUnit` takes the
stamp, `CommitUnit` appends, `Poll` is one round of the generator, `Deliver` one
event at the browser, and `Reconnect` loses what is on the wire and starts again
after the last event *received* (`Last-Event-ID`). `overtaken` is a history
variable: what was committed behind the cursor.

**Telemetry** is a worker from its start: seeding the model catalogue
(`BeginSeeding`, `Seed`), announcing an agent, calling a model, and the unit of
work that records the call, whose read of `failure_rate` (`ReadState`) and
commit (`Record`) are different actions. Its units of work are those of
EventLog, which it extends: every step is a step of EventLog or leaves the log
alone. A failure rate, a moving average, is the set of calls folded into it,
because each stays in it with some weight. Which model the router
prefers is free: its utilities are floating point numbers over states that were
loaded at the start.

**Selection** is `TournamentPolicy.select`, one action per slot, and the breeding
of the next generation. Branches are named by their rank; a branch's text
is a set of words, and Jaccard similarity, novelty and the redundancy threshold are
computed from it as the code does, with fractions in place of rounded floats.

The **MC** modules give the constants their values and name the symmetry sets.

## What is checked

Passing runs:

| run | instance | shows |
|---|---|---|
| queue_safety | 2 jobs, 2 processes with distinct ids, 3 attempts, lease 3, lag 1, 1 kill, heartbeats | claims are fenced (SettlesOwnClaim), a prompt worker keeps its claim, not all workers die and every job ends (without a kill or a refused report), the queue implements JobLifecycle (at most so many deliveries, FAILED only after the last, one end) |
| tournament_safety | 2 workers, 2 generations of 2, no critics; 2 failing provider calls, or 1 lease that runs out on a live worker | stages wait for the whole population, FAILED needs a job that failed every attempt, end states are final, the queue as used implements JobLifecycle; a job executed twice at once spoils no judging |
| tournament_critics | 2 workers, 2 generations of 2, 1 critic, verification | in any order of critics, judges, schedules and the queries of the critic stage: no refuted branch is bred from, VERIFIED is earned, and no hand-over is left to nobody but where the critics were spawned twice (NeverStranded) |
| tournament_recovery | 1 worker killed twice anywhere and started again, 2 generations, a critic, verification | every stage resumes, no judge is spawned twice, the verdict stands, left-over jobs do not move the run |
| engineering_workflow | 1 worker, 2 repair cycles, 2 failing calls | the pipeline implements EngineeringWorkflow and ends |
| engineering_safety | 2 workers, 1 kill, 1 repair cycle | completion is earned, tests see all files, a retry stores nothing twice, the implementers' race fails no run, a run is stranded only for the causes listed below |
| telemetry | 2 workers that start, are killed once and start again; 2 models, 2 calls, 2 units of work with up to 2 events, 1 broken connection | what the control room misses and what a failure rate loses, and that it is nothing else; events appear in order; every event not overtaken is shown |
| selection | 5 branches of up to 3 words, every number of fatal ones and of slots, threshold 1/2, 1 fresh explorer | no wasted slot and none for a fatal branch, redundancy only when forced, novelty survives, fair breeding, packets cross |

Violations, each a disagreement between the code and what the repository says
of it (`findings`):

* **queue_lapse.** `docs/history/phase-01-implementation-contract.md:29` promises
  "terminal failure after retry exhaustion". A lease that runs out on the last
  attempt makes the job FAILED inside another worker's poll; nobody calls
  handle_terminal_failure, and the run is not failed.
* **tournament_twins.** `docs/history/phase-01.md:150` requires that "duplicate job
  execution does not duplicate durable state". Two executions of START_JUDGING
  both create both judges; with four judges the generation is never finalized.
* **tournament_attack.** `docs/history/phase-06.md:23-24`: "A candidate moves to `REFUTED` when any configured
  critic finds a fatal flaw; otherwise it moves to `VERIFICATION`." Two judges finish together. The second reads no
  critics (`tournament.py:263`), the first commits its opening of the stage, the second reads the candidates (264), so it does not
  insert them (282), violates no constraint and spawns the critics again (314). Each answers, there are twice
  `critic_count` findings, and line 374 returns False in every execution: the candidate stays UNDER_ATTACK and the run
  JUDGING, with no job left, no process killed and none slow.
* **engineering_stale.** `docs/history/phase-10.md:38`: "The reviewer is not
  allowed to approve while deterministic checks fail." A review of cycle 0 that
  is executed twice, the later time approving, completes the run in cycle 1.

### Bounds and why they are enough

Two workers are the smallest number that interleaves: the hazards of this code
need two units of work in flight and a commit between the reads and the writes
of one of them. A hazard that needs three at once is not covered. Two generations are needed for the stale
jobs and the lineage, and are all that is: generations do not look further back
than one. A population of two with one survivor and one fresh researcher has a
clone, a fresh agent and a branch that is dropped. One critic is enough for the races of the judges and for the one
between the critic's answer, the close of the stage and the finalizer; spawned twice, there are two.
Two attempts have a retry and an exhaustion; recovery uses three because each of
two kills costs one. The bounds `MaxRaises`, `MaxLapses` and `MaxCrashes` count
the rare events; each is high enough for its run's event to hit any two steps
that matter, or (lapses, kills) is raised in the run that is
about it. `Together = FALSE` lets a behaviour have several rare events of one kind but
not of two: tournament_safety so asks two questions in one run, for failing calls and
for a lapse, and not for both at once. `Copies`
(agents of one judge role), `CriticCopies` (how often a generation's critics can be spawned: once by each execution of a judge's job that
began before there were any) and `MaxCycle` cap what the code leaves open and are as large as these bounds
can make them: TLC reaches no state in which one of them stops a step.
A wire, a cursor and an overlap need two units of work and two calls (`MaxUnits`,
`MaxCalls`): one that is early and one that is late. `MaxEvents` of two puts a
cursor between events of one transaction. One kill and one broken connection
(`MaxKills`, `MaxDrops`) hit any of these steps; the proofs below hold for any number.
Five branches of three words have an elite, a novelty and a wildcard slot and two more for
the quality rounds, with room for redundant, fatal and left-out branches at once, and clones
that wrap around the survivors.
Deadlock is not checked where the system really stops: a run that is over leaves
nothing to do.

### Fairness

`WF` on each worker's next step: every provider call has a timeout
(`packages/providers/base.py:15`), handlers contain no other wait, and
`run_worker` polls in a loop. `WF` on an idle worker's claims, and on the lease of a dead
worker's job being found expired, which the same poll does. `WF` on the API's second
step. `WF` on `Poll` and `Deliver`: the
generator polls in a loop and the network delivers. There is no fairness on kills, on lapses of live workers, on provider
answers (a call may always fail, up to the bound) or on `Restart`, since
`docker-compose.yml` sets no restart policy. The single exception is
`RestartSpec` of tournament_recovery, where the only worker dies and the
question is what an operator who starts it again finds. No strong fairness is used.

### What is false outside these instances

Written down so that the passing runs are not read as more than they say.

* `SettlesOwnClaim` needs distinct worker ids. `worker_id` defaults to the host
  name, so two workers on one host share it, and a slow one can then settle the other's claim.
* `EveryJobEnds` and `SomeWorkerSurvives` speak of behaviours without kills: a lone worker that is killed ends
  nothing. And without a refused report (`refused`), for then all workers can end although nobody kills one: D is slow and
  loses the lease of its job, A takes it and fails its last attempt, and A's terminal report reads the run; D
  commits what completes or fails the run, so A's update is refused and A ends (`runtime.py:33-34`); and D, whose claim is gone,
  ends when it settles. `EveryJobEnds` is checked with distinct ids; `SomeWorkerSurvives` is proved for
  shared ones too.
* With a lease that runs out on a *live* worker, `TerminalIsFinal`,
  `VerdictStands` and `StaleJobsMoveNothing` of Tournament are false: finalize_run
  and the close of the critic stage write on rows read earlier. TerminalIsFinal and
  JudgingHasAllSubmissions say so themselves (`budget.lapses = 0 =>`). With
  critics the first two are false for two workers even without a lapse: the critic
  stage is closed by each critic that sees all others done, and the later one
  demotes a candidate the finalizer has verified.
* `ImplementsWorkflow` is checked for one worker without kills. A stale status
  update of the second implementer can set a run that is REVIEWING back
  to TESTING; a TEST left over from a kill can move the next cycle to
  REVIEWING before its tests have run.
* `CompletedIsEarned` is checked with one kill and one repair cycle, and is proved without
  kills. With a kill and two repair cycles it is false: a worker is killed between enqueueing
  the repair of cycle 0 and settling its review; the lease runs out; when
  the review of cycle 0 is executed again, the review of cycle 1 has approved and is about to say so.
  The old review, which looks at the status and not at the cycle, rejects cycle 1, the repair leads to cycle 2, and the late
  approval of cycle 1 completes the run with cycle 2 untested.
* `EngineeringEnds` is checked without kills: maybe_schedule_tests,
  review_completed and repair_completed enqueue only in the execution that moved
  the run, so a kill between commit and enqueue leaves the run where it is.
* So an engineering run can be stranded, with no job left and no end.
  `StrandedForCause` lists the ways: the API is killed before the first enqueue; a worker is killed
  with a TEST or REPAIR still to enqueue (a retry enqueues implementers and reviews again), or before it
  reported a job that failed for good; or, without any kill, the status update of the second implementer
  (`repositories.py:139`), decided on a row read before, sets a REVIEWING run back to TESTING
  after its tests are done.
* That there is no other way is proved without kills and lapses (LeftOnlyByOvertaking), and checked with one kill
  and one repair. With a kill and two repairs there is: a worker is killed between enqueueing the repair of cycle 0
  and settling its review; the review, executed again, and the review of cycle 1 both find cycle 1 REVIEWING and both
  reject it; the repair of cycle 1 runs, and the late update sets the run, TESTING in cycle 2, REPAIRING with no repair
  to come. And with as many failing calls as a job has attempts, the late update of the second implementer can set
  a run that has FAILED back to TESTING.
* A run whose API process is killed before the first enqueue stays CREATED;
  `RunEnds` and `EngineeringEnds` speak of runs whose first job was enqueued.
* A client can miss an event. One that is committed after a later-stamped one was
  streamed lies behind the cursor for good (`overtaken`), although
  `docs/history/phase-09.md:22` speaks of the complete event stream. The property is that
  there is no other way.
* An observation of a model can be lost, although `README.md:210` says that states are
  updated after every call: two workers that record a call of one profile at once both read
  the old rate. `LostOnlyToOverlap` says that nothing else loses one. A call that
  raised is charged to the primary model, whichever was asked.
* The novelty slot does not look for redundancy, although `README.md:125` says that a
  branch too like a survivor is skipped whenever there is an alternative: it may take a branch like the
  elite. `AlikeOnlyIfForced` is about the other slots.
* `FailsOnlyForCause` of Tournament is checked and proved without critics. With critics, two judges that finish
  together both try to open the critic stage (`tournament.py:263-335`), and the one that comes second may lose an attempt to
  the unique constraint. Then one provider failure less fails the run, but never two: CriticsCostOneAttempt.
* Or it reads the candidates of the first and spawns the critics twice: tournament_attack. Such a run may be left JUDGING without
  a job. So NeverStranded excepts it (`CriticsTwice`), and `RunEnds` is checked with one worker, whose critics are
  spawned once. `VerifiedIsEarned` is about the critics spawned first: the first close may be right, FINALIZE_RUN enqueued and the
  candidate VERIFIED before a second critic of the same role answers, fatally or not.
* With more survivors than clones some survivor has no child (`BreedingIsFair`).

## What is proved

### The queue

`JobQueueProofs` proves for every number of jobs and processes, every lease,
delay, lag and attempt bound that satisfies `QueueAssumption`:

| theorem | from |
|---|---|
| TypeCorrect: `[]TypeOK` | QueueInv |
| ExhaustedWhenFailed: a FAILED job has made all its attempts | QueueInv |
| SettledJobsStay: no step changes a settled job | QueueInv, TypeOK |
| ClaimsAreFenced: `[]SettlesOwnClaim` | DistinctWorkerIds, FenceInv |
| PromptWorkersKeepClaims: `[]PromptWorkerKeepsClaim` | DistinctWorkerIds, FenceInv |
| WorkersSurvive: `[]SomeWorkerSurvives` (without a kill or a refused report) | at least one process |
| QueueImplementsLifecycle: `ImplementsLifecycle` | QueueInv |

`QueueInv` strengthens the type invariant by `RowInv`, what every row must look
like for the operations to keep it so: a waiting row has an attempt left, a
FAILED one has none, a running one has an owner; and by `HoldsKey`, a process
that handles a job holds a key. TypeOK alone is not inductive: a claim adds one
to `attempt`, and only RowInv says that a claimable row is below the maximum.
Each row operation preserves `GoodRow` in a lemma of its own, so the proof of a
step only says which operation it applies to which row.

`FenceInv` adds what a process may assume of the row it works on: if the row is
its own, it is the claim it made (`try` is the row's attempt), and while its age
is at most the lease less the lag, the row is its own and its lease has at least
what the age has not used. It needs `DistinctWorkerIds`, an assumption of the
theorems that the code does not enforce (see above).

The refinement is proved row by row: each operation of the queue is one of
JobLifecycle's relations on the row's phase, or leaves it alone, and a poll is
the composition of a requeue with a claim.

### The event log and the record of calls

`TelemetryProofs` proves of EventLog, for any number of writers, units of work, events and
broken connections, and of Telemetry, for any number of workers, models, calls and kills:

| theorem | from |
|---|---|
| LogInvariant: `[]LogInv` | induction over the actions |
| ShowsInOrder: `[]ShownInOrder` | LogInv |
| MissesOnlyOvertaken: `[]MissedOnlyIfOvertaken` | LogInv |
| TelemetryUsesLog | every action is one of the log or leaves it alone |
| ControlRoomOfWorkers: `[]ShownInOrder` | TelemetryUsesLog, ShowsInOrder |
| TypeCorrect: `[]TypeOK` | LogInv, CallInv |
| OnlyOverlapsLose: `[]LostOnlyToOverlap` | CallInv, ObservationInv |
| RatesHoldCommittedCalls: `[]RatesAreEarned` | CallInv, ObservationInv |
| OneWorkerStarts: `[]StartupLeavesOne` | CallInv, StartInv |

The inductive invariant of the log, `LogInv`, needs that what is on the wire lies between
what the browser received last and the cursor (`WireInv`): that is why a delivery in
order keeps the display in order, and why a browser that resumes after the last event it
received finds everything that was on the wire ahead of it again. Telemetry gets the
log's theorems from the refinement instead of proving them again. Its own
`CallInv` is the type invariant with what each place of a worker implies: whether a unit of
work is open, that the models it routes to have profiles, that it holds a call. `ObservationInv`
says, of every rate and of every rate that a worker has read and not yet written back, that it
holds only committed calls charged to the model (`EarnInv`) and all of them but overlapped
ones (`LossInv`); the second half is what makes the write of an old rate harmless or
accounted for. `StartInv` says that whoever has lost the race for a profile, or is about to,
has lost it to a worker that is up.

### The selection

`SelectionProofs` proves for any finite set of words, any population and threshold:

| theorem | from |
|---|---|
| NoSlotIsWasted: `[]SlotsAreUsed` | SelectInv |
| RedundancyIsForced: `[]AlikeOnlyIfForced` | SelectInv |
| NoveltyIsKept: `[]NoveltySurvives` | SelectInv |
| BreedingKeepsFair: `[]BreedingIsFair` | SelectInv, BredInv |
| EveryPacketCrosses: `[]PacketsCross` | SelectInv, BredInv |

`SelectInv` says that all who are selected are viable, how many there can be at each step, that
redundant ones are only selected when nothing fresh is left, and that the novelty survivor is more novel than
all that remain. Breeding deals clones to survivors by rank, `rank % |survivors|`, so its fairness needs
that every rank below the number of survivors is somebody's (`PlacesAreTaken`): the least number that
is not would be the number of survivors below some one of them. Then the children of a survivor are the numbers of one remainder, and
`DealtEvenly` compares two remainders by an injection that moves each child to the next place.

### The worker loop

`WorkerLoopProofs` has no theorems of its own: it is what both pipelines need of the loop they
share, as lemmas about any set `K` of jobs, `D` of databases and `U` of places where a unit of
work is open. `LoopInv(K, D, U)` is the types of the loop with `LoopOK` (who has a job open, has read
something and owes no enqueue), `RowsOK` (as for the queue), `HoldsRow` (a job that is worked on was
enqueued) and `Exclusive`: as long as no live worker has lost its lease, the row of a job is its holder's
own. Every action of the loop keeps it, and so does every step of a
handler that `Works` or `LetsGo` describe: the worker goes on with its job and leaves the queue
alone, or lets go of it. A pipeline only has to show that each of its handlers does one of the two.

### The research pipeline

For any number of workers, generations, branches, judges' copies, critics, attempts, failing calls, lapses and kills:

| theorem | from |
|---|---|
| TypeCorrect: `[]TypeOK` | RunInv |
| JudgedFirst: `[]JudgedBeforeAdvance` | RunInv |
| QueueKeepsItsPromise: `ImplementsLifecycle` | RunInv |
| LineageHolds: `[]LineageIsSound` | RunInv, RecordInv |
| VerifiedHolds: `[]VerifiedIsEarned` | RunInv, RecordInv |
| JudgedWhole: `[]JudgingHasAllSubmissions` (which speaks of runs without lapses) | RunInv, Undisturbed |
| OneJudgePerRole: `budget.lapses = 0 => NoDuplicateJudges` | RunInv, Undisturbed |
| VerdictHolds: `VerdictStands`, with one worker or without critics | RunInv, RecordInv, VerdictInv |
| OneWorkerEndsOnce: `TerminalIsFinal`, with one worker | RunInv, VerdictInv |
| EndsForGood: `TerminalIsFinal`, without critics | RunInv, Undisturbed, ResultsInv, EndsInv |
| StaleJobsAreHarmless: `StaleJobsMoveNothing`, with one worker or where no live worker loses its lease | RunInv, Undisturbed, VerdictInv |
| NeverLeft: `[]NeverStranded` (which speaks of runs without lapses and kills, and excepts those with critics spawned twice) | the above, ResultsInv, HandInv |
| FailsForCause: `CriticCount = 0 => FailsOnlyForCause` (same) | HandInv, CauseInv |
| CriticsCostOneAttempt: with critics a run fails for one failing call less at most | HandInv, CauseInv |

The difficulty is the same everywhere: a unit of work decides on rows that others have written
since. So every invariant speaks of the database, of each worker's `view` of it, of the jobs in the queue
and of those still to be enqueued, and says how the view may differ from the database.

* `RunInv` is about the rows. `Shape` says which imply which (no judge before the whole population has submitted, no
  generation behind the latest with an evaluation missing); `Behind`, that a
  view only lacks rows and has none too many; `JobFits`, that a job's rows exist. JudgedBeforeAdvance is not
  inductive, because finalize_run counts the evaluations of its view: `Shape(view)` and
  `Behind(view, db)` carry the count over. Nothing here needs leases, so it survives them.
* `RecordInv` is about what is decided once: findings, the state of the candidate under attack, verdicts,
  parents. `Stands` says that what a view shows as decided is so in the database, and `CriticsFirst` that no FINALIZE_RUN
  exists before all critics spawned first were heard (`FirstCritics`: a finding of theirs is never undone, and their number alone
  lets the stage close); without it a finalizer could breed from a
  candidate that the last critic refutes. A step is first classified by what it does to the database
  (`Effect`: create, spawn, hear, open, close, advance, complete, or nothing that matters), then each class is shown to keep the invariant.
* `Knows` holds as long as no live worker has lost its lease: start_judging's view has every judge of its generation, since
  nobody else executes the same job. This is what a lapse breaks, and tournament_twins shows it broken.
* `VerdictInv` is about verdicts, and has a reason for each of the two hypotheses under which they stand. A single worker, killed
  and slow as it may be, has read what is still so (`ReadsNow`), and gives a verdict only in the step that ends the run. Without critics
  a candidate is made in the step that finalizes its run, and finalize_run makes of it what the verdict says, so
  two finalizers that do not know of each other agree (`VerdictFits`, of the database and of each view). With both, critics and
  a second worker, neither holds: the stage is closed again over the finalizer's verdict. A job of a generation left behind is harmless for yet another reason:
  it reads that its generation is not the latest, and a start_judging that has read an older run has also read that its judges are there (`Knows`).
* `ResultsInv` (no lapses) is about who writes: the rows of an agent are written by the worker that holds its job and nobody
  else, so that worker's view of them is the database (`OwnRows`); what an agent has answered is stored and stays, and
  the steps of the critic stage come after the answers of all judges. Kills do not matter: they let go of a job, which leaves the rows as they are.
* `HandInv` (no lapses, no kills) is why nobody is stranded. NeverStranded itself says nothing until all is quiet, so the invariant
  says at every moment who owes what: once all the jobs of a stage are *handed on* (settled, or past the point where their worker
  decides that others are still at work), the job of the next stage is enqueued or in some worker's hands (`GoesOn`). The step
  that matters is a worker that sees others unfinished and leaves: the view is behind, so the others may have
  finished since, each having seen somebody else unfinished. `Enough` with ResultsInv excludes it: an agent's answer is committed
  before the unit of work that asks whether all are done begins, so the last to commit sees all of them. Jobs that
  end otherwise need an excuse (`Excuses`: the run is over, the stage is judged already, the critics of the generation were spawned twice), and every stage a beginning (`Beginnings`).
  A step is described by what each worker does (`Moves`) and by what becomes of the run (`Proceeds`), and `Handed`
  is shown to survive any such step once.
* `CauseInv` (the same) counts. Whoever fails the run has used up a job's attempts, so the attempts a job has made are held
  against the failures of providers so far (`Tries`, `Allowance`): until the failures suffice (`PaidFor`), nothing fails (`Blameless`). A
  handler must therefore not raise for any other reason: what a job relies on is there whenever it is executed (`Prepared`),
  and a worker that is about to move the run finds it as it has read it (`NotOvertaken`), since who else could have moved it
  holds the same job. The exception is the critic stage, which each judge may try to open: the later one violates a unique constraint and
  its attempt is lost, and `Allowance` grants the judges' jobs this one attempt once the critics are there. Or it spawns the critics again,
  which fails nothing: their jobs find what they need, as the first critics' do.
* `EndsInv` (no lapses, no critics, but kills) is why the end of a run is final. finalize_run and fail_run both check the transition on a row they
  read earlier, so the run ends once only if they never meet. Whoever is about to move the run on finds every agent of its
  stage done (`StagesDone`, and `MoverFindsAllDone` for the stage it leaves); whoever is about to report a failure holds the job of an agent that has not
  answered, or the run is over already (`Unfinished`); nobody else answers for that agent. So the two exclude each other
  (`ReporterIsAlone`), of those who move it on there is one (`OneMover`), and nobody about to move is overtaken (`NobodyOvertaken`). That nobody fails
  for any other reason needs `Prepared` again, which does not mind kills. With critics it would be false: the judge that comes too late
  to open the critic stage fails with its answer stored, and on its last attempt reports that failure whenever it gets to it.

### The engineering pipeline

For any number of workers, attempts, failing calls, lapses and kills, and every number of repairs the API accepts (0 to 5):

| theorem | where | from |
|---|---|---|
| TypeCorrect: `[]TypeOK` | always | TypeInv |
| TestsSeeEveryRole: `[]TestedIsWhole` | always | WholeInv |
| StoredOnceUnlessSlow: `StoredOnce` | no live worker has lost its lease | OnceInv |
| CompletedOnlyWhenEarned: `CompletedIsEarned` | nor was one killed | EarnedInv |
| OneWorkerKeepsWorkflow: `ImplementsWorkflow` | one worker, no kills | SoloInv |
| FailsForCause: `[]FailsOnlyForCause` | no lapses or kills so far | CauseInv |
| LeftOnlyByOvertaking: `StrandedForCause` | nor as many failing calls as attempts, but for one | LeftInv |

The hypotheses are those under which the properties are true: engineering_stale refutes CompletedIsEarned with a
lapse, and "What is false outside these instances" says what kills and a second worker do.

* `WholeInv`: a view is behind the database but files are never removed, so what maybe_schedule_tests has seen is still
  there when TEST(0) is enqueued and when it is executed, and a repair writes the files of its own cycle before its tests.
* `OnceInv`: the holder of a job either finds its slot filled or the slot is empty and stays so until it writes,
  because the row is its own (`Exclusive`).
* `EarnedInv`: the jobs of the cycles come in turn (`CyclesInTurn`): a REVIEW exists only when its TEST is past, a
  REPAIR when its REVIEW is, the next cycle when the REPAIR is. Past means that nobody executes it any more, and this is what a kill
  between enqueue and settle destroys. So whoever acts on a cycle acts on the current one, a reviewer's view has the
  checks as they are, and an approval was given on checks that passed (`ApprovesWell`).
* `SoloInv`: with a single worker a view is the database (`ReadsNow`), and a job of the current cycle that is still
  due finds the run in its stage (`InStage`). With these, each commit is a step of EngineeringWorkflow and
  everything else a stutter. Leases may still run out: nobody else claims the job.
* `CauseInv`: as long as there was no kill, no lapse and fewer than MaxAttempts - 1 provider failures, no job uses up its
  attempts. A known job finds the run in a stage for it and the artifacts it needs (`Fits`), so a handler raises only by a
  provider failure or by an update of a status it read out of date. At most one decision is overtaken at a time
  (`OneOvertaken`: the slower implementer's, or that of the worker it moved the run away from), and the attempts that a job
  has used up are paid by provider failures but for one, that one only after the tests were set off and
  with nobody overtaken (`Paid`). So nobody reports a failure, and what failed the run is the last review (`FailedWell`).
* `LeftInv`: under the same hypotheses (`Frugal`) each status has a job that leads out of it: PLANNING the plan (`PlanLeads`), TESTING,
  REVIEWING and REPAIRING the test, review or repair of the current cycle (`CycleLeads`), and IMPLEMENTING an implementer
  that has not come to its last step on files that it saw incomplete (`ImplementersLead`): if one returns because the other's files are
  not there, the other has not stored them and is still to come. A plan, a test or a repair finds the run in its own
  status (`ReadsStage`). Of a review this is not true, and that is the way out the property leaves: the review is done, and the
  run is TESTING or REVIEWING.

TLC checked each of the invariants of both pipelines on small instances before it was proved (in Tournament with two workers, critics and
failing calls, `EndsInv` with two and three workers, kills and failing calls; here `EarnedInv` with two workers and two repair cycles, `SoloInv` with two, `CauseInv` with two workers and one,
`LeftInv` with two workers and two cycles and with three workers).

### Only model-checked

* Liveness (`EveryJobEnds`, `RunEnds`, `EngineeringEnds`, `EventsAreShown`): out of the prover's reach,
  as is ENABLED.
* `StrandedForCause` of Engineering with a kill, where engineering_safety checks it. It is proved without one.

## What is not modelled

* Payloads, prompts, texts, scores, knowledge items. They are written in the same
  transactions as what is modelled and no control flow of the pipelines reads them.
  Research memory (`packages/core/research/memory.py`) is a pure choice of texts for a
  prompt: quotas and sorting, nothing a later step depends on.
* In Tournament, who survives: replaced by one fixed order, exact for the one
  survivor its instances have; Selection models the choice itself.
* The router's utilities and its exploration: any model may be chosen.
* PAUSED: the state machine allows it, no code sets it.
* Providers and structured output parsing: a call answers, parses or not, or fails.
* The phase 1 baseline orchestrator, which the worker's handlers no longer use for a
  run; migrations; the domain dataclasses, ports and mappers, which hold no
  control flow; the layout of the web UI.

## Plan

1. Proofs: StrandedForCause with one kill.
2. Tournament over Selection's outcome instead of one fixed order, with two survivors and a
   shortage of sound branches.
