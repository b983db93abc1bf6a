----------------------------- MODULE Engineering -----------------------------
(***************************************************************************)
(* One engineering run, from POST /engineering-runs to COMPLETED or        *)
(* FAILED: the handlers of the five engineering job types                  *)
(* (services/worker/worker/handlers/engineering.py) and the orchestrator   *)
(* they call (packages/core/engineering/orchestration.py), on WorkerLoop.  *)
(*                                                                         *)
(* A handler reads what its stage needs, calls the provider, stores the    *)
(* artifact (no constraint keeps artifacts unique) and calls the           *)
(* orchestrator, which checks the run's status, moves it and enqueues the  *)
(* next job after the commit. A retried handler that finds its artifact    *)
(* goes straight to the orchestrator. Whether files pass the checks, and   *)
(* what a reviewer thinks of them, is any value.                           *)
(***************************************************************************)
EXTENDS WorkerLoop, Sequences, SequencesExt

CONSTANTS
  MaxRepairs,   \* max_repairs of the run
  MaxCycle      \* bound: the repairs that are ever counted

\* A late job may take repair_count past max_repairs. A repair is handed to a
\* handler at most MaxAttempts times and counts itself once each time.
ASSUME MaxRepairsAssumption ==
  MaxRepairs \in 0..5 /\ MaxCycle \in Nat /\ MaxCycle >= MaxRepairs

IMPLEMENTER_ROLES == {"primary", "test_specialist"}

Cycles == 0..MaxCycle   \* repair cycles
RolesOf(c) == IF c = 0 THEN IMPLEMENTER_ROLES ELSE {"repair_engineer"}
Slots == {s \in {"primary", "test_specialist", "repair_engineer"} \X Cycles : s[1] \in RolesOf(s[2])}

\* Jobs by their idempotency keys. The cycle of a repair is the one it
\* repairs, as in its payload.
Job(type, c, role) == [type |-> type, cycle |-> c, role |-> role]
PlanJob == Job("PLAN", 0, None)
ImplementJob(role) == Job("IMPLEMENT", 0, role)
TestJob(c) == Job("TEST", c, None)
ReviewJob(c) == Job("REVIEW", c, None)
RepairJob(c) == Job("REPAIR", c, None)
Jobs ==
  {PlanJob} \union {ImplementJob(r) : r \in IMPLEMENTER_ROLES}
    \union {TestJob(c) : c \in Cycles} \union {ReviewJob(c) : c \in Cycles}
    \union {RepairJob(c) : c \in 0..MaxRepairs - 1}

EngineeringStatus ==
  {"NONE", "CREATED", "PLANNING", "IMPLEMENTING", "TESTING", "REVIEWING", "REPAIRING",
   "COMPLETED", "FAILED"}
Over == {"COMPLETED", "FAILED"}

Database ==
  [status : EngineeringStatus, repairs : Cycles,  \* engineering_runs
   plans : Nat,                                   \* engineering_artifacts, by stage:
   files : [Slots -> Seq(BOOLEAN)],               \* implementations and repairs: clean
   reviews : [Cycles -> Seq(BOOLEAN)],            \* reviews, in order: approve
   checks : [Cycles -> SUBSET BOOLEAN]]           \* engineering_checks: passed

ASSUME NoneAssumption == None \notin Jobs /\ None \notin Database

Init ==
  /\ db = [status |-> "NONE", repairs |-> 0, plans |-> 0, files |-> [s \in Slots |-> <<>>],
           reviews |-> [c \in Cycles |-> <<>>], checks |-> [c \in Cycles |-> {}]]
  /\ jobs = [j \in Jobs |-> NoJob]
  /\ api = "new"
  /\ LoopInit

-----------------------------------------------------------------------------
(* Reading and writing rows.                                               *)

Allowed == [from \in EngineeringStatus |->
  CASE from = "CREATED" -> {"PLANNING", "FAILED"}
    [] from = "PLANNING" -> {"IMPLEMENTING", "FAILED"}
    [] from = "IMPLEMENTING" -> {"TESTING", "FAILED"}
    [] from = "TESTING" -> {"REVIEWING", "FAILED"}
    [] from = "REVIEWING" -> {"REPAIRING", "COMPLETED", "FAILED"}
    [] from = "REPAIRING" -> {"TESTING", "FAILED"}
    [] OTHER -> {}]

AllPassed(d, c) == d.checks[c] = {TRUE}

\* What the orchestrator is told of a review.
ReviewerRules(approve, d, c) == IF approve THEN "approve" ELSE "reject"  \* mutant: no veto
Verdict(approve, d, c) == IF approve /\ AllPassed(d, c) THEN "approve" ELSE "reject"

\* list_for_stage of what the tests, the review and the repair of a cycle read.
SomeFiles(d, c) == \E r \in RolesOf(c) : d.files[<<r, c>>] # <<>>
SomeRole(d) == SomeFiles(d, 0)  \* mutant: not issubset
AllRoles(d) == \A r \in IMPLEMENTER_ROLES : d.files[<<r, 0>>] # <<>>

\* EngineeringTestRunner.run on the files of a cycle.
Clean(d, c) == \A r \in RolesOf(c) : FALSE \notin ToSet(d.files[<<r, c>>])

\* What a unit of work may have read: the run first, the rest perhaps later.
Reads(w) ==
  {view[w], [db EXCEPT !.status = view[w].status, !.repairs = view[w].repairs]}

UnitsOfWork == {"start", "calling", "store", "advance", "approve", "reject", "terminal"}

Begin(w) == BeginAt(w, {"start", "advance", "approve", "reject", "terminal"})

\* The handler goes on with what it has read.
Hold(w, where, v) ==
  /\ pc' = [pc EXCEPT ![w] = where]
  /\ view' = [view EXCEPT ![w] = v]
  /\ UNCHANGED <<db, jobs, api, job, todo, budget>>

\* update_status, on the row as it sees it.
CommitStatus(w, target, keys) ==
  \E seen \in {view[w], db} :
    IF target \in Allowed[seen.status]
      THEN Commit(w, [db EXCEPT !.status = target], ThenEnqueue(keys), keys)
      ELSE Raise(w)

-----------------------------------------------------------------------------
(* The API: create_engineering_run, and the orchestrator's start.          *)

CreateRun ==
  /\ api = "new"
  /\ api' = "committed"
  /\ db' = [db EXCEPT !.status = "CREATED"]
  /\ UNCHANGED <<jobs, workerVars, budget>>

Start ==
  /\ api = "committed"
  /\ api' = "planning"
  /\ db' = [db EXCEPT !.status = "PLANNING"]
  /\ UNCHANGED <<jobs, workerVars, budget>>

EnqueuePlan ==
  /\ api = "planning"
  /\ api' = "done"
  /\ jobs' = Enqueued(jobs, {PlanJob})
  /\ UNCHANGED <<db, workerVars, budget>>

-----------------------------------------------------------------------------
(* The handlers: what each reads first.                                    *)

StartPlan(w) ==
  /\ At(w, "start") /\ job[w].type = "PLAN"
  /\ \E v \in Reads(w) :
       IF v.status \in Over THEN Return(w, "settle", {})
       ELSE IF v.plans > 0 THEN Return(w, "advance", {})
       ELSE Hold(w, "calling", v)

NeverWritten(d, role) == FALSE  \* mutant: a retry writes again
Written(d, role) == d.files[<<role, 0>>] # <<>>

StartImplement(w) ==
  /\ At(w, "start") /\ job[w].type = "IMPLEMENT"
  /\ \E v \in Reads(w) :
       IF v.status \in Over THEN Return(w, "settle", {})
       ELSE IF Written(v, job[w].role) THEN Return(w, "advance", {})
       ELSE IF v.plans = 0 THEN Raise(w)
       ELSE Hold(w, "calling", v)

\* The checks are pure: no provider is called.
StartTest(w) ==
  /\ At(w, "start") /\ job[w].type = "TEST"
  /\ \E v \in Reads(w) :
       LET c == job[w].cycle
       IN  IF v.status \in Over THEN Return(w, "settle", {})
           ELSE IF v.checks[c] # {} THEN Return(w, "advance", {})
           ELSE IF ~SomeFiles(v, c) THEN Raise(w)
           ELSE Hold(w, "store", v)

\* A stored review is taken at its word, with the checks as they are.
StartReview(w) ==
  /\ At(w, "start") /\ job[w].type = "REVIEW"
  /\ \E v \in Reads(w) :
       LET c == job[w].cycle
       IN  IF v.status \in Over THEN Return(w, "settle", {})
           ELSE IF v.reviews[c] # <<>>
             THEN Return(w, Verdict(Last(v.reviews[c]), v, c), {})
           ELSE IF ~SomeFiles(v, c) \/ v.checks[c] = {} THEN Raise(w)
           ELSE Hold(w, "calling", v)

StartRepair(w) ==
  /\ At(w, "start") /\ job[w].type = "REPAIR"
  /\ \E v \in Reads(w) :
       LET c == job[w].cycle
       IN  IF v.status \in Over THEN Return(w, "settle", {})
           ELSE IF SomeFiles(v, c + 1) THEN Return(w, "advance", {})
           ELSE IF ~SomeFiles(v, c) \/ v.checks[c] = {} \/ v.reviews[c] = <<>> THEN Raise(w)
           ELSE Hold(w, "calling", v)

\* The provider answered and the answer parsed.
ProviderAnswers(w) ==
  /\ pc[w] = "calling"
  /\ Hold(w, "store", view[w])

-----------------------------------------------------------------------------
(* What each stores: blind inserts, whatever the run's status is by now.   *)

StorePlan(w) ==
  /\ pc[w] = "store" /\ job[w].type = "PLAN"
  /\ Commit(w, [db EXCEPT !.plans = @ + 1], "advance", {})

\* Files are clean if they pass the checks next to those that are there: no
\* path may occur twice.
StoreFiles(w) ==
  /\ pc[w] = "store" /\ job[w].type \in {"IMPLEMENT", "REPAIR"}
  /\ \E clean \in BOOLEAN :
       LET slot == IF job[w].type = "IMPLEMENT" THEN <<job[w].role, 0>>
                   ELSE <<"repair_engineer", job[w].cycle + 1>>
       IN  Commit(w, [db EXCEPT !.files[slot] = Append(@, clean)], "advance", {})

StoreChecks(w) ==
  /\ pc[w] = "store" /\ job[w].type = "TEST"
  /\ LET c == job[w].cycle
     IN  Commit(w, [db EXCEPT !.checks[c] = @ \union {Clean(view[w], c)}], "advance", {})

\* created_at is set when the insert starts, so of two concurrent reviews
\* either may come to be the last. The checks are those it has shown the model.
StoreReview(w) ==
  /\ pc[w] = "store" /\ job[w].type = "REVIEW"
  /\ \E approve \in BOOLEAN :
       LET c == job[w].cycle
       IN  \E reviews \in {Append(db.reviews[c], approve), <<approve>> \o db.reviews[c]} :
             Commit(w, [db EXCEPT !.reviews[c] = reviews],
                    Verdict(approve, view[w], c), {})

-----------------------------------------------------------------------------
(* The orchestrator's units of work.                                       *)

PlanCompleted(w) ==
  /\ At(w, "advance") /\ job[w].type = "PLAN"
  /\ LET keys == {ImplementJob(r) : r \in IMPLEMENTER_ROLES}
     IN  IF view[w].status = "PLANNING" THEN CommitStatus(w, "IMPLEMENTING", keys)
         ELSE IF view[w].status = "IMPLEMENTING" THEN Return(w, "enqueue", keys)
         ELSE Return(w, "settle", {})

\* Of two implementers that finish together, one may find the run TESTING
\* when it comes to its update, and raises.
MaybeScheduleTests(w) ==
  /\ At(w, "advance") /\ job[w].type = "IMPLEMENT"
  /\ \E v \in Reads(w) :
       IF v.status = "IMPLEMENTING" /\ AllRoles(v) THEN CommitStatus(w, "TESTING", {TestJob(0)})
       ELSE Return(w, "settle", {})

TestsCompleted(w) ==
  /\ At(w, "advance") /\ job[w].type = "TEST"
  /\ LET keys == {ReviewJob(view[w].repairs)}
     IN  IF view[w].status = "TESTING" THEN CommitStatus(w, "REVIEWING", keys)
         ELSE IF view[w].status = "REVIEWING" THEN Return(w, "enqueue", keys)
         ELSE Return(w, "settle", {})

RepairsLeftOver(d) == d.repairs <= MaxRepairs  \* mutant: one repair too many
RepairsLeft(d) == d.repairs < MaxRepairs

ReviewCompleted(w) ==
  /\ At(w, "approve") \/ At(w, "reject")
  /\ IF view[w].status # "REVIEWING" THEN Return(w, "settle", {})
     ELSE IF pc[w] = "approve" THEN CommitStatus(w, "COMPLETED", {})
     ELSE IF RepairsLeft(view[w]) THEN CommitStatus(w, "REPAIRING", {RepairJob(view[w].repairs)})
     ELSE CommitStatus(w, "FAILED", {})

SameTest(c) == TestJob(c)  \* mutant: the key of the tests that have run
NextTest(c) == TestJob(c + 1)

\* increment_repair updates the row before update_status reads it: from then on
\* the row is locked, and its status cannot be stale.
RepairCompleted(w) ==
  /\ At(w, "advance") /\ job[w].type = "REPAIR"
  /\ IF view[w].status # "REPAIRING" THEN Return(w, "settle", {})
     ELSE IF "TESTING" \notin Allowed[db.status] THEN Raise(w)
     ELSE \E seen \in {view[w], db} :
            /\ seen.repairs + 1 \in Cycles
            /\ Commit(w, [db EXCEPT !.status = "TESTING", !.repairs = seen.repairs + 1],
                      "enqueue", {NextTest(seen.repairs)})

-----------------------------------------------------------------------------
(* The loop.                                                               *)

Claim(w, j) == ClaimFor(w, j, "start")

\* In the order of IMPLEMENTER_ROLES.
EnqueueNext(w) ==
  /\ pc[w] = "enqueue"
  /\ \E j \in todo[w] :
       /\ ImplementJob("primary") \in todo[w] => j = ImplementJob("primary")
       /\ EnqueueOne(w, j)

\* handle_terminal_failure: the orchestrator's fail.
ReportFailure(w) ==
  /\ At(w, "terminal")
  /\ IF view[w].status \in Over THEN UNCHANGED db /\ Drop(w, "idle")
     ELSE \E seen \in {view[w], db} :
       IF seen.status \in Over THEN UNCHANGED db /\ Drop(w, "dead")
       ELSE db' = [db EXCEPT !.status = "FAILED"] /\ Drop(w, "idle")
  /\ UNCHANGED <<jobs, api, budget>>

Handler(w) ==
  \/ StartPlan(w) \/ StartImplement(w) \/ StartTest(w) \/ StartReview(w) \/ StartRepair(w)
  \/ ProviderAnswers(w) \/ ProviderFails(w)
  \/ StorePlan(w) \/ StoreFiles(w) \/ StoreChecks(w) \/ StoreReview(w)
  \/ PlanCompleted(w) \/ MaybeScheduleTests(w) \/ TestsCompleted(w)
  \/ ReviewCompleted(w) \/ RepairCompleted(w)

Proceed(w) ==
  Begin(w) \/ Handler(w) \/ EnqueueNext(w) \/ Settle(w) \/ Fail(w) \/ ReportFailure(w)

Next ==
  \/ CreateRun \/ Start \/ EnqueuePlan \/ CrashApi
  \/ \E w \in Workers : Proceed(w) \/ CrashWorker(w) \/ Restart(w)
  \/ \E w \in Workers, j \in Jobs : Claim(w, j)
  \/ \E j \in Jobs : Lapse(j)

Spec == Init /\ [][Next]_vars

\* As in Tournament.
Fairness ==
  /\ WF_vars(Start) /\ WF_vars(EnqueuePlan)
  /\ \A w \in Workers : WF_vars(Proceed(w)) /\ WF_vars(\E j \in Jobs : Claim(w, j))
  /\ \A j \in Jobs : WF_vars(LapseOfDead(j))

FairSpec == Spec /\ Fairness

-----------------------------------------------------------------------------
(* Properties.                                                             *)

\* Types, and the bounds the constants set on artifacts and cycles.
TypeOK ==
  /\ db \in Database
  /\ jobs \in [Jobs -> JobRow]
  /\ api \in {"new", "committed", "planning", "done", "dead"}
  /\ LoopOK(UnitsOfWork)
  /\ pc \in [Workers -> UnitsOfWork \union {"idle", "enqueue", "settle", "raised", "dead"}]
  /\ job \in [Workers -> Jobs \union {None}]

\* The reviewer cannot approve while deterministic checks fail: a run that is
\* COMPLETED has a current cycle whose checks all passed and that a reviewer
\* approved.
CompletedIsEarned ==
  db.status = "COMPLETED" =>
    AllPassed(db, db.repairs) /\ TRUE \in ToSet(db.reviews[db.repairs])

\* The checks of a cycle have seen the files of all its roles: the last
\* implementer to finish, and no other, sets off the tests.
TestedIsWhole ==
  \A c \in Cycles : db.checks[c] # {} => \A r \in RolesOf(c) : db.files[<<r, c>>] # <<>>

\* A plan, a role's files and a cycle's review are stored once, however often
\* their jobs are retried after a failure or a kill: a second set of files would
\* fail the unique_paths check. (checks is a set of outcomes: it does not count.)
StoredOnce ==
  /\ db.plans <= 1
  /\ \A s \in Slots : Len(db.files[s]) <= 1
  /\ \A c \in Cycles : Len(db.reviews[c]) <= 1

\* Workers that are in each other's way do not fail a run: where none is slow
\* or killed, a run fails because its last review rejected it, or because one
\* job used up its attempts on provider failures, but for the one attempt the
\* implementers' race for the tests may cost.
FailsOnlyForCause ==
  (db.status = "FAILED" /\ budget.lapses = 0 /\ budget.crashes = 0) =>
    \/ budget.raises >= MaxAttempts - 1
    \/ /\ db.repairs = MaxRepairs /\ db.reviews[MaxRepairs] # <<>>
       /\ ~(Last(db.reviews[MaxRepairs]) /\ AllPassed(db, MaxRepairs))

\* A run is left without a job before it is over only by a kill: of the API
\* before its first enqueue, of a worker before it reported a job that failed
\* for good, or of a worker that has moved the run and is to enqueue a test or a
\* repair (implementers and reviews are enqueued by a retry). Or by the second
\* implementer, whose late update sets the run from REVIEWING back to TESTING:
\* then the review of its cycle has come to nothing.
StrandedForCause ==
  (Quiet /\ api \in {"done", "dead"} /\ db.status \notin Over) =>
    \/ api = "dead"
    \/ budget.crashes > 0 /\ \E j \in Jobs : jobs[j].status = "failed"
    \/ \E j \in budget.lost : j.type \in {"TEST", "REPAIR"} /\ jobs[j].status = "absent"
    \/ db.status \in {"TESTING", "REVIEWING"} /\ jobs[ReviewJob(db.repairs)].status = "done"

\* A run whose first job was enqueued ends.
EngineeringEnds == (api = "done") ~> (db.status \in Over)

\* The run keeps what EngineeringWorkflow promises.
Workflow == INSTANCE EngineeringWorkflow
              WITH stage <- db.status, cycle <- db.repairs,
                   passed <- {c \in Cycles : AllPassed(db, c)},
                   approved <- {c \in Cycles : TRUE \in ToSet(db.reviews[c])}

ImplementsWorkflow == Workflow!Spec

=============================================================================
