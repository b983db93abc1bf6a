----------------------------- MODULE WorkerLoop -----------------------------
(***************************************************************************)
(* The worker processes around the handlers: run_once                      *)
(* (services/worker/worker/runtime.py), the queue as it looks to them, and *)
(* the units of work (`with self.uow_factory() as uow`) handlers are made  *)
(* of. Tournament and Engineering extend it with a database, handlers and  *)
(* orchestrators.                                                          *)
(*                                                                         *)
(* Grain. A unit of work is two steps: BeginAt reads the database into     *)
(* view[w], and the action named after the method decides on what it read  *)
(* and commits. PostgreSQL runs it READ COMMITTED and no row is locked, so *)
(* other units of work commit in between. Between units of work come the   *)
(* call of a model provider, the enqueues (each a transaction of the       *)
(* queue) and the settling of the job; a worker can be killed before any   *)
(* of these steps.                                                         *)
(*                                                                         *)
(* The queue appears without its clock, as JobQueue implements it: a       *)
(* waiting job may be claimed, and a lease may run out. Workers have       *)
(* distinct worker ids, so a lost claim is noticed.                        *)
(***************************************************************************)
EXTENDS Integers

CONSTANTS
  Workers,              \* worker processes
  None,
  MaxAttempts,          \* max_attempts of every job
  MaxRaises,            \* bound: provider calls that fail
  MaxLapses,            \* bound: leases that run out on a live worker
  MaxCrashes,           \* bound: processes killed, workers and the API
  Together              \* bound: whether one behaviour may have several kinds of these

ASSUME LoopAssumption ==
  /\ MaxAttempts \in Nat \ {0}
  /\ MaxRaises \in Nat /\ MaxLapses \in Nat /\ MaxCrashes \in Nat
  /\ None \notin Workers /\ Together \in BOOLEAN

VARIABLES
  db,       \* the rows of the run
  jobs,     \* the jobs table
  api,      \* the API process on the run's creation
  pc,       \* where each worker is
  job,      \* the job it holds, or None
  view,     \* what its open unit of work has read, or None
  todo,     \* the jobs it will enqueue next
  budget    \* raises, lapses and crashes so far, and the jobs that crashes
            \* kept from being enqueued

workerVars == <<pc, job, view, todo>>
vars == <<db, jobs, api, pc, job, view, todo, budget>>

\* The bounds: a rare event of this kind may still happen.
May(kind, max) ==
  /\ budget[kind] < max
  /\ Together \/ \A other \in {"raises", "lapses", "crashes"} \ {kind} : budget[other] = 0

NoJob == [status |-> "absent", attempt |-> 0, owner |-> None]
JobRow == [status : {"absent", "queued", "running", "done", "failed"},
           attempt : 0..MaxAttempts, owner : Workers \union {None}]

LoopInit ==
  /\ pc = [w \in Workers |-> "idle"]
  /\ job = [w \in Workers |-> None]
  /\ view = [w \in Workers |-> None]
  /\ todo = [w \in Workers |-> {}]
  /\ budget = [raises |-> 0, lapses |-> 0, crashes |-> 0, lost |-> {}]

-----------------------------------------------------------------------------
(* Steps around a unit of work.                                            *)

Goto(w, where, keys) ==
  /\ pc' = [pc EXCEPT ![w] = where]
  /\ view' = [view EXCEPT ![w] = None]
  /\ todo' = [todo EXCEPT ![w] = keys]

Drop(w, where) == Goto(w, where, {}) /\ job' = [job EXCEPT ![w] = None]

At(w, unit) == pc[w] = unit /\ view[w] # None

BeginAt(w, units) ==
  /\ pc[w] \in units
  /\ view[w] = None
  /\ view' = [view EXCEPT ![w] = db]
  /\ UNCHANGED <<db, jobs, api, pc, job, todo, budget>>

\* After the commit the jobs of the next stage are enqueued, one by one.
ThenEnqueue(keys) == IF keys = {} THEN "settle" ELSE "enqueue"

\* The unit of work leaves the database as it is and the handler goes on.
Return(w, where, keys) ==
  Goto(w, where, keys) /\ UNCHANGED <<db, jobs, api, job, budget>>

Commit(w, new, where, keys) ==
  db' = new /\ Goto(w, where, keys) /\ UNCHANGED <<jobs, api, job, budget>>

\* The unit of work raises and rolls back, and the handler with it.
Raise(w) == Return(w, "raised", {})

\* The provider answered and the answer parsed, or not, or not in the structure
\* asked for: then the handler records the failed call and raises.
ProviderFails(w) ==
  /\ pc[w] = "calling"
  /\ May("raises", MaxRaises)
  /\ budget' = [budget EXCEPT !.raises = @ + 1]
  /\ Goto(w, "raised", {})
  /\ UNCHANGED <<db, jobs, api, job>>

-----------------------------------------------------------------------------
(* The queue and the loop (see JobQueue).                                  *)

EnqueuedAgain(table, keys) ==  \* mutant: an upsert instead of ON CONFLICT DO NOTHING
  [j \in DOMAIN table |-> IF j \in keys /\ table[j].status # "running"
                            THEN [table[j] EXCEPT !.status = "queued"] ELSE table[j]]
Enqueued(table, keys) ==
  [j \in DOMAIN table |-> IF j \in keys /\ table[j].status = "absent"
                            THEN [table[j] EXCEPT !.status = "queued"] ELSE table[j]]

\* A handler starts with the unit of work `unit`.
ClaimFor(w, j, unit) ==
  /\ pc[w] = "idle"
  /\ jobs[j].status = "queued"
  /\ jobs' = [jobs EXCEPT ![j] = [status |-> "running", attempt |-> @.attempt + 1, owner |-> w]]
  /\ pc' = [pc EXCEPT ![w] = unit]
  /\ job' = [job EXCEPT ![w] = j]
  /\ UNCHANGED <<db, api, view, todo, budget>>

\* One transaction per job.
EnqueueOne(w, j) ==
  /\ pc[w] = "enqueue"
  /\ jobs' = Enqueued(jobs, {j})
  /\ Goto(w, IF todo[w] = {j} THEN "settle" ELSE "enqueue", todo[w] \ {j})
  /\ UNCHANGED <<db, api, job, budget>>

Owns(w) == jobs[job[w]].status = "running" /\ jobs[job[w]].owner = w
ExhaustedEarly(j) == jobs[j].attempt >= MaxAttempts - 1  \* mutant
ExhaustedLate(j) == jobs[j].attempt > MaxAttempts        \* mutant
Exhausted(j) == jobs[j].attempt >= MaxAttempts
ReleasedByName(j, status) == [jobs EXCEPT ![j] = [@ EXCEPT !.status = status]]  \* mutant
Released(j, status) == [jobs EXCEPT ![j] = [@ EXCEPT !.status = status, !.owner = None]]

\* The handler returned. A claim that was lost ends the process.
Settle(w) ==
  /\ pc[w] = "settle"
  /\ IF Owns(w) THEN jobs' = Released(job[w], "done") /\ Drop(w, "idle")
     ELSE UNCHANGED jobs /\ Drop(w, "dead")
  /\ UNCHANGED <<db, api, budget>>

\* The handler raised.
Fail(w) ==
  /\ pc[w] = "raised"
  /\ IF ~Owns(w) THEN UNCHANGED jobs /\ Drop(w, "dead")
     ELSE IF Exhausted(job[w])
       THEN jobs' = Released(job[w], "failed") /\ Goto(w, "terminal", {}) /\ UNCHANGED job
     ELSE jobs' = Released(job[w], "queued") /\ Drop(w, "idle")
  /\ UNCHANGED <<db, api, budget>>

\* A lease ran out, and the next worker to poll takes the job from its owner,
\* dead or only slow. After the last attempt nobody reports the failure.
Lapse(j) ==
  LET slow == jobs[j].owner # None /\ job[jobs[j].owner] = j
  IN  /\ jobs[j].status = "running"
      /\ \E w \in Workers : pc[w] = "idle"
      /\ slow => May("lapses", MaxLapses)
      /\ budget' = [budget EXCEPT !.lapses = @ + (IF slow THEN 1 ELSE 0)]
      /\ jobs' = Released(j, IF Exhausted(j) THEN "failed" ELSE "queued")
      /\ UNCHANGED <<db, api, workerVars>>

CrashWorker(w) ==
  /\ pc[w] # "dead"
  /\ May("crashes", MaxCrashes)
  /\ budget' = [budget EXCEPT !.crashes = @ + 1, !.lost = @ \union todo[w]]
  /\ Drop(w, "dead")
  /\ UNCHANGED <<db, jobs, api>>

Restart(w) ==
  /\ pc[w] = "dead"
  /\ Drop(w, "idle")
  /\ UNCHANGED <<db, jobs, api, budget>>

\* The API process is killed after it committed the run and before it has
\* enqueued its first job.
CrashApi ==
  /\ api \notin {"new", "done", "dead"}
  /\ May("crashes", MaxCrashes)
  /\ budget' = [budget EXCEPT !.crashes = @ + 1]
  /\ api' = "dead"
  /\ UNCHANGED <<db, jobs, workerVars>>

\* Fairness: a worker gets on with its job (providers answer or time out), an
\* idle one polls, and so finds the lease of a dead one's job run out. Nobody
\* has to be slow or to die, and nobody has to start a dead worker again.
LapseOfDead(j) == Lapse(j) /\ budget'.lapses = budget.lapses

\* No job is under way or waiting: without a new one nothing will happen.
Quiet ==
  /\ \A j \in DOMAIN jobs : jobs[j].status \notin {"queued", "running"}
  /\ \A w \in Workers : pc[w] \in {"idle", "dead"}

\* What holds of workers and jobs whatever the handlers do: an idle or a dead
\* worker has no job, only one that enqueues has jobs to enqueue, only an open
\* unit of work has a view, and a running job has an owner.
LoopOK(units) ==
  /\ \A w \in Workers :
       /\ pc[w] \in {"idle", "dead"} <=> job[w] = None
       /\ pc[w] = "enqueue" <=> todo[w] # {}
       /\ view[w] # None => pc[w] \in units
  /\ \A j \in DOMAIN jobs : jobs[j].status = "running" <=> jobs[j].owner # None

=============================================================================
