------------------------------ MODULE JobQueue ------------------------------
(***************************************************************************)
(* The durable job queue (packages/persistence/jobs.py) and the worker     *)
(* loop that drains it (services/worker/worker/runtime.py).                *)
(*                                                                         *)
(* Every queue operation is one PostgreSQL transaction on the jobs table,  *)
(* with row locks where it reads before it writes, so each is one action.  *)
(* What is not atomic is the worker: it claims a job, runs a handler for   *)
(* as long as a model provider takes, and only then settles the claim.     *)
(* In between other workers poll, leases run out and processes die.        *)
(*                                                                         *)
(* Time is kept relative to the present: due is available_at - now and     *)
(* lease is lease_expires_at - now, both counted down by Tick and          *)
(* saturated (Horizon, Lag) where the code can no longer tell values       *)
(* apart, so time is unbounded and the state space is finite.              *)
(***************************************************************************)
EXTENDS Integers

CONSTANTS
  Keys,         \* idempotency keys of the jobs
  Processes,    \* worker processes
  WorkerIds,    \* values of the setting worker_id
  WorkerId,     \* the worker_id each process runs with
  None,         \* SQL NULL / no job
  MaxAttempts,  \* max_attempts of every job
  Lease,        \* lease_seconds, in ticks
  BaseDelay,    \* base_seconds of retry_delay_seconds, in ticks
  MaxDelay,     \* max_seconds of retry_delay_seconds, in ticks
  Lag,          \* ticks that may pass between reading the clock and the commit
  Horizon,      \* a job overdue for longer than this is as overdue as it gets
  MaxCrashes,   \* bound: how many worker processes may be killed
  Heartbeats,   \* TRUE: processes call heartbeat (the shipped worker does not)
  Prompt        \* TRUE: handlers always return before their lease can run out

ASSUME QueueAssumption ==
  /\ MaxAttempts \in Nat \ {0}
  /\ Lag \in Nat
  /\ Lease \in Nat /\ Lease > Lag
  /\ BaseDelay \in Nat /\ MaxDelay \in Nat
  /\ Horizon \in Nat /\ Horizon >= Lag
  /\ MaxCrashes \in Nat
  /\ Heartbeats \in BOOLEAN /\ Prompt \in BOOLEAN
  /\ WorkerId \in [Processes -> WorkerIds]
  /\ None \notin WorkerIds /\ None \notin Keys

VARIABLES
  jobs,      \* the jobs table: status, attempt, due, owner (claimed_by), lease
  pc,        \* "idle", "handling", "terminal" (about to report), "dead"
  held,      \* the key of the Job object a process works on
  try,       \* the attempt recorded in that Job object
  age,       \* history: ticks since the claim, saturated at Lease + 1
  reported,  \* keys handler.handle_terminal_failure was called for
  refused,   \* history: a call of handle_terminal_failure has raised
  crashes    \* kills so far, at most MaxCrashes

workerVars == <<pc, held, try, age>>
vars == <<jobs, pc, held, try, age, reported, refused, crashes>>

Status == {"ABSENT", "PENDING", "RUNNING", "RETRY", "COMPLETED", "FAILED"}
Waiting == {"PENDING", "RETRY"}
Terminal == {"COMPLETED", "FAILED"}
Row == [status : Status, attempt : 0..MaxAttempts, due : Int,
        owner : WorkerIds \union {None}, lease : -Lag-1..Lease]
Alive(p) == pc[p] # "dead"
Smaller(a, b) == IF a <= b THEN a ELSE b
Larger(a, b) == IF a >= b THEN a ELSE b

NoRow == [status |-> "ABSENT", attempt |-> 0, due |-> 0, owner |-> None, lease |-> 0]

Init ==
  /\ jobs = [k \in Keys |-> NoRow]
  /\ pc = [p \in Processes |-> "idle"]
  /\ held = [p \in Processes |-> None]
  /\ try = [p \in Processes |-> 0]
  /\ age = [p \in Processes |-> 0]
  /\ reported = {}
  /\ refused = FALSE
  /\ crashes = 0

-----------------------------------------------------------------------------
(* The queue's operations on a row.                                        *)

RetryDelay(attempt) ==
  IF attempt <= 0 THEN 0 ELSE Smaller(BaseDelay * 2^(attempt - 1), MaxDelay)

\* A row no process has a claim on: claimed_at, lease_expires_at, claimed_by NULL.
Released(row, status, due) ==
  [status |-> status, attempt |-> row.attempt, due |-> due, owner |-> None, lease |-> 0]

\* The expiry test of both UPDATEs of _requeue_expired_leases, at now - lag.
ExpiredEarly(row, lag) == row.status = "RUNNING" /\ row.lease <= -lag  \* mutant
Expired(row, lag) == row.status = "RUNNING" /\ row.lease < -lag

RequeueForever(row, lag) == Released(row, "RETRY", -lag)  \* mutant: attempts are not counted
RequeueRow(row, lag) ==
  IF row.attempt >= MaxAttempts THEN Released(row, "FAILED", 0) ELSE Released(row, "RETRY", -lag)

RequeueExpired(lag) ==
  [k \in Keys |-> IF Expired(jobs[k], lag) THEN RequeueRow(jobs[k], lag) ELSE jobs[k]]

ClaimableOnce(rows, lag) ==  \* mutant: RETRY is not polled for
  {k \in Keys : rows[k].status = "PENDING" /\ rows[k].due <= -lag}
Claimable(rows, lag) == {k \in Keys : rows[k].status \in Waiting /\ rows[k].due <= -lag}

\* ORDER BY available_at. Ticks are coarse, so created_at and id may break a
\* tie of due either way.
FirstDue(rows, lag) ==
  {k \in Claimable(rows, lag) : \A other \in Claimable(rows, lag) : rows[k].due <= rows[other].due}

ClaimAnonymously(row, worker, lag) ==  \* mutant: claimed_by is not written
  [status |-> "RUNNING", attempt |-> row.attempt + 1, due |-> 0,
   owner |-> None, lease |-> Lease - lag]
ClaimUncounted(row, worker, lag) ==  \* mutant: the attempt is not counted
  [status |-> "RUNNING", attempt |-> row.attempt, due |-> 0,
   owner |-> worker, lease |-> Lease - lag]
ClaimRow(row, worker, lag) ==
  [status |-> "RUNNING", attempt |-> row.attempt + 1, due |-> 0,
   owner |-> worker, lease |-> Lease - lag]

FailRow(row, lag) ==
  IF row.attempt >= MaxAttempts THEN Released(row, "FAILED", 0)
  ELSE Released(row, "RETRY", RetryDelay(row.attempt) - lag)

\* A tick of the clock, as the row's two dates see it.
AgeRow(row) ==
  [status |-> row.status, attempt |-> row.attempt, owner |-> row.owner,
   due |-> IF row.status \in Waiting THEN Larger(row.due - 1, -Horizon) ELSE row.due,
   lease |-> IF row.status = "RUNNING" THEN Larger(row.lease - 1, -Lag - 1) ELSE row.lease]

\* The WHERE clause of complete and heartbeat and the checks of fail.
OwnsIfRunning(p, k) == jobs[k].status = "RUNNING"  \* mutant: no fencing by worker id
Owns(p, k) == jobs[k].status = "RUNNING" /\ jobs[k].owner = WorkerId[p]

\* The process loop forgets its job, alive or not.
Leave(p, where) ==
  /\ pc' = [pc EXCEPT ![p] = where]
  /\ held' = [held EXCEPT ![p] = None]
  /\ try' = [try EXCEPT ![p] = 0]
  /\ age' = [age EXCEPT ![p] = 0]

-----------------------------------------------------------------------------
(* Actions.                                                                *)

\* Any service enqueues under a key: the first insert wins, later ones are
\* ON CONFLICT DO NOTHING. No caller passes available_at.
Enqueue(k, lag) ==
  /\ jobs[k].status = "ABSENT"
  /\ jobs' = [jobs EXCEPT ![k] = Released(NoRow, "PENDING", -lag)]
  /\ UNCHANGED <<workerVars, reported, refused, crashes>>

\* claim_next finds a job: expired leases are requeued in the same transaction.
Claim(p, lag) ==
  /\ pc[p] = "idle"
  /\ \E k \in FirstDue(RequeueExpired(lag), lag) :
       /\ jobs' = [RequeueExpired(lag) EXCEPT ![k] = ClaimRow(@, WorkerId[p], lag)]
       /\ held' = [held EXCEPT ![p] = k]
       /\ try' = [try EXCEPT ![p] = RequeueExpired(lag)[k].attempt + 1]
  /\ pc' = [pc EXCEPT ![p] = "handling"]
  /\ age' = [age EXCEPT ![p] = 0]
  /\ UNCHANGED <<reported, refused, crashes>>

\* claim_next finds nothing: the requeue commits all the same.
Poll(p, lag) ==
  /\ pc[p] = "idle"
  /\ Claimable(RequeueExpired(lag), lag) = {}
  /\ jobs' = RequeueExpired(lag)
  /\ UNCHANGED <<workerVars, reported, refused, crashes>>

Heartbeat(p, lag) ==
  /\ Heartbeats
  /\ pc[p] = "handling"
  /\ Owns(p, held[p])
  /\ jobs' = [jobs EXCEPT ![held[p]].lease = Lease - lag]
  /\ UNCHANGED <<workerVars, reported, refused, crashes>>

\* The handler returned and complete updated the row.
Complete(p) ==
  /\ pc[p] = "handling"
  /\ Owns(p, held[p])
  /\ jobs' = [jobs EXCEPT ![held[p]] = Released(@, "COMPLETED", 0)]
  /\ Leave(p, "idle")
  /\ UNCHANGED <<reported, refused, crashes>>

\* The handler raised: fail requeues the job, or ends it after the last attempt.
Fail(p, lag) ==
  /\ pc[p] = "handling"
  /\ Owns(p, held[p])
  /\ jobs' = [jobs EXCEPT ![held[p]] = FailRow(@, lag)]
  /\ IF jobs[held[p]].attempt >= MaxAttempts
       THEN pc' = [pc EXCEPT ![p] = "terminal"] /\ UNCHANGED <<held, try, age>>
       ELSE Leave(p, "idle")
  /\ UNCHANGED <<reported, refused, crashes>>

\* complete returned FALSE or fail raised: run_once raises, run_worker does
\* not catch it, the process ends.
LoseClaim(p) ==
  /\ pc[p] = "handling"
  /\ ~Owns(p, held[p])
  /\ Leave(p, "dead")
  /\ UNCHANGED <<jobs, reported, refused, crashes>>

\* handle_terminal_failure, after fail said FAILED: it fails the job's run. It
\* raises where the run has moved on since it was read (Tournament and
\* Engineering say when); nothing catches that, and the process ends.
ReportFailure(p) ==
  /\ pc[p] = "terminal"
  /\ reported' = reported \union {held[p]}
  /\ \/ Leave(p, "idle") /\ UNCHANGED refused
     \/ Leave(p, "dead") /\ refused' = TRUE
  /\ UNCHANGED <<jobs, crashes>>

\* The process is killed, between any two transactions.
Crash(p) ==
  /\ Alive(p)
  /\ crashes < MaxCrashes
  /\ crashes' = crashes + 1
  /\ Leave(p, "dead")
  /\ UNCHANGED <<jobs, reported, refused>>

\* Someone starts the worker again, with the same settings.
Restart(p) ==
  /\ pc[p] = "dead"
  /\ Leave(p, "idle")
  /\ UNCHANGED <<jobs, reported, refused, crashes>>

\* A tick passes. If handlers are prompt it does not take one to the end of
\* its lease.
Tick ==
  /\ Prompt => \A p \in Processes : pc[p] = "handling" => age[p] < Lease - Lag
  /\ jobs' = [k \in Keys |-> AgeRow(jobs[k])]
  /\ age' = [p \in Processes |->
       IF pc[p] = "handling" THEN Smaller(age[p] + 1, Lease + 1) ELSE age[p]]
  /\ UNCHANGED <<pc, held, try, reported, refused, crashes>>

Lags == 0..Lag

Next ==
  \/ \E k \in Keys, lag \in Lags : Enqueue(k, lag)
  \/ \E p \in Processes, lag \in Lags :
       Claim(p, lag) \/ Poll(p, lag) \/ Heartbeat(p, lag) \/ Fail(p, lag)
  \/ \E p \in Processes :
       Complete(p) \/ LoseClaim(p) \/ ReportFailure(p) \/ Crash(p) \/ Restart(p)
  \/ Tick

Spec == Init /\ [][Next]_vars

\* run_worker polls for ever, a handler returns or raises (every provider call
\* has a timeout), and time passes. Nobody is obliged to enqueue, to kill or to
\* restart a process (docker-compose.yml sets no restart policy).
Fairness ==
  /\ WF_vars(Tick)
  /\ \A p \in Processes :
       /\ WF_vars(\E lag \in Lags : Claim(p, lag) \/ Poll(p, lag))
       /\ WF_vars(Complete(p) \/ LoseClaim(p) \/ \E lag \in Lags : Fail(p, lag))
       /\ WF_vars(ReportFailure(p))

FairSpec == Spec /\ Fairness

-----------------------------------------------------------------------------
(* Properties.                                                             *)

TypeOK ==
  /\ jobs \in [Keys -> Row]
  /\ pc \in [Processes -> {"idle", "handling", "terminal", "dead"}]
  /\ held \in [Processes -> Keys \union {None}]
  /\ try \in [Processes -> 0..MaxAttempts]
  /\ age \in [Processes -> 0..Lease + 1]
  /\ reported \subseteq Keys
  /\ refused \in BOOLEAN
  /\ crashes \in 0..MaxCrashes

\* A process that complete or fail would let settle a job holds that job's
\* latest claim: no worker settles the claim of another.
SettlesOwnClaim ==
  \A p \in Processes :
    pc[p] = "handling" /\ Owns(p, held[p]) => try[p] = jobs[held[p]].attempt

\* A worker whose handler takes no longer than the lease (less the lag between
\* clock and commit) never finds its claim gone, whoever else polls.
PromptWorkerKeepsClaim ==
  \A p \in Processes :
    pc[p] = "handling" /\ age[p] <= Lease - Lag => Owns(p, held[p])

\* Workers die of claims they lost, but never all of them: as long as nobody
\* kills one and no terminal failure is refused, some worker lives, and it will
\* not die of the job it is on now. A refused one ends the worker that holds a
\* claim after the one that lost it.
SomeWorkerSurvives ==
  (crashes = 0 /\ ~refused) =>
    \E p \in Processes : Alive(p) /\ (pc[p] = "handling" => Owns(p, held[p]))

\* The queue gives a job up only when all its attempts were made.
FailedOnlyWhenExhausted ==
  \A k \in Keys : jobs[k].status = "FAILED" => jobs[k].attempt = MaxAttempts

\* Whoever waits for the job's run hears of its failure: a FAILED job has been
\* passed to handle_terminal_failure, or a process is about to do it.
FailureReported ==
  \A k \in Keys : jobs[k].status = "FAILED" =>
    k \in reported \/ \E p \in Processes : pc[p] = "terminal" /\ held[p] = k

\* A settled job stays as it is: not claimed, not retried, not enqueued again.
TerminalIsFinal ==
  [][\A k \in Keys : jobs[k].status \in Terminal => jobs'[k] = jobs[k]]_vars

\* Every enqueued job ends, whatever handlers raise and however slow they are,
\* if no worker is killed and no terminal failure refused.
EveryJobEnds ==
  [](crashes = 0 /\ ~refused) =>
    \A k \in Keys : jobs[k].status = "PENDING" ~> jobs[k].status \in Terminal

\* The queue keeps what JobLifecycle promises.
Phase(status) ==
  CASE status = "ABSENT" -> "absent"
    [] status \in Waiting -> "queued"
    [] status = "RUNNING" -> "running"
    [] status = "COMPLETED" -> "done"
    [] status = "FAILED" -> "failed"

Lifecycle == INSTANCE JobLifecycle
               WITH phase <- [k \in Keys |-> Phase(jobs[k].status)],
                    tries <- [k \in Keys |-> jobs[k].attempt]

ImplementsLifecycle == Lifecycle!Spec

=============================================================================
