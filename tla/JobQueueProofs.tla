--------------------------- MODULE JobQueueProofs ---------------------------
(***************************************************************************)
(* Proofs about JobQueue for every number of keys, processes and attempts, *)
(* every lease, delay, lag and bound.                                      *)
(***************************************************************************)
EXTENDS JobQueue, TLAPS

-----------------------------------------------------------------------------
(* Rows: what each queue operation makes of one row of the jobs table.     *)

\* The part of the invariant that speaks of a single row: a waiting job has an
\* attempt left, a failed one none, a running one an owner; no row, no attempts.
RowInv(row) ==
  /\ row.status \in Waiting => row.attempt < MaxAttempts
  /\ row.status = "FAILED" => row.attempt = MaxAttempts
  /\ row.status = "RUNNING" => row.owner \in WorkerIds
  /\ row.status = "ABSENT" => row.attempt = 0

GoodRow(row) == row \in Row /\ RowInv(row)

\* The retry delay is a number of ticks.
LEMMA RetryDelayType ==
  ASSUME NEW attempt \in 0..MaxAttempts PROVE RetryDelay(attempt) \in Int
<1>1. MaxDelay \in Int BY QueueAssumption
<1>2. CASE attempt <= 0 BY <1>2 DEF RetryDelay
<1>3. CASE attempt > 0
  <2>1. 2^(attempt - 1) \in Int BY <1>3, QueueAssumption
  <2>2. BaseDelay * 2^(attempt - 1) \in Int BY <2>1, QueueAssumption
  <2> QED BY <1>1, <2>2, <1>3 DEF RetryDelay, Smaller
<1> QED BY <1>2, <1>3, QueueAssumption

LEMMA NoRowIsGood == GoodRow(NoRow)
BY QueueAssumption DEF GoodRow, Row, RowInv, NoRow, Status, Waiting

\* A row inserted by enqueue.
LEMMA EnqueuedRowIsGood ==
  ASSUME NEW lag \in Lags PROVE GoodRow(Released(NoRow, "PENDING", -lag))
BY QueueAssumption DEF GoodRow, Row, RowInv, NoRow, Released, Status, Waiting, Lags

\* A row whose claim ends with attempts left, or without.
LEMMA RetriedRowIsGood ==
  ASSUME NEW row, GoodRow(row), row.attempt < MaxAttempts, NEW due \in Int
  PROVE GoodRow(Released(row, "RETRY", due))
BY QueueAssumption DEF GoodRow, Row, RowInv, Released, Status, Waiting

LEMMA ExhaustedRowIsGood ==
  ASSUME NEW row, GoodRow(row), row.attempt >= MaxAttempts
  PROVE GoodRow(Released(row, "FAILED", 0))
BY QueueAssumption DEF GoodRow, Row, RowInv, Released, Status, Waiting

\* A row whose lease ran out.
LEMMA RequeuedRowIsGood ==
  ASSUME NEW row, GoodRow(row), NEW lag \in Lags
  PROVE /\ GoodRow(RequeueRow(row, lag))
        /\ RequeueRow(row, lag).status \in {"RETRY", "FAILED"}
<1>1. row.attempt < MaxAttempts <=> ~(row.attempt >= MaxAttempts)
    BY QueueAssumption DEF GoodRow, Row
<1>2. -lag \in Int BY QueueAssumption DEF Lags
<1>3. GoodRow(RequeueRow(row, lag)) BY <1>1, <1>2, RetriedRowIsGood, ExhaustedRowIsGood DEF RequeueRow
<1> QED BY <1>3 DEF RequeueRow, Released

\* A waiting row that a worker claims.
LEMMA ClaimedRowIsGood ==
  ASSUME NEW row, GoodRow(row), row.status \in Waiting, NEW worker \in WorkerIds, NEW lag \in Lags
  PROVE GoodRow(ClaimRow(row, worker, lag))
BY QueueAssumption DEF GoodRow, Row, RowInv, ClaimRow, Status, Waiting, Lags

\* A running row whose handler raised.
LEMMA FailedRowIsGood ==
  ASSUME NEW row, GoodRow(row), NEW lag \in Lags
  PROVE /\ GoodRow(FailRow(row, lag))
        /\ FailRow(row, lag).status \in {"RETRY", "FAILED"}
<1>1. row.attempt \in 0..MaxAttempts BY DEF GoodRow, Row
<1>2. RetryDelay(row.attempt) - lag \in Int BY <1>1, RetryDelayType, QueueAssumption DEF Lags
<1>3. row.attempt < MaxAttempts <=> ~(row.attempt >= MaxAttempts) BY <1>1, QueueAssumption
<1>4. GoodRow(FailRow(row, lag)) BY <1>2, <1>3, RetriedRowIsGood, ExhaustedRowIsGood DEF FailRow
<1> QED BY <1>4 DEF FailRow, Released

LEMMA CompletedRowIsGood ==
  ASSUME NEW row, GoodRow(row)
  PROVE GoodRow(Released(row, "COMPLETED", 0))
BY QueueAssumption DEF GoodRow, Row, RowInv, Released, Status, Waiting

\* A row after a tick.
LEMMA AgedRowIsGood ==
  ASSUME NEW row, GoodRow(row) PROVE GoodRow(AgeRow(row))
<1>1. row \in Row BY DEF GoodRow
<1>2. AgeRow(row).due \in Int BY <1>1, QueueAssumption DEF AgeRow, Row, Larger
<1>3. AgeRow(row).lease \in -Lag-1..Lease BY <1>1, QueueAssumption DEF AgeRow, Row, Larger
<1>4. AgeRow(row) \in Row BY <1>1, <1>2, <1>3 DEF AgeRow, Row
<1> QED BY <1>4 DEF AgeRow, GoodRow, RowInv

\* The table after the requeue at the head of claim_next.
LEMMA RequeuedTable ==
  ASSUME NEW lag \in Lags, jobs \in [Keys -> Row], \A k \in Keys : GoodRow(jobs[k])
  PROVE /\ RequeueExpired(lag) \in [Keys -> Row]
        /\ \A k \in Keys : GoodRow(RequeueExpired(lag)[k])
<1>1. ASSUME NEW k \in Keys PROVE GoodRow(RequeueExpired(lag)[k])
  <2>1. CASE Expired(jobs[k], lag) BY <2>1, RequeuedRowIsGood DEF RequeueExpired
  <2>2. CASE ~Expired(jobs[k], lag) BY <2>2 DEF RequeueExpired
  <2> QED BY <2>1, <2>2
<1> QED BY <1>1 DEF RequeueExpired, GoodRow

-----------------------------------------------------------------------------
(* Type correctness, and with it that attempts stay within their budget.   *)

HoldsKey == \A p \in Processes : pc[p] \in {"handling", "terminal"} => held[p] \in Keys

QueueInv ==
  /\ TypeOK
  /\ \A k \in Keys : GoodRow(jobs[k])
  /\ HoldsKey

LEMMA InitQueueInv == Init => QueueInv
<1> SUFFICES ASSUME Init PROVE QueueInv OBVIOUS
<1>r. NoRow \in Row BY NoRowIsGood DEF GoodRow
<1>a. jobs \in [Keys -> Row] BY <1>r DEF Init
<1>b. try \in [Processes -> 0..MaxAttempts] /\ age \in [Processes -> 0..Lease + 1]
    BY QueueAssumption DEF Init
<1>c. crashes \in 0..MaxCrashes BY QueueAssumption DEF Init
<1>1. TypeOK BY <1>a, <1>b, <1>c DEF Init, TypeOK
<1>2. (\A k \in Keys : GoodRow(jobs[k])) /\ HoldsKey BY NoRowIsGood DEF Init, HoldsKey
<1> QED BY <1>1, <1>2 DEF QueueInv

LEMMA NextQueueInv == QueueInv /\ [Next]_vars => QueueInv'
<1> SUFFICES ASSUME QueueInv, [Next]_vars PROVE QueueInv'
    OBVIOUS
<1> USE QueueAssumption DEF QueueInv
<1>t. /\ jobs \in [Keys -> Row]
      /\ \A k \in Keys : GoodRow(jobs[k])
      /\ \A p \in Processes : WorkerId[p] \in WorkerIds
    BY DEF TypeOK
<1>1. ASSUME NEW k \in Keys, NEW lag \in Lags, Enqueue(k, lag) PROVE QueueInv'
  <2>1. GoodRow(Released(NoRow, "PENDING", -lag)) BY EnqueuedRowIsGood
  <2>2. \A j \in Keys : GoodRow(jobs'[j]) BY <1>1, <1>t, <2>1 DEF Enqueue
  <2>3. jobs' \in [Keys -> Row] BY <1>1, <1>t, <2>1 DEF Enqueue, GoodRow
  <2> QED BY <1>1, <2>2, <2>3 DEF Enqueue, TypeOK, HoldsKey, workerVars
<1>2. ASSUME NEW p \in Processes, NEW lag \in Lags, Claim(p, lag) PROVE QueueInv'
  <2>1. PICK k \in FirstDue(RequeueExpired(lag), lag) :
          /\ jobs' = [RequeueExpired(lag) EXCEPT ![k] = ClaimRow(@, WorkerId[p], lag)]
          /\ held' = [held EXCEPT ![p] = k]
          /\ try' = [try EXCEPT ![p] = RequeueExpired(lag)[k].attempt + 1]
      BY <1>2 DEF Claim
  <2>2. k \in Keys /\ RequeueExpired(lag)[k].status \in Waiting
      BY DEF FirstDue, Claimable
  <2>3. /\ RequeueExpired(lag) \in [Keys -> Row]
        /\ \A j \in Keys : GoodRow(RequeueExpired(lag)[j])
      BY <1>t, RequeuedTable
  <2>4. GoodRow(ClaimRow(RequeueExpired(lag)[k], WorkerId[p], lag))
      BY <2>2, <2>3, <1>t, ClaimedRowIsGood
  <2>5. \A j \in Keys : GoodRow(jobs'[j]) BY <2>1, <2>3, <2>4
  <2>6. jobs' \in [Keys -> Row] BY <2>1, <2>3, <2>4 DEF GoodRow
  <2>7. try' \in [Processes -> 0..MaxAttempts]
      BY <2>1, <2>2, <2>3 DEF TypeOK, GoodRow, RowInv, Row
  <2> QED BY <1>2, <2>1, <2>2, <2>5, <2>6, <2>7 DEF Claim, TypeOK, HoldsKey
<1>3. ASSUME NEW p \in Processes, NEW lag \in Lags, Poll(p, lag) PROVE QueueInv'
    BY <1>3, <1>t, RequeuedTable DEF Poll, TypeOK, HoldsKey, workerVars
<1>4. ASSUME NEW p \in Processes, NEW lag \in Lags, Heartbeat(p, lag) PROVE QueueInv'
  <2>1. held[p] \in Keys BY <1>4 DEF Heartbeat, HoldsKey
  <2>2. GoodRow([jobs[held[p]] EXCEPT !.lease = Lease - lag])
      BY <1>t, <2>1 DEF GoodRow, RowInv, Row, Lags
  <2>3. \A j \in Keys : GoodRow(jobs'[j]) BY <1>4, <1>t, <2>1, <2>2 DEF Heartbeat
  <2>4. jobs' \in [Keys -> Row] BY <1>4, <1>t, <2>1, <2>2 DEF Heartbeat, GoodRow
  <2> QED BY <1>4, <2>3, <2>4 DEF Heartbeat, TypeOK, HoldsKey, workerVars
<1>5. ASSUME NEW p \in Processes, NEW lag \in Lags, Fail(p, lag) PROVE QueueInv'
  <2>1. held[p] \in Keys BY <1>5 DEF Fail, HoldsKey
  <2>2. GoodRow(FailRow(jobs[held[p]], lag)) BY <1>t, <2>1, FailedRowIsGood
  <2>3. \A j \in Keys : GoodRow(jobs'[j]) BY <1>5, <1>t, <2>1, <2>2 DEF Fail
  <2>4. jobs' \in [Keys -> Row] BY <1>5, <1>t, <2>1, <2>2 DEF Fail, GoodRow
  <2> QED BY <1>5, <2>1, <2>3, <2>4 DEF Fail, Leave, TypeOK, HoldsKey
<1>6. ASSUME NEW p \in Processes, Complete(p) PROVE QueueInv'
  <2>1. held[p] \in Keys BY <1>6 DEF Complete, HoldsKey
  <2>2. GoodRow(Released(jobs[held[p]], "COMPLETED", 0)) BY <1>t, <2>1, CompletedRowIsGood
  <2>3. \A j \in Keys : GoodRow(jobs'[j]) BY <1>6, <1>t, <2>1, <2>2 DEF Complete
  <2>4. jobs' \in [Keys -> Row] BY <1>6, <1>t, <2>1, <2>2 DEF Complete, GoodRow
  <2> QED BY <1>6, <2>3, <2>4 DEF Complete, Leave, TypeOK, HoldsKey
<1>7. ASSUME NEW p \in Processes, LoseClaim(p) PROVE QueueInv'
    BY <1>7 DEF LoseClaim, Leave, TypeOK, HoldsKey
<1>8. ASSUME NEW p \in Processes, ReportFailure(p) PROVE QueueInv'
  <2>1. reported' \subseteq Keys BY <1>8, <1>t DEF ReportFailure, TypeOK, HoldsKey
  <2>2. refused' \in BOOLEAN BY <1>8 DEF ReportFailure, TypeOK
  <2>3. PICK where \in {"idle", "dead"} : Leave(p, where) BY <1>8 DEF ReportFailure
  <2> QED BY <1>8, <2>1, <2>2, <2>3 DEF ReportFailure, Leave, TypeOK, HoldsKey
<1>9. ASSUME NEW p \in Processes, Crash(p) PROVE QueueInv'
    BY <1>9 DEF Crash, Leave, TypeOK, HoldsKey
<1>10. ASSUME NEW p \in Processes, Restart(p) PROVE QueueInv'
    BY <1>10 DEF Restart, Leave, TypeOK, HoldsKey
<1>11. CASE Tick
  <2>1. \A k \in Keys : GoodRow(jobs'[k]) BY <1>11, <1>t, AgedRowIsGood DEF Tick
  <2>2. jobs' = [k \in Keys |-> jobs'[k]] BY <1>11 DEF Tick
  <2>3. jobs' \in [Keys -> Row] BY <2>1, <2>2 DEF GoodRow
  <2>4. age' \in [Processes -> 0..Lease + 1]
    <3>1. \A p \in Processes : age[p] \in 0..Lease + 1 BY DEF TypeOK
    <3>2. \A p \in Processes : Smaller(age[p] + 1, Lease + 1) \in 0..Lease + 1 BY <3>1 DEF Smaller
    <3> QED BY <1>11, <3>1, <3>2 DEF Tick
  <2> QED BY <1>11, <2>1, <2>3, <2>4 DEF Tick, TypeOK, HoldsKey
<1>12. CASE UNCHANGED vars BY <1>12 DEF vars, TypeOK, HoldsKey
<1> QED BY <1>1, <1>2, <1>3, <1>4, <1>5, <1>6, <1>7, <1>8, <1>9, <1>10, <1>11, <1>12 DEF Next

\* The rows and the processes stay in their types for every value of the
\* constants; in particular no job is attempted more than max_attempts times.
THEOREM TypeCorrect == Spec => []TypeOK
<1>1. QueueInv => TypeOK BY DEF QueueInv
<1> QED BY <1>1, InitQueueInv, NextQueueInv, PTL DEF Spec

\* A job is FAILED only when it used up its attempts.
THEOREM ExhaustedWhenFailed == Spec => []FailedOnlyWhenExhausted
<1>1. QueueInv => FailedOnlyWhenExhausted
    BY DEF QueueInv, GoodRow, RowInv, FailedOnlyWhenExhausted
<1> QED BY <1>1, InitQueueInv, NextQueueInv, PTL DEF Spec

-----------------------------------------------------------------------------
(* Settled rows.                                                           *)

\* complete, fail and claim_next leave a settled row alone, and an enqueue of
\* its key does not touch it: the result of a job is final.
THEOREM SettledJobsStay == Spec => TerminalIsFinal
<1> DEFINE Stay == \A k \in Keys : jobs[k].status \in Terminal => jobs'[k] = jobs[k]
<1>1. QueueInv /\ [Next]_vars => [Stay]_vars
  <2> SUFFICES ASSUME QueueInv, Next, NEW k \in Keys, jobs[k].status \in Terminal
               PROVE jobs'[k] = jobs[k]
      BY DEF Next
  <2> USE DEF QueueInv
  <2>a. /\ jobs \in [Keys -> Row] /\ jobs[k].status \notin Waiting
        /\ jobs[k].status # "RUNNING" /\ jobs[k].status # "ABSENT"
      BY DEF TypeOK, Terminal, Waiting
  <2>b. \A lag \in Lags : RequeueExpired(lag)[k] = jobs[k]
      BY <2>a DEF RequeueExpired, Expired
  <2>1. ASSUME NEW j \in Keys, NEW lag \in Lags, Enqueue(j, lag) PROVE jobs'[k] = jobs[k]
      BY <2>1, <2>a DEF Enqueue
  <2>2. ASSUME NEW p \in Processes, NEW lag \in Lags, Claim(p, lag) PROVE jobs'[k] = jobs[k]
    <3>1. PICK j \in FirstDue(RequeueExpired(lag), lag) :
            jobs' = [RequeueExpired(lag) EXCEPT ![j] = ClaimRow(@, WorkerId[p], lag)]
        BY <2>2 DEF Claim
    <3>2. j # k BY <2>a, <2>b DEF FirstDue, Claimable
    <3> QED BY <3>1, <3>2, <2>b DEF RequeueExpired
  <2>3. ASSUME NEW p \in Processes, NEW lag \in Lags, Poll(p, lag) PROVE jobs'[k] = jobs[k]
      BY <2>3, <2>b DEF Poll
  <2>4. ASSUME NEW p \in Processes, NEW lag \in Lags, Heartbeat(p, lag) PROVE jobs'[k] = jobs[k]
      BY <2>4, <2>a DEF Heartbeat, Owns
  <2>5. ASSUME NEW p \in Processes, NEW lag \in Lags, Fail(p, lag) PROVE jobs'[k] = jobs[k]
      BY <2>5, <2>a DEF Fail, Owns
  <2>6. ASSUME NEW p \in Processes, Complete(p) PROVE jobs'[k] = jobs[k]
      BY <2>6, <2>a DEF Complete, Owns
  <2>7. CASE Tick
    <3>1. jobs'[k] = AgeRow(jobs[k]) BY <2>7 DEF Tick
    <3> QED BY <3>1, <2>a DEF AgeRow, Row
  <2>8. CASE \E p \in Processes : LoseClaim(p) \/ ReportFailure(p) \/ Crash(p) \/ Restart(p)
      BY <2>8 DEF LoseClaim, ReportFailure, Crash, Restart
  <2> QED BY <2>1, <2>2, <2>3, <2>4, <2>5, <2>6, <2>7, <2>8 DEF Next
<1> QED BY <1>1, InitQueueInv, NextQueueInv, PTL DEF Spec, TerminalIsFinal

-----------------------------------------------------------------------------
(* Fencing.                                                                *)

DistinctWorkerIds ==
  \A p, q \in Processes : WorkerId[p] = WorkerId[q] => p = q

\* A handler that is younger than its lease still owns its row, and what is
\* left of the lease is what its age has not used.
Fenced(p) ==
  pc[p] = "handling" =>
    /\ Owns(p, held[p]) => try[p] = jobs[held[p]].attempt
    /\ age[p] <= Lease - Lag =>
         /\ Owns(p, held[p])
         /\ jobs[held[p]].lease >= Lease - Lag - age[p]

FenceInv == \A p \in Processes : Fenced(p)

LEMMA NextFenceInv ==
  ASSUME DistinctWorkerIds, QueueInv, FenceInv, [Next]_vars
  PROVE FenceInv'
<1> USE QueueAssumption DEF QueueInv
<1>t. /\ jobs \in [Keys -> Row]
      /\ pc \in [Processes -> {"idle", "handling", "terminal", "dead"}]
      /\ held \in [Processes -> Keys \union {None}]
      /\ try \in [Processes -> 0..MaxAttempts]
      /\ age \in [Processes -> 0..Lease + 1]
      /\ \A p \in Processes : WorkerId[p] \in WorkerIds
    BY DEF TypeOK
<1> SUFFICES ASSUME NEW q \in Processes, pc'[q] = "handling" PROVE Fenced(q)'
    BY DEF FenceInv, Fenced
<1>1. ASSUME NEW k \in Keys, NEW lag \in Lags, Enqueue(k, lag) PROVE Fenced(q)'
  <2>1. held[q] \in Keys /\ pc[q] = "handling" BY <1>1 DEF Enqueue, workerVars, HoldsKey
  <2>2. CASE held[q] = k
    <3>1. ~Owns(q, held[q]) /\ ~Owns(q, held[q])'
        BY <1>1, <1>t, <2>1, <2>2 DEF Enqueue, Owns, Released, workerVars
    <3> QED BY <1>1, <2>1, <3>1 DEF FenceInv, Fenced, Enqueue, workerVars
  <2>3. CASE held[q] # k
      BY <1>1, <1>t, <2>1, <2>3 DEF FenceInv, Fenced, Enqueue, workerVars, Owns
  <2> QED BY <2>2, <2>3
<1>2. ASSUME NEW p \in Processes, NEW lag \in Lags, Claim(p, lag) PROVE Fenced(q)'
  <2>1. PICK k \in FirstDue(RequeueExpired(lag), lag) :
          /\ jobs' = [RequeueExpired(lag) EXCEPT ![k] = ClaimRow(@, WorkerId[p], lag)]
          /\ held' = [held EXCEPT ![p] = k]
          /\ try' = [try EXCEPT ![p] = RequeueExpired(lag)[k].attempt + 1]
      BY <1>2 DEF Claim
  <2>2. k \in Keys /\ RequeueExpired(lag)[k].status \in Waiting
      BY DEF FirstDue, Claimable
  <2>3. jobs'[k] = ClaimRow(RequeueExpired(lag)[k], WorkerId[p], lag)
      BY <2>1, <2>2 DEF RequeueExpired
  <2>4. CASE q = p
    <3>1. held'[q] = k /\ try'[q] = RequeueExpired(lag)[k].attempt + 1 /\ age'[q] = 0
        BY <1>2, <2>1, <2>4, <1>t DEF Claim
    <3> QED BY <2>3, <2>4, <3>1 DEF Fenced, Owns, ClaimRow, Lags
  <2>5. CASE q # p
    <3>1. /\ pc[q] = "handling" /\ held'[q] = held[q] /\ try'[q] = try[q] /\ age'[q] = age[q]
          /\ held[q] \in Keys
        BY <1>2, <2>1, <2>5, <1>t DEF Claim, HoldsKey
    <3>2. CASE held[q] = k
      <4>1. ~Owns(q, k)' BY <2>3, <2>5 DEF Owns, ClaimRow, DistinctWorkerIds
      <4>2. age[q] > Lease - Lag
        <5>1. ~Expired(jobs[k], lag) => ~Owns(q, k)
            BY <2>2 DEF RequeueExpired, Owns, Waiting
        <5>2. Expired(jobs[k], lag) => jobs[k].lease < 0 BY <2>2, <1>t DEF Expired, Lags, Row
        <5> QED BY <5>1, <5>2, <3>1, <3>2, <2>2, <1>t DEF FenceInv, Fenced, Row
      <4> QED BY <3>1, <3>2, <4>1, <4>2, <1>t DEF Fenced, Owns
    <3>3. CASE held[q] # k
      <4>1. jobs'[held[q]] = RequeueExpired(lag)[held[q]] BY <2>1, <3>1, <3>3 DEF RequeueExpired
      <4>2. CASE Expired(jobs[held[q]], lag)
        <5>1. ~Owns(q, held[q])'
            BY <4>1, <4>2, <3>1, <1>t DEF RequeueExpired, RequeueRow, Released, Owns
        <5>2. age[q] > Lease - Lag
            BY <4>2, <3>1, <1>t DEF FenceInv, Fenced, Expired, Lags, Row
        <5> QED BY <5>1, <5>2, <3>1, <1>t DEF Fenced
      <4>3. CASE ~Expired(jobs[held[q]], lag)
          BY <4>1, <4>3, <3>1 DEF RequeueExpired, FenceInv, Fenced, Owns
      <4> QED BY <4>2, <4>3
    <3> QED BY <3>2, <3>3
  <2> QED BY <2>4, <2>5
<1>3. ASSUME NEW p \in Processes, NEW lag \in Lags, Poll(p, lag) PROVE Fenced(q)'
  <2>1. /\ pc[q] = "handling" /\ held'[q] = held[q] /\ try'[q] = try[q] /\ age'[q] = age[q]
        /\ held[q] \in Keys
      BY <1>3 DEF Poll, workerVars, HoldsKey
  <2>2. CASE Expired(jobs[held[q]], lag)
    <3>1. ~Owns(q, held[q])'
        BY <1>3, <2>1, <2>2, <1>t DEF Poll, RequeueExpired, RequeueRow, Released, Owns
    <3>2. age[q] > Lease - Lag
        BY <2>1, <2>2, <1>t DEF FenceInv, Fenced, Expired, Lags, Row
    <3> QED BY <3>1, <3>2, <2>1, <1>t DEF Fenced
  <2>3. CASE ~Expired(jobs[held[q]], lag)
      BY <1>3, <2>1, <2>3 DEF Poll, RequeueExpired, FenceInv, Fenced, Owns
  <2> QED BY <2>2, <2>3
<1>4. ASSUME NEW p \in Processes, NEW lag \in Lags, Heartbeat(p, lag) PROVE Fenced(q)'
  <2>1. held[p] \in Keys /\ held[q] \in Keys /\ pc[q] = "handling"
      BY <1>4 DEF Heartbeat, workerVars, HoldsKey
  <2>2. CASE held[q] = held[p]
    <3>1. /\ jobs'[held[q]].status = jobs[held[q]].status
          /\ jobs'[held[q]].owner = jobs[held[q]].owner
          /\ jobs'[held[q]].attempt = jobs[held[q]].attempt
          /\ jobs'[held[q]].lease = Lease - lag
        BY <1>4, <2>1, <2>2, <1>t DEF Heartbeat, Row
    <3> QED BY <1>4, <2>1, <3>1, <1>t DEF Heartbeat, workerVars, FenceInv, Fenced, Owns, Lags
  <2>3. CASE held[q] # held[p]
      BY <1>4, <2>1, <2>3, <1>t DEF Heartbeat, workerVars, FenceInv, Fenced, Owns
  <2> QED BY <2>2, <2>3
\* p settles its claim, by complete or by fail; everyone else stays as it was.
<1>5. ASSUME NEW p \in Processes, NEW row, row.status # "RUNNING",
             pc[p] = "handling", Owns(p, held[p]),
             jobs' = [jobs EXCEPT ![held[p]] = row],
             q # p => /\ pc'[q] = pc[q] /\ held'[q] = held[q]
                      /\ try'[q] = try[q] /\ age'[q] = age[q],
             pc'[p] # "handling"
      PROVE Fenced(q)'
  <2>1. q # p BY <1>5
  <2>2. held[p] \in Keys /\ held[q] \in Keys /\ pc[q] = "handling" BY <1>5, <2>1 DEF HoldsKey
  <2>3. CASE held[q] = held[p]
    <3>1. ~Owns(q, held[q]) BY <1>5, <2>1, <2>3 DEF Owns, DistinctWorkerIds
    <3>2. age[q] > Lease - Lag BY <3>1, <2>2, <1>t DEF FenceInv, Fenced
    <3>3. ~Owns(q, held[q])' BY <1>5, <2>1, <2>2, <2>3, <1>t DEF Owns
    <3> QED BY <1>5, <2>1, <3>2, <3>3, <1>t DEF Fenced
  <2>4. CASE held[q] # held[p]
      BY <1>5, <2>1, <2>2, <2>4, <1>t DEF FenceInv, Fenced, Owns
  <2> QED BY <2>3, <2>4
<1>6. ASSUME NEW p \in Processes, NEW lag \in Lags, Fail(p, lag) PROVE Fenced(q)'
  <2>1. FailRow(jobs[held[p]], lag).status # "RUNNING"
      BY <1>6, <1>t, FailedRowIsGood DEF Fail, HoldsKey
  <2>2. jobs' = [jobs EXCEPT ![held[p]] = FailRow(jobs[held[p]], lag)] BY <1>6 DEF Fail
  <2>3. pc'[p] # "handling" BY <1>6, <1>t DEF Fail, Leave
  <2>4. q # p => /\ pc'[q] = pc[q] /\ held'[q] = held[q] /\ try'[q] = try[q] /\ age'[q] = age[q]
      BY <1>6, <1>t DEF Fail, Leave
  <2>5. pc[p] = "handling" /\ Owns(p, held[p]) BY <1>6 DEF Fail
  <2> QED BY <1>5, <2>1, <2>2, <2>3, <2>4, <2>5
<1>7. ASSUME NEW p \in Processes, Complete(p) PROVE Fenced(q)'
  <2>1. Released(jobs[held[p]], "COMPLETED", 0).status # "RUNNING" BY DEF Released
  <2>2. jobs' = [jobs EXCEPT ![held[p]] = Released(jobs[held[p]], "COMPLETED", 0)]
      BY <1>7 DEF Complete
  <2>3. pc'[p] # "handling" BY <1>7, <1>t DEF Complete, Leave
  <2>4. q # p => /\ pc'[q] = pc[q] /\ held'[q] = held[q] /\ try'[q] = try[q] /\ age'[q] = age[q]
      BY <1>7, <1>t DEF Complete, Leave
  <2>5. pc[p] = "handling" /\ Owns(p, held[p]) BY <1>7 DEF Complete
  <2> QED BY <1>5, <2>1, <2>2, <2>3, <2>4, <2>5
<1>8. ASSUME NEW p \in Processes, LoseClaim(p) \/ ReportFailure(p) \/ Crash(p) \/ Restart(p)
      PROVE Fenced(q)'
  <2>1. q # p BY <1>8, <1>t DEF LoseClaim, ReportFailure, Crash, Restart, Leave
  <2>2. /\ pc[q] = "handling" /\ held'[q] = held[q] /\ try'[q] = try[q] /\ age'[q] = age[q]
        /\ jobs' = jobs
      BY <1>8, <1>t, <2>1 DEF LoseClaim, ReportFailure, Crash, Restart, Leave
  <2> QED BY <2>2 DEF FenceInv, Fenced, Owns
<1>9. CASE Tick
  <2>1. /\ pc[q] = "handling" /\ held'[q] = held[q] /\ try'[q] = try[q] /\ held[q] \in Keys
        /\ age'[q] = Smaller(age[q] + 1, Lease + 1)
        /\ jobs'[held[q]] = AgeRow(jobs[held[q]])
      BY <1>9, <1>t DEF Tick, HoldsKey
  <2>2. Owns(q, held[q])' <=> Owns(q, held[q]) BY <2>1 DEF Owns, AgeRow
  <2>3. Owns(q, held[q]) => jobs'[held[q]].lease >= jobs[held[q]].lease - 1
      BY <2>1, <1>t DEF Owns, AgeRow, Larger, Row
  <2>4. age'[q] <= Lease - Lag => age[q] <= Lease - Lag /\ age'[q] = age[q] + 1
      BY <2>1, <1>t DEF Smaller
  <2>5. jobs'[held[q]].attempt = jobs[held[q]].attempt BY <2>1 DEF AgeRow
  <2>6. jobs[held[q]].lease \in Int /\ jobs'[held[q]].lease \in Int
      BY <2>1, <1>t DEF AgeRow, Larger, Row
  <2>7. age[q] \in Int /\ Lease \in Int /\ Lag \in Int BY <1>t
  <2> QED BY <2>1, <2>2, <2>3, <2>4, <2>5, <2>6, <2>7 DEF FenceInv, Fenced
<1>10. CASE UNCHANGED vars BY <1>10 DEF vars, FenceInv, Fenced, Owns
<1> QED BY <1>1, <1>2, <1>3, <1>4, <1>6, <1>7, <1>8, <1>9, <1>10 DEF Next

\* If no two processes share a worker_id, the claim a process may settle is the
\* latest one of that job, however slow it was and whoever polled meanwhile.
THEOREM ClaimsAreFenced == DistinctWorkerIds => (Spec => []SettlesOwnClaim)
<1> SUFFICES ASSUME DistinctWorkerIds PROVE Spec => []SettlesOwnClaim OBVIOUS
<1>1. Init => FenceInv BY QueueAssumption DEF Init, FenceInv, Fenced
<1>2. QueueInv /\ FenceInv /\ [Next]_vars => FenceInv' BY NextFenceInv
<1>3. FenceInv => SettlesOwnClaim BY DEF FenceInv, Fenced, SettlesOwnClaim
<1> QED BY <1>1, <1>2, <1>3, InitQueueInv, NextQueueInv, PTL DEF Spec

\* If no two processes share a worker_id, a handler that takes no longer than
\* the lease less the lag finds its claim as it left it.
THEOREM PromptWorkersKeepClaims == DistinctWorkerIds => (Spec => []PromptWorkerKeepsClaim)
<1> SUFFICES ASSUME DistinctWorkerIds PROVE Spec => []PromptWorkerKeepsClaim OBVIOUS
<1>1. Init => FenceInv BY QueueAssumption DEF Init, FenceInv, Fenced
<1>2. QueueInv /\ FenceInv /\ [Next]_vars => FenceInv' BY NextFenceInv
<1>3. FenceInv => PromptWorkerKeepsClaim BY DEF FenceInv, Fenced, PromptWorkerKeepsClaim
<1> QED BY <1>1, <1>2, <1>3, InitQueueInv, NextQueueInv, PTL DEF Spec

-----------------------------------------------------------------------------
(* Survival.                                                               *)

\* A process that is alive, and will not die of the job it is on.
Sound(p) == Alive(p) /\ (pc[p] = "handling" => Owns(p, held[p]))

\* However they share worker ids: a step that takes claims away is the step of
\* a process that is sound after it, so some worker always survives.
THEOREM WorkersSurvive == Processes # {} => (Spec => []SomeWorkerSurvives)
<1> SUFFICES ASSUME Processes # {} PROVE Spec => []SomeWorkerSurvives OBVIOUS
<1>1. Init => SomeWorkerSurvives BY DEF Init, SomeWorkerSurvives, Alive
<1>2. QueueInv /\ SomeWorkerSurvives /\ [Next]_vars => SomeWorkerSurvives'
  <2> SUFFICES ASSUME QueueInv, SomeWorkerSurvives, [Next]_vars, crashes' = 0, ~refused'
               PROVE \E p \in Processes : Sound(p)'
      BY DEF SomeWorkerSurvives, Sound, Alive, Owns
  <2> USE QueueAssumption DEF QueueInv
  <2>t. /\ jobs \in [Keys -> Row]
        /\ pc \in [Processes -> {"idle", "handling", "terminal", "dead"}]
        /\ held \in [Processes -> Keys \union {None}]
        /\ refused \in BOOLEAN
        /\ crashes \in 0..MaxCrashes
      BY DEF TypeOK
  <2>r. ~refused
    <3>1. (\E p \in Processes : ReportFailure(p)) => refused' \/ refused' = refused
        BY DEF ReportFailure
    <3>2. ~(\E p \in Processes : ReportFailure(p)) => refused' = refused
        BY DEF Next, vars, Enqueue, Claim, Poll, Heartbeat, Fail, Complete, LoseClaim,
               Crash, Restart, Tick
    <3> QED BY <3>1, <3>2, <2>t
  <2>c. crashes = 0
    <3>1. (\E p \in Processes : Crash(p)) => crashes' > 0 BY <2>t DEF Crash
    <3>2. ~(\E p \in Processes : Crash(p)) => crashes' = crashes
        BY DEF Next, vars, Enqueue, Claim, Poll, Heartbeat, Fail, Complete, LoseClaim,
               ReportFailure, Restart, Tick
    <3> QED BY <3>1, <3>2
  <2>s. PICK s \in Processes : Sound(s) BY <2>c, <2>r DEF SomeWorkerSurvives, Sound
  <2>1. ASSUME NEW k \in Keys, NEW lag \in Lags, Enqueue(k, lag) PROVE Sound(s)'
    <3>1. pc[s] = "handling" => held[s] # k BY <2>1, <2>s DEF Sound, Owns, Enqueue
    <3> QED BY <2>1, <2>s, <2>t, <3>1 DEF Enqueue, Sound, Alive, Owns, workerVars, HoldsKey
  <2>2. ASSUME NEW p \in Processes, NEW lag \in Lags, Claim(p, lag) PROVE Sound(p)'
    <3>1. PICK k \in FirstDue(RequeueExpired(lag), lag) :
            /\ jobs' = [RequeueExpired(lag) EXCEPT ![k] = ClaimRow(@, WorkerId[p], lag)]
            /\ held' = [held EXCEPT ![p] = k]
        BY <2>2 DEF Claim
    <3>2. k \in Keys BY DEF FirstDue, Claimable
    <3>3. jobs'[k] = ClaimRow(RequeueExpired(lag)[k], WorkerId[p], lag) BY <3>1, <3>2 DEF RequeueExpired
    <3>4. held'[p] = k /\ pc'[p] = "handling" BY <2>2, <3>1, <2>t DEF Claim
    <3> QED BY <3>3, <3>4 DEF Sound, Alive, Owns, ClaimRow
  <2>3. ASSUME NEW p \in Processes, NEW lag \in Lags, Poll(p, lag) PROVE Sound(p)'
      BY <2>3 DEF Poll, workerVars, Sound, Alive
  <2>4. ASSUME NEW p \in Processes, NEW lag \in Lags, Heartbeat(p, lag) PROVE Sound(s)'
    <3>1. \A k \in Keys : jobs'[k].status = jobs[k].status /\ jobs'[k].owner = jobs[k].owner
        BY <2>4, <2>t DEF Heartbeat, Row
    <3> QED BY <2>4, <2>s, <3>1 DEF Heartbeat, Sound, Alive, Owns, workerVars, HoldsKey
  <2>5. ASSUME NEW p \in Processes, NEW lag \in Lags, Fail(p, lag) PROVE Sound(p)'
      BY <2>5, <2>t DEF Fail, Leave, Sound, Alive
  <2>6. ASSUME NEW p \in Processes, Complete(p) PROVE Sound(p)'
      BY <2>6, <2>t DEF Complete, Leave, Sound, Alive
  <2>7. ASSUME NEW p \in Processes, LoseClaim(p) PROVE Sound(s)'
      BY <2>7, <2>s, <2>t DEF LoseClaim, Leave, Sound, Alive, Owns
  <2>8. ASSUME NEW p \in Processes, ReportFailure(p) \/ Restart(p) PROVE Sound(p)'
      BY <2>8, <2>t DEF ReportFailure, Restart, Leave, Sound, Alive
  <2>9. ASSUME NEW p \in Processes, Crash(p) PROVE FALSE BY <2>9, <2>c DEF Crash
  <2>10. CASE Tick
    <3>1. \A k \in Keys : jobs'[k].status = jobs[k].status /\ jobs'[k].owner = jobs[k].owner
        BY <2>10 DEF Tick, AgeRow
    <3> QED BY <2>10, <2>s, <3>1 DEF Tick, Sound, Alive, Owns, HoldsKey
  <2>11. CASE UNCHANGED vars BY <2>11, <2>s DEF vars, Sound, Alive, Owns
  <2> QED BY <2>1, <2>2, <2>3, <2>4, <2>5, <2>6, <2>7, <2>8, <2>9, <2>10, <2>11 DEF Next
<1> QED BY <1>1, <1>2, InitQueueInv, NextQueueInv, PTL DEF Spec

-----------------------------------------------------------------------------
(* The queue implements its lifecycle.                                     *)

LEMMA PhaseOfStatus ==
  /\ Phase("ABSENT") = "absent" /\ Phase("PENDING") = "queued" /\ Phase("RETRY") = "queued"
  /\ Phase("RUNNING") = "running" /\ Phase("COMPLETED") = "done" /\ Phase("FAILED") = "failed"
BY DEF Phase, Waiting

\* The moves JobLifecycle allows a job, on the rows before and after a step.
RowMove(row, new) ==
  \/ Phase(new.status) = Phase(row.status) /\ new.attempt = row.attempt
  \/ Phase(row.status) = "absent" /\ Phase(new.status) = "queued" /\ new.attempt = row.attempt
  \/ /\ Phase(row.status) \in {"queued", "running"} /\ row.attempt < MaxAttempts
     /\ Phase(new.status) = "running" /\ new.attempt = row.attempt + 1
  \/ Phase(row.status) = "running" /\ Phase(new.status) = "done" /\ new.attempt = row.attempt
  \/ /\ Phase(row.status) = "running" /\ new.attempt = row.attempt
     /\ Phase(new.status) = IF row.attempt < MaxAttempts THEN "queued" ELSE "failed"

LEMMA RequeueMoves ==
  ASSUME NEW row, GoodRow(row), row.status = "RUNNING", NEW lag \in Lags
  PROVE /\ RowMove(row, RequeueRow(row, lag)) /\ RequeueRow(row, lag).attempt = row.attempt
        /\ RowMove(row, FailRow(row, lag))
BY PhaseOfStatus, QueueAssumption DEF RowMove, RequeueRow, FailRow, Released, GoodRow, Row

\* A claim moves the row it takes, whether it was waiting or had just been requeued.
LEMMA ClaimMoves ==
  ASSUME NEW lag \in Lags, NEW k \in Keys, GoodRow(jobs[k]), NEW worker,
         RequeueExpired(lag)[k].status \in Waiting
  PROVE RowMove(jobs[k], ClaimRow(RequeueExpired(lag)[k], worker, lag))
<1>1. CASE Expired(jobs[k], lag)
  <2>1. RequeueExpired(lag)[k] = RequeueRow(jobs[k], lag) BY <1>1 DEF RequeueExpired
  <2>2. jobs[k].attempt < MaxAttempts
      BY <2>1, QueueAssumption DEF RequeueRow, Released, Waiting, GoodRow, Row
  <2>3. RequeueRow(jobs[k], lag).attempt = jobs[k].attempt BY <1>1, RequeueMoves DEF Expired
  <2> QED BY <1>1, <2>1, <2>2, <2>3, PhaseOfStatus DEF RowMove, ClaimRow, Expired
<1>2. CASE ~Expired(jobs[k], lag)
    BY <1>2, PhaseOfStatus DEF RequeueExpired, RowMove, ClaimRow, GoodRow, RowInv, Waiting
<1> QED BY <1>1, <1>2

LEMMA RequeueTableMoves ==
  ASSUME NEW lag \in Lags, NEW k \in Keys, GoodRow(jobs[k])
  PROVE RowMove(jobs[k], RequeueExpired(lag)[k])
<1>1. CASE Expired(jobs[k], lag) BY <1>1, RequeueMoves DEF RequeueExpired, Expired
<1>2. CASE ~Expired(jobs[k], lag) BY <1>2 DEF RequeueExpired, RowMove
<1> QED BY <1>1, <1>2

\* Every step of the queue moves every row as JobLifecycle allows.
LEMMA StepMoves ==
  ASSUME QueueInv, [Next]_vars, NEW k \in Keys
  PROVE RowMove(jobs[k], jobs'[k])
<1> USE QueueAssumption DEF QueueInv
<1>t. jobs \in [Keys -> Row] /\ GoodRow(jobs[k]) BY DEF TypeOK
<1>1. ASSUME NEW j \in Keys, NEW lag \in Lags, Enqueue(j, lag) PROVE RowMove(jobs[k], jobs'[k])
  <2>1. CASE j = k
    <3>1. jobs[k].status = "ABSENT" /\ jobs'[k] = Released(NoRow, "PENDING", -lag)
        BY <1>1, <1>t, <2>1 DEF Enqueue
    <3>2. jobs[k].attempt = 0 BY <3>1, <1>t DEF GoodRow, RowInv
    <3> QED BY <3>1, <3>2, PhaseOfStatus DEF RowMove, Released, NoRow
  <2>2. CASE j # k BY <1>1, <2>2, <1>t DEF Enqueue, RowMove
  <2> QED BY <2>1, <2>2
<1>2. ASSUME NEW p \in Processes, NEW lag \in Lags, Claim(p, lag) PROVE RowMove(jobs[k], jobs'[k])
  <2>1. PICK j \in FirstDue(RequeueExpired(lag), lag) :
          jobs' = [RequeueExpired(lag) EXCEPT ![j] = ClaimRow(@, WorkerId[p], lag)]
      BY <1>2 DEF Claim
  <2>2. j \in Keys /\ RequeueExpired(lag)[j].status \in Waiting BY DEF FirstDue, Claimable
  <2>3. CASE j = k
    <3>1. jobs'[k] = ClaimRow(RequeueExpired(lag)[k], WorkerId[p], lag)
        BY <2>1, <2>3 DEF RequeueExpired
    <3> QED BY <3>1, <2>2, <2>3, <1>t, ClaimMoves
  <2>4. CASE j # k
    <3>1. jobs'[k] = RequeueExpired(lag)[k] BY <2>1, <2>4 DEF RequeueExpired
    <3> QED BY <3>1, <1>t, RequeueTableMoves
  <2> QED BY <2>3, <2>4
<1>3. ASSUME NEW p \in Processes, NEW lag \in Lags, Poll(p, lag) PROVE RowMove(jobs[k], jobs'[k])
    BY <1>3, <1>t, RequeueTableMoves DEF Poll
<1>4. ASSUME NEW p \in Processes, NEW lag \in Lags, Heartbeat(p, lag) PROVE RowMove(jobs[k], jobs'[k])
  <2>1. jobs'[k].status = jobs[k].status /\ jobs'[k].attempt = jobs[k].attempt
      BY <1>4, <1>t DEF Heartbeat, Row
  <2> QED BY <2>1 DEF RowMove
<1>5. ASSUME NEW p \in Processes, NEW lag \in Lags, Fail(p, lag) PROVE RowMove(jobs[k], jobs'[k])
  <2>1. CASE held[p] = k
    <3>1. jobs[k].status = "RUNNING" /\ jobs'[k] = FailRow(jobs[k], lag)
        BY <1>5, <1>t, <2>1 DEF Fail, Owns
    <3> QED BY <3>1, <1>t, RequeueMoves
  <2>2. CASE held[p] # k BY <1>5, <1>t, <2>2 DEF Fail, RowMove
  <2> QED BY <2>1, <2>2
<1>6. ASSUME NEW p \in Processes, Complete(p) PROVE RowMove(jobs[k], jobs'[k])
  <2>1. CASE held[p] = k
    <3>1. jobs[k].status = "RUNNING" /\ jobs'[k] = Released(jobs[k], "COMPLETED", 0)
        BY <1>6, <1>t, <2>1 DEF Complete, Owns
    <3> QED BY <3>1, PhaseOfStatus DEF RowMove, Released
  <2>2. CASE held[p] # k BY <1>6, <1>t, <2>2 DEF Complete, RowMove
  <2> QED BY <2>1, <2>2
<1>7. CASE Tick
  <2>1. jobs'[k] = AgeRow(jobs[k]) BY <1>7 DEF Tick
  <2> QED BY <2>1 DEF AgeRow, RowMove
<1>8. CASE \E p \in Processes : LoseClaim(p) \/ ReportFailure(p) \/ Crash(p) \/ Restart(p)
    BY <1>8 DEF LoseClaim, ReportFailure, Crash, Restart, RowMove
<1>9. CASE UNCHANGED vars BY <1>9 DEF vars, RowMove
<1> QED BY <1>1, <1>2, <1>3, <1>4, <1>5, <1>6, <1>7, <1>8, <1>9 DEF Next

\* The detailed queue, with its clock, leases, workers and crashes, implements
\* JobLifecycle: at most MaxAttempts deliveries, and a final end.
THEOREM QueueImplementsLifecycle == Spec => ImplementsLifecycle
<1>1. Init => Lifecycle!Init BY PhaseOfStatus DEF Init, NoRow, Lifecycle!Init
<1>2. QueueInv /\ [Next]_vars => [Lifecycle!Next]_Lifecycle!vars
  <2> SUFFICES ASSUME QueueInv, [Next]_vars PROVE Lifecycle!Next
      OBVIOUS
  <2>1. ASSUME NEW k \in Keys
        PROVE Lifecycle!Keep(k) \/ Lifecycle!Submit(k) \/ Lifecycle!Deliver(k)
              \/ Lifecycle!Succeed(k) \/ Lifecycle!GiveUp(k)
    <3>1. RowMove(jobs[k], jobs'[k]) BY StepMoves
    <3> QED BY <3>1 DEF RowMove, Lifecycle!Keep, Lifecycle!Submit, Lifecycle!Deliver,
                        Lifecycle!Succeed, Lifecycle!GiveUp
  <2> QED BY <2>1 DEF Lifecycle!Next
<1> QED BY <1>1, <1>2, InitQueueInv, NextQueueInv, PTL DEF Spec, ImplementsLifecycle, Lifecycle!Spec

=============================================================================
