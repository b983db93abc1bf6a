-------------------------- MODULE WorkerLoopProofs --------------------------
(***************************************************************************)
(* What the worker loop keeps, whatever the handlers do: lemmas for the    *)
(* proofs of Engineering and Tournament, about any set K of jobs, any set  *)
(* D of databases and any set U of places where a unit of work is open.    *)
(***************************************************************************)
EXTENDS WorkerLoop, TLAPS

\* Where a worker is when no unit of work is open.
Between == {"idle", "calling", "enqueue", "settle", "raised", "dead"}

LoopTyped(K, D, U) ==
  /\ jobs \in [K -> JobRow]
  /\ pc \in [Workers -> U \union Between]
  /\ job \in [Workers -> K \union {None}]
  /\ view \in [Workers -> D \union {None}]
  /\ todo \in [Workers -> SUBSET K]
  /\ budget \in [raises : Nat, lapses : Nat, crashes : Nat, lost : SUBSET K]

\* A job that waits has an attempt left, one that failed has none.
AttemptsLeft(row) ==
  /\ row.status = "absent" => row.attempt = 0
  /\ row.status = "queued" => row.attempt < MaxAttempts
  /\ row.status = "failed" => row.attempt = MaxAttempts
RowsOK(K) == \A j \in K : AttemptsLeft(jobs[j])

\* A worker holds a job that was enqueued; and as long as no live worker has
\* lost a lease, the row of its job is its own until it reports its failure.
HoldsRow == \A w \in Workers : job[w] # None => jobs[job[w]].status # "absent"
Exclusive ==
  budget.lapses = 0 => \A w \in Workers : job[w] # None =>
    IF pc[w] = "terminal" THEN jobs[job[w]].status = "failed" ELSE Owns(w)

LoopInv(K, D, U) ==
  LoopTyped(K, D, U) /\ LoopOK(U) /\ RowsOK(K) /\ HoldsRow /\ Exclusive

\* What the lemmas assume of the three sets.
Setting(K, D, U) ==
  /\ None \notin K /\ None \notin D
  /\ "terminal" \in U
  /\ U \intersect {"idle", "enqueue", "settle", "raised", "dead"} = {}

\* The two kinds of step a handler takes: it goes on with its job and leaves the
\* queue as it is, or the worker lets go of the job.
Works(w, K, D, U) ==
  /\ pc[w] \in U \union {"calling"} /\ pc[w] # "terminal"
  /\ \E where \in (U \union Between) \ {"idle", "dead", "terminal"},
       v \in D \union {None}, keys \in SUBSET K :
       /\ where = "enqueue" <=> keys # {}
       /\ v # None => where \in U
       /\ pc' = [pc EXCEPT ![w] = where]
       /\ view' = [view EXCEPT ![w] = v]
       /\ todo' = [todo EXCEPT ![w] = keys]
  /\ UNCHANGED <<jobs, job>>
  /\ \/ UNCHANGED budget
     \/ budget' = [budget EXCEPT !.raises = @ + 1]

LetsGo(w, K) ==
  /\ \E where \in {"idle", "dead"} : Drop(w, where)
  /\ UNCHANGED jobs
  /\ \/ UNCHANGED budget
     \/ \E lost \in SUBSET K : budget' = [budget EXCEPT !.crashes = @ + 1, !.lost = lost]

\* What may become of a row of the queue in one step.
RowMoves(row, new) ==
  \/ new.status = row.status /\ new.attempt = row.attempt
  \/ row.status = "absent" /\ new.status = "queued" /\ new.attempt = row.attempt
  \/ /\ row.status = "queued" /\ row.attempt < MaxAttempts
     /\ new.status = "running" /\ new.attempt = row.attempt + 1
  \/ row.status = "running" /\ new.status = "done" /\ new.attempt = row.attempt
  \/ /\ row.status = "running" /\ new.attempt = row.attempt
     /\ new.status = IF row.attempt < MaxAttempts THEN "queued" ELSE "failed"
RowsMove(K) == \A j \in K : RowMoves(jobs[j], jobs'[j])

-----------------------------------------------------------------------------
(* Every step of the loop keeps its invariant.                             *)

LEMMA InitLoop ==
  ASSUME NEW K, NEW D, NEW U, Setting(K, D, U), LoopInit, jobs = [j \in K |-> NoJob]
  PROVE  LoopInv(K, D, U)
<1> USE LoopAssumption DEF LoopInit, NoJob
<1>1. LoopTyped(K, D, U) BY DEF LoopTyped, JobRow, Between
<1>2. LoopOK(U) BY DEF LoopOK
<1>3. RowsOK(K) BY DEF RowsOK, AttemptsLeft
<1>4. HoldsRow BY DEF HoldsRow
<1>5. Exclusive BY DEF Exclusive
<1> QED BY <1>1, <1>2, <1>3, <1>4, <1>5 DEF LoopInv

\* A step of the API that leaves the queue alone, or no step at all.
LEMMA IdleKeepsLoop ==
  ASSUME NEW K, NEW D, NEW U, LoopInv(K, D, U), UNCHANGED <<jobs, workerVars, budget>>
  PROVE  LoopInv(K, D, U)' /\ RowsMove(K)
<1> USE DEF LoopInv, workerVars
<1>1. LoopTyped(K, D, U)' BY DEF LoopTyped
<1>2. LoopOK(U)' BY DEF LoopTyped, LoopOK
<1>3. RowsOK(K)' BY DEF LoopTyped, RowsOK, AttemptsLeft
<1>4. HoldsRow' BY DEF LoopTyped, HoldsRow
<1>5. Exclusive' BY DEF LoopTyped, Exclusive, Owns
<1>6. RowsMove(K) BY DEF RowsMove, RowMoves
<1> QED BY <1>1, <1>2, <1>3, <1>4, <1>5, <1>6

LEMMA CrashApiKeepsLoop ==
  ASSUME NEW K, NEW D, NEW U, LoopInv(K, D, U), CrashApi
  PROVE  LoopInv(K, D, U)' /\ RowsMove(K)
<1> USE DEF LoopInv, workerVars, CrashApi
<1>1. LoopTyped(K, D, U)' BY DEF LoopTyped
<1>2. LoopOK(U)' BY DEF LoopTyped, LoopOK
<1>3. RowsOK(K)' BY DEF LoopTyped, RowsOK, AttemptsLeft
<1>4. HoldsRow' BY DEF LoopTyped, HoldsRow
<1>5. Exclusive' BY DEF LoopTyped, Exclusive, Owns
<1>6. RowsMove(K) BY DEF RowsMove, RowMoves
<1> QED BY <1>1, <1>2, <1>3, <1>4, <1>5, <1>6

LEMMA WorksKeepsLoop ==
  ASSUME NEW K, NEW D, NEW U, Setting(K, D, U), LoopInv(K, D, U),
         NEW w \in Workers, Works(w, K, D, U)
  PROVE LoopInv(K, D, U)' /\ RowsMove(K)
<1> USE DEF LoopInv
<1>1. LoopTyped(K, D, U)' BY DEF LoopTyped, Works, Setting, Between
<1>2. LoopOK(U)' BY DEF LoopTyped, LoopOK, Works, Setting, Between
<1>3. RowsOK(K)' BY DEF LoopTyped, RowsOK, Works, AttemptsLeft
<1>4. HoldsRow' BY DEF LoopTyped, HoldsRow, Works
<1>5. Exclusive' BY DEF LoopTyped, Exclusive, Owns, Works
<1>6. RowsMove(K) BY DEF LoopTyped, RowsOK, RowsMove, RowMoves, Works
<1> QED BY <1>1, <1>2, <1>3, <1>4, <1>5, <1>6

LEMMA LetsGoKeepsLoop ==
  ASSUME NEW K, NEW D, NEW U, Setting(K, D, U), LoopInv(K, D, U),
         NEW w \in Workers, LetsGo(w, K)
  PROVE LoopInv(K, D, U)' /\ RowsMove(K)
<1> USE DEF LoopInv
<1>1. LoopTyped(K, D, U)'
  <2>1. budget.crashes + 1 \in Nat /\ budget \in [raises : Nat, lapses : Nat, crashes : Nat, lost : SUBSET K]
      BY DEF LoopTyped
  <2>2. budget' \in [raises : Nat, lapses : Nat, crashes : Nat, lost : SUBSET K]
    <3>1. ASSUME NEW lost \in SUBSET K
          PROVE  [budget EXCEPT !.crashes = budget.crashes + 1, !.lost = lost]
                   \in [raises : Nat, lapses : Nat, crashes : Nat, lost : SUBSET K]
        BY <2>1
    <3> QED BY <2>1, <3>1 DEF LetsGo
  <2>3. PICK where \in {"idle", "dead"} : Drop(w, where) BY DEF LetsGo
  <2>4. UNCHANGED jobs BY DEF LetsGo
  <2> QED BY <2>2, <2>3, <2>4 DEF LoopTyped, Drop, Goto, Between
<1>2. LoopOK(U)' BY DEF LoopTyped, LoopOK, LetsGo, Drop, Goto, Setting
<1>3. RowsOK(K)' BY DEF LoopTyped, RowsOK, LetsGo, Drop, Goto, AttemptsLeft
<1>4. HoldsRow' BY DEF LoopTyped, HoldsRow, LetsGo, Drop, Goto
<1>5. Exclusive' BY DEF LoopTyped, Exclusive, Owns, LetsGo, Drop, Goto
<1>6. RowsMove(K) BY DEF LoopTyped, RowsOK, RowsMove, RowMoves, LetsGo, Drop, Goto
<1> QED BY <1>1, <1>2, <1>3, <1>4, <1>5, <1>6

LEMMA BeginKeepsLoop ==
  ASSUME NEW K, NEW D, NEW U, Setting(K, D, U), LoopInv(K, D, U),
         db \in D, NEW w \in Workers, NEW units \in SUBSET U, BeginAt(w, units)
  PROVE LoopInv(K, D, U)' /\ RowsMove(K)
<1> USE DEF LoopInv
<1>1. LoopTyped(K, D, U)' BY DEF LoopTyped, BeginAt
<1>2. LoopOK(U)' BY DEF LoopTyped, LoopOK, BeginAt, Setting
<1>3. RowsOK(K)' BY DEF LoopTyped, RowsOK, BeginAt, AttemptsLeft
<1>4. HoldsRow' BY DEF LoopTyped, HoldsRow, BeginAt
<1>5. Exclusive' BY DEF LoopTyped, Exclusive, Owns, BeginAt
<1>6. RowsMove(K) BY DEF LoopTyped, RowsOK, RowsMove, RowMoves, BeginAt
<1> QED BY <1>1, <1>2, <1>3, <1>4, <1>5, <1>6

LEMMA EnqueuedKeepsLoop ==
  ASSUME NEW K, NEW D, NEW U, Setting(K, D, U), LoopInv(K, D, U),
         NEW keys \in SUBSET K, jobs' = Enqueued(jobs, keys), UNCHANGED <<workerVars, budget>>
  PROVE LoopInv(K, D, U)' /\ RowsMove(K)
<1> USE DEF LoopInv
<1>1. LoopTyped(K, D, U)' BY LoopAssumption DEF LoopTyped, Enqueued, workerVars, JobRow
<1>2. LoopOK(U)' BY LoopAssumption DEF LoopTyped, LoopOK, Enqueued, workerVars
<1>3. RowsOK(K)' BY LoopAssumption DEF LoopTyped, RowsOK, Enqueued, workerVars, AttemptsLeft, JobRow
<1>4. HoldsRow' BY DEF LoopTyped, HoldsRow, Enqueued, workerVars
<1>5. Exclusive' BY DEF LoopTyped, Exclusive, Owns, Enqueued, workerVars
<1>6. RowsMove(K) BY DEF LoopTyped, RowsOK, RowsMove, RowMoves, Enqueued, workerVars
<1> QED BY <1>1, <1>2, <1>3, <1>4, <1>5, <1>6

LEMMA EnqueueOneKeepsLoop ==
  ASSUME NEW K, NEW D, NEW U, Setting(K, D, U), LoopInv(K, D, U),
         NEW w \in Workers, NEW j \in todo[w], EnqueueOne(w, j)
  PROVE LoopInv(K, D, U)' /\ RowsMove(K)
<1> USE DEF LoopInv
<1>1. LoopTyped(K, D, U)' BY LoopAssumption DEF LoopTyped, EnqueueOne, Enqueued, Goto, JobRow, Between
<1>2. LoopOK(U)' BY LoopAssumption DEF LoopTyped, LoopOK, EnqueueOne, Enqueued, Goto, Setting
<1>3. RowsOK(K)' BY LoopAssumption DEF LoopTyped, RowsOK, EnqueueOne, Enqueued, Goto, AttemptsLeft, JobRow
<1>4. HoldsRow' BY DEF LoopTyped, HoldsRow, EnqueueOne, Enqueued, Goto
<1>5. Exclusive' BY DEF LoopTyped, Exclusive, Owns, EnqueueOne, Enqueued, Goto
<1>6. RowsMove(K) BY DEF LoopTyped, RowsOK, RowsMove, RowMoves, EnqueueOne, Enqueued, Goto
<1> QED BY <1>1, <1>2, <1>3, <1>4, <1>5, <1>6

LEMMA ClaimKeepsLoop ==
  ASSUME NEW K, NEW D, NEW U, Setting(K, D, U), LoopInv(K, D, U),
         NEW w \in Workers, NEW j \in K, NEW unit \in U \ {"terminal"}, ClaimFor(w, j, unit)
  PROVE LoopInv(K, D, U)' /\ RowsMove(K)
<1> USE DEF LoopInv
<1>1. LoopTyped(K, D, U)' BY LoopAssumption DEF LoopTyped, ClaimFor, JobRow, RowsOK, AttemptsLeft
<1>2. LoopOK(U)' BY LoopAssumption DEF LoopTyped, LoopOK, ClaimFor, Setting
<1>3. RowsOK(K)' BY LoopAssumption DEF LoopTyped, RowsOK, ClaimFor, AttemptsLeft, JobRow
<1>4. HoldsRow' BY LoopAssumption DEF LoopTyped, HoldsRow, ClaimFor
<1>5. Exclusive' BY DEF LoopTyped, Exclusive, Owns, ClaimFor, LoopOK
<1>6. RowsMove(K) BY DEF LoopTyped, RowsOK, RowsMove, RowMoves, ClaimFor, AttemptsLeft
<1> QED BY <1>1, <1>2, <1>3, <1>4, <1>5, <1>6


\* A job that is settled, or whose lease ran out, goes from running to done, back
\* to the queue, or to its end, and loses its owner.
LEMMA ReleaseMoves ==
  ASSUME NEW K, jobs \in [K -> JobRow], RowsOK(K), NEW j \in K, jobs[j].status = "running",
         NEW status \in {"queued", "done", "failed"}, jobs' = Released(j, status),
         status # "done" => status = IF Exhausted(j) THEN "failed" ELSE "queued"
  PROVE /\ jobs' \in [K -> JobRow] /\ RowsOK(K)' /\ RowsMove(K)
        /\ jobs'[j].status = status /\ jobs'[j].owner = None
        /\ \A k \in K \ {j} : jobs'[k] = jobs[k]
<1> DEFINE row == [jobs[j] EXCEPT !.status = status, !.owner = None]
<1>1. jobs[j] \in JobRow OBVIOUS
<1>2. /\ row \in JobRow
      /\ row.status = status /\ row.owner = None /\ row.attempt = jobs[j].attempt
    BY <1>1 DEF JobRow
<1>3. jobs' = [jobs EXCEPT ![j] = row] BY DEF Released
<1> HIDE DEF row
<1>4. jobs[j].attempt \in 0..MaxAttempts BY <1>1 DEF JobRow
<1>5. AttemptsLeft(row) BY <1>2, <1>4, LoopAssumption DEF AttemptsLeft, Exhausted
<1>6. RowMoves(jobs[j], row) BY <1>2, <1>4, LoopAssumption DEF RowMoves, Exhausted
<1>7. jobs' \in [K -> JobRow] BY <1>2, <1>3
<1>8. RowsOK(K)' BY <1>3, <1>5 DEF RowsOK
<1>9. RowsMove(K) BY <1>3, <1>6 DEF RowsMove, RowMoves
<1> QED BY <1>2, <1>3, <1>7, <1>8, <1>9

LEMMA SettleKeepsLoop ==
  ASSUME NEW K, NEW D, NEW U, Setting(K, D, U), LoopInv(K, D, U),
         NEW w \in Workers, Settle(w)
  PROVE LoopInv(K, D, U)' /\ RowsMove(K)
<1>1. CASE ~Owns(w)
  <2>1. LetsGo(w, K) BY <1>1 DEF Settle, LetsGo
  <2> QED BY <2>1, LetsGoKeepsLoop
<1>2. CASE Owns(w)
  <2> DEFINE j == job[w]
  <2>1. j \in K /\ jobs[j].status = "running" /\ jobs[j].owner = w /\ jobs \in [K -> JobRow]
      BY <1>2 DEF LoopInv, LoopTyped, LoopOK, Settle, Owns
  <2>2. jobs' = Released(j, "done") BY <1>2 DEF Settle
  <2>3. jobs' \in [K -> JobRow] /\ RowsOK(K)' /\ RowsMove(K)
      BY <2>1, <2>2, ReleaseMoves DEF LoopInv
  <2>4. /\ jobs'[j].status = "done" /\ jobs'[j].owner = None
        /\ \A k \in K \ {j} : jobs'[k] = jobs[k]
      BY <2>1, <2>2, ReleaseMoves DEF LoopInv
  <2>5. LoopTyped(K, D, U)' BY <1>2, <2>3 DEF LoopInv, LoopTyped, Settle, Drop, Goto, Between
  <2>6. LoopOK(U)' BY <1>2, <2>1, <2>3, <2>4 DEF LoopInv, LoopTyped, LoopOK, Settle, Drop, Goto, Setting
  <2>7. HoldsRow' BY <1>2, <2>3, <2>4 DEF LoopInv, LoopTyped, HoldsRow, Settle, Drop, Goto
  <2>8. Exclusive' BY <1>2, <2>1, <2>4 DEF LoopInv, LoopTyped, LoopOK, Exclusive, Owns, Settle, Drop, Goto
  <2> QED BY <2>3, <2>5, <2>6, <2>7, <2>8 DEF LoopInv
<1> QED BY <1>1, <1>2

LEMMA FailKeepsLoop ==
  ASSUME NEW K, NEW D, NEW U, Setting(K, D, U), LoopInv(K, D, U),
         NEW w \in Workers, Fail(w)
  PROVE LoopInv(K, D, U)' /\ RowsMove(K)
<1>1. CASE ~Owns(w)
  <2>1. LetsGo(w, K) BY <1>1 DEF Fail, LetsGo
  <2> QED BY <2>1, LetsGoKeepsLoop
<1>2. CASE Owns(w)
  <2> DEFINE j == job[w]
             end == IF Exhausted(j) THEN "failed" ELSE "queued"
  <2>1. j \in K /\ jobs[j].status = "running" /\ jobs[j].owner = w /\ jobs \in [K -> JobRow]
      BY <1>2 DEF LoopInv, LoopTyped, LoopOK, Fail, Owns
  <2>2. jobs' = Released(j, end) BY <1>2 DEF Fail
  <2>3. jobs' \in [K -> JobRow] /\ RowsOK(K)' /\ RowsMove(K)
      BY <2>1, <2>2, ReleaseMoves DEF LoopInv
  <2>4. /\ jobs'[j].status = end /\ jobs'[j].owner = None
        /\ \A k \in K \ {j} : jobs'[k] = jobs[k]
      BY <2>1, <2>2, ReleaseMoves DEF LoopInv
  <2>5. \/ end = "failed" /\ Goto(w, "terminal", {}) /\ job' = job
        \/ Drop(w, "idle")
      BY <1>2 DEF Fail
  <2>6. UNCHANGED budget BY DEF Fail
  <2>7. LoopTyped(K, D, U)' BY <2>3, <2>5, <2>6 DEF LoopInv, LoopTyped, Drop, Goto, Between, Setting
  <2>8. LoopOK(U)'
    <3>1. pc[w] = "raised" BY DEF Fail
    <3> QED BY <2>1, <2>3, <2>4, <2>5, <3>1 DEF LoopInv, LoopTyped, LoopOK, Drop, Goto, Setting
  <2>9. HoldsRow' BY <2>4, <2>5 DEF LoopInv, LoopTyped, HoldsRow, Drop, Goto
  <2>10. Exclusive'
      BY <2>1, <2>4, <2>5, <2>6 DEF LoopInv, LoopTyped, LoopOK, Exclusive, Owns, Drop, Goto
  <2> QED BY <2>3, <2>7, <2>8, <2>9, <2>10 DEF LoopInv
<1> QED BY <1>1, <1>2

LEMMA LapseKeepsLoop ==
  ASSUME NEW K, NEW D, NEW U, Setting(K, D, U), LoopInv(K, D, U),
         NEW j \in K, Lapse(j)
  PROVE LoopInv(K, D, U)' /\ RowsMove(K)
<1> DEFINE end == IF Exhausted(j) THEN "failed" ELSE "queued"
           slow == jobs[j].owner # None /\ job[jobs[j].owner] = j
<1>1. jobs[j].status = "running" /\ jobs \in [K -> JobRow]
    BY DEF LoopInv, LoopTyped, Lapse
<1>2. jobs' = Released(j, end) BY DEF Lapse
<1>3. jobs' \in [K -> JobRow] /\ RowsOK(K)' /\ RowsMove(K)
    BY <1>1, <1>2, ReleaseMoves DEF LoopInv
<1>4. /\ jobs'[j].status = end /\ jobs'[j].owner = None
      /\ \A k \in K \ {j} : jobs'[k] = jobs[k]
    BY <1>1, <1>2, ReleaseMoves DEF LoopInv
<1>5. UNCHANGED workerVars /\ budget' = [budget EXCEPT !.lapses = @ + (IF slow THEN 1 ELSE 0)]
    BY DEF Lapse
<1>6. LoopTyped(K, D, U)' BY <1>3, <1>5 DEF LoopInv, LoopTyped, workerVars
<1>7. LoopOK(U)' BY <1>1, <1>3, <1>4, <1>5 DEF LoopInv, LoopTyped, LoopOK, workerVars
<1>8. HoldsRow' BY <1>4, <1>5 DEF LoopInv, LoopTyped, HoldsRow, workerVars
<1>9. Exclusive'
  <2> SUFFICES ASSUME budget'.lapses = 0, NEW w \in Workers, job[w] # None
               PROVE (IF pc[w] = "terminal" THEN jobs[job[w]].status = "failed" ELSE Owns(w))'
      BY <1>5 DEF Exclusive, workerVars
  <2>1. budget.lapses = 0 /\ ~slow BY <1>5 DEF LoopInv, LoopTyped
  <2>2. IF pc[w] = "terminal" THEN jobs[job[w]].status = "failed" ELSE Owns(w)
      BY <2>1 DEF LoopInv, Exclusive
  <2>3. job[w] # j BY <2>1, <2>2, <1>1, LoopAssumption DEF Owns
  <2> QED BY <2>2, <2>3, <1>4, <1>5 DEF LoopInv, LoopTyped, Owns, workerVars
<1> QED BY <1>3, <1>6, <1>7, <1>8, <1>9 DEF LoopInv

\* A provider that fails, a crash and a restart are steps of the two kinds.
LEMMA ProviderFailsWorks ==
  ASSUME NEW K, NEW D, NEW U, Setting(K, D, U), LoopInv(K, D, U),
         NEW w \in Workers, ProviderFails(w)
  PROVE Works(w, K, D, U)
BY DEF ProviderFails, Works, Goto, Between, Setting

LEMMA CrashOrRestartLetsGo ==
  ASSUME NEW K, NEW D, NEW U, LoopInv(K, D, U),
         NEW w \in Workers, CrashWorker(w) \/ Restart(w)
  PROVE LetsGo(w, K)
<1>1. CASE CrashWorker(w)
  <2>1. budget.lost \union todo[w] \in SUBSET K BY DEF LoopInv, LoopTyped
  <2> QED BY <1>1, <2>1 DEF CrashWorker, LetsGo
<1>2. CASE Restart(w) BY <1>2 DEF Restart, LetsGo
<1> QED BY <1>1, <1>2

\* A handler that goes on after a unit of work.
LEMMA GotoWorks ==
  ASSUME NEW K, NEW D, NEW U, Setting(K, D, U), LoopInv(K, D, U), NEW w \in Workers,
         pc[w] \in U \union {"calling"}, pc[w] # "terminal",
         NEW where \in (U \union Between) \ {"idle", "dead", "terminal"}, NEW keys \in SUBSET K,
         where = "enqueue" <=> keys # {},
         Goto(w, where, keys), UNCHANGED <<jobs, job, budget>>
  PROVE  Works(w, K, D, U)
BY DEF Works, Goto

LEMMA ReportLetsGo ==
  ASSUME NEW K, NEW w \in Workers, NEW where \in {"idle", "dead"}, Drop(w, where),
         UNCHANGED <<jobs, budget>>
  PROVE  LetsGo(w, K)
BY DEF LetsGo

-----------------------------------------------------------------------------
(* Only an enqueue adds a row.                                             *)

NoNewRows(K) == \A k \in K : jobs[k].status = "absent" => jobs'[k].status = "absent"

LEMMA OnlyEnqueuesAdd ==
  ASSUME NEW K, NEW D, NEW U, Setting(K, D, U), LoopInv(K, D, U),
         \/ \E w \in Workers : Settle(w) \/ Fail(w)
         \/ \E w \in Workers, j \in K, unit \in U : ClaimFor(w, j, unit)
         \/ \E j \in K : Lapse(j)
  PROVE  NoNewRows(K)
<1> USE DEF LoopInv, LoopTyped
<1>1. ASSUME NEW j \in K, NEW status, jobs' = Released(j, status), jobs[j].status # "absent"
      PROVE  NoNewRows(K)
    BY <1>1 DEF Released, NoNewRows
<1>2. ASSUME NEW w \in Workers, Settle(w) PROVE NoNewRows(K)
  <2>1. job[w] \in K BY <1>2 DEF Settle, LoopOK
  <2>2. CASE Owns(w) BY <1>1, <1>2, <2>1, <2>2 DEF Settle, Owns
  <2>3. CASE ~Owns(w) BY <1>2, <2>3 DEF Settle, NoNewRows
  <2> QED BY <2>2, <2>3
<1>3. ASSUME NEW w \in Workers, Fail(w) PROVE NoNewRows(K)
  <2>1. job[w] \in K BY <1>3 DEF Fail, LoopOK
  <2>2. CASE Owns(w) BY <1>1, <1>3, <2>1, <2>2 DEF Fail, Owns
  <2>3. CASE ~Owns(w) BY <1>3, <2>3 DEF Fail, NoNewRows
  <2> QED BY <2>2, <2>3
<1>4. ASSUME NEW j \in K, Lapse(j) PROVE NoNewRows(K) BY <1>1, <1>4 DEF Lapse
<1>5. ASSUME NEW w \in Workers, NEW j \in K, NEW unit, ClaimFor(w, j, unit) PROVE NoNewRows(K)
    BY <1>5 DEF ClaimFor, NoNewRows
<1> QED BY <1>2, <1>3, <1>4, <1>5

LEMMA EnqueuedAdds ==
  ASSUME NEW K, NEW D, NEW U, LoopInv(K, D, U), NEW keys \in SUBSET K, jobs' = Enqueued(jobs, keys),
         NEW k \in K, jobs'[k].status # "absent"
  PROVE  jobs[k].status # "absent" \/ k \in keys
BY DEF Enqueued, LoopInv, LoopTyped

=============================================================================
