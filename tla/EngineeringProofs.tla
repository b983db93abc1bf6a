------------------------- MODULE EngineeringProofs -------------------------
(***************************************************************************)
(* Proofs about Engineering for every number of workers, attempts and      *)
(* repairs, and every number of provider failures, lapses and crashes.     *)
(***************************************************************************)
EXTENDS Engineering, WorkerLoopProofs

Loop == LoopInv(Jobs, Database, UnitsOfWork)

\* The worker that calls a provider or stores what it answered holds what its
\* handler has read.
TypeInv ==
  /\ db \in Database
  /\ api \in {"new", "committed", "planning", "done", "dead"}
  /\ Loop
  /\ \A w \in Workers : pc[w] \in {"calling", "store"} => view[w] # None

-----------------------------------------------------------------------------
(* The constants.                                                          *)

LEMMA Places == Setting(Jobs, Database, UnitsOfWork)
BY NoneAssumption DEF Setting, UnitsOfWork

LEMMA CyclesType ==
  /\ Cycles \subseteq Nat /\ 0 \in Cycles /\ 0..MaxRepairs \subseteq Cycles
  /\ \A c \in 0..MaxRepairs - 1 : c \in Cycles /\ c + 1 \in Cycles
BY MaxRepairsAssumption DEF Cycles

LEMMA SlotsOf ==
  /\ \A c \in Cycles : \A r \in RolesOf(c) : <<r, c>> \in Slots
  /\ \A r \in IMPLEMENTER_ROLES : <<r, 0>> \in Slots
  /\ \A c \in Cycles : c > 0 => <<"repair_engineer", c>> \in Slots
BY CyclesType DEF Slots, RolesOf, IMPLEMENTER_ROLES

\* What each type of job carries.
LEMMA JobParts ==
  ASSUME NEW j \in Jobs
  PROVE  /\ j.type \in {"PLAN", "IMPLEMENT", "TEST", "REVIEW", "REPAIR"}
         /\ j.cycle \in Cycles
         /\ j.type = "PLAN" => j = PlanJob
         /\ j.type = "IMPLEMENT" => j.role \in IMPLEMENTER_ROLES /\ j = ImplementJob(j.role)
         /\ j.type = "TEST" => j = TestJob(j.cycle)
         /\ j.type = "REVIEW" => j = ReviewJob(j.cycle)
         /\ j.type = "REPAIR" => j.cycle \in 0..MaxRepairs - 1 /\ j = RepairJob(j.cycle)
BY CyclesType DEF Jobs, PlanJob, ImplementJob, TestJob, ReviewJob, RepairJob, Job

LEMMA JobsAre ==
  /\ PlanJob \in Jobs
  /\ \A r \in IMPLEMENTER_ROLES : ImplementJob(r) \in Jobs
  /\ \A c \in Cycles : TestJob(c) \in Jobs /\ ReviewJob(c) \in Jobs
  /\ \A c \in 0..MaxRepairs - 1 : RepairJob(c) \in Jobs
BY DEF Jobs

\* Jobs of different types or cycles are different.
LEMMA JobTypes ==
  /\ PlanJob.type = "PLAN" /\ PlanJob.cycle = 0
  /\ \A r \in IMPLEMENTER_ROLES : ImplementJob(r).type = "IMPLEMENT" /\ ImplementJob(r).role = r
  /\ \A c \in Nat : /\ TestJob(c).type = "TEST" /\ TestJob(c).cycle = c
                    /\ ReviewJob(c).type = "REVIEW" /\ ReviewJob(c).cycle = c
                    /\ RepairJob(c).type = "REPAIR" /\ RepairJob(c).cycle = c
BY DEF PlanJob, ImplementJob, TestJob, ReviewJob, RepairJob, Job

-----------------------------------------------------------------------------
(* What each commit makes of the rows.                                     *)

RowsKept ==
  /\ db'.plans = db.plans /\ db'.files = db.files
  /\ db'.reviews = db.reviews /\ db'.checks = db.checks

LEMMA StatusCommit ==
  ASSUME db \in Database, NEW target \in EngineeringStatus, db' = [db EXCEPT !.status = target]
  PROVE  db' \in Database /\ db'.status = target /\ db'.repairs = db.repairs /\ RowsKept
BY DEF Database, RowsKept

LEMMA RepairCommit ==
  ASSUME db \in Database, NEW n \in Cycles, db' = [db EXCEPT !.status = "TESTING", !.repairs = n]
  PROVE  db' \in Database /\ db'.status = "TESTING" /\ db'.repairs = n /\ RowsKept
BY DEF Database, RowsKept, EngineeringStatus

LEMMA PlanCommit ==
  ASSUME db \in Database, db' = [db EXCEPT !.plans = @ + 1]
  PROVE  /\ db' \in Database /\ db'.status = db.status /\ db'.repairs = db.repairs
         /\ db'.plans = db.plans + 1
         /\ db'.files = db.files /\ db'.reviews = db.reviews /\ db'.checks = db.checks
<1>1. db.plans + 1 \in Nat BY DEF Database
<1> QED BY <1>1 DEF Database

LEMMA FilesCommit ==
  ASSUME db \in Database, NEW slot \in Slots, NEW clean \in BOOLEAN,
         db' = [db EXCEPT !.files[slot] = Append(@, clean)]
  PROVE  /\ db' \in Database /\ db'.status = db.status /\ db'.repairs = db.repairs
         /\ db'.plans = db.plans /\ db'.reviews = db.reviews /\ db'.checks = db.checks
         /\ db'.files[slot] = Append(db.files[slot], clean)
         /\ db'.files[slot] # <<>>
         /\ \A s \in Slots : s # slot => db'.files[s] = db.files[s]
<1> DEFINE new == [db.files EXCEPT ![slot] = Append(@, clean)]
<1>1. db.files \in [Slots -> Seq(BOOLEAN)] BY DEF Database
<1>2. Append(db.files[slot], clean) \in Seq(BOOLEAN) /\ Append(db.files[slot], clean) # <<>> BY <1>1
<1>3. /\ new \in [Slots -> Seq(BOOLEAN)] /\ new[slot] = Append(db.files[slot], clean)
      /\ \A s \in Slots : s # slot => new[s] = db.files[s]
    BY <1>1, <1>2
<1>4. db' = [db EXCEPT !.files = new] OBVIOUS
<1> HIDE DEF new
<1>5. /\ db' \in Database /\ db'.files = new /\ db'.status = db.status /\ db'.repairs = db.repairs
      /\ db'.plans = db.plans /\ db'.reviews = db.reviews /\ db'.checks = db.checks
    BY <1>3, <1>4 DEF Database
<1> QED BY <1>2, <1>3, <1>5

LEMMA ChecksCommit ==
  ASSUME db \in Database, NEW c \in Cycles, NEW passed \in BOOLEAN,
         db' = [db EXCEPT !.checks[c] = @ \union {passed}]
  PROVE  /\ db' \in Database /\ db'.status = db.status /\ db'.repairs = db.repairs
         /\ db'.plans = db.plans /\ db'.files = db.files /\ db'.reviews = db.reviews
         /\ db'.checks[c] = db.checks[c] \union {passed}
         /\ \A k \in Cycles : k # c => db'.checks[k] = db.checks[k]
<1> DEFINE new == [db.checks EXCEPT ![c] = @ \union {passed}]
<1>1. db.checks \in [Cycles -> SUBSET BOOLEAN] BY DEF Database
<1>2. /\ new \in [Cycles -> SUBSET BOOLEAN] /\ new[c] = db.checks[c] \union {passed}
      /\ \A k \in Cycles : k # c => new[k] = db.checks[k]
    BY <1>1
<1>3. db' = [db EXCEPT !.checks = new] OBVIOUS
<1> HIDE DEF new
<1>4. /\ db' \in Database /\ db'.checks = new /\ db'.status = db.status /\ db'.repairs = db.repairs
      /\ db'.plans = db.plans /\ db'.files = db.files /\ db'.reviews = db.reviews
    BY <1>2, <1>3 DEF Database
<1> QED BY <1>2, <1>4

LEMMA ReviewCommit ==
  ASSUME db \in Database, NEW c \in Cycles, NEW reviews \in Seq(BOOLEAN),
         db' = [db EXCEPT !.reviews[c] = reviews]
  PROVE  /\ db' \in Database /\ db'.status = db.status /\ db'.repairs = db.repairs
         /\ db'.plans = db.plans /\ db'.files = db.files /\ db'.checks = db.checks
         /\ db'.reviews[c] = reviews
         /\ \A k \in Cycles : k # c => db'.reviews[k] = db.reviews[k]
<1> DEFINE new == [db.reviews EXCEPT ![c] = reviews]
<1>1. db.reviews \in [Cycles -> Seq(BOOLEAN)] BY DEF Database
<1>2. /\ new \in [Cycles -> Seq(BOOLEAN)] /\ new[c] = reviews
      /\ \A k \in Cycles : k # c => new[k] = db.reviews[k]
    BY <1>1
<1>3. db' = [db EXCEPT !.reviews = new] OBVIOUS
<1> HIDE DEF new
<1>4. /\ db' \in Database /\ db'.reviews = new /\ db'.status = db.status /\ db'.repairs = db.repairs
      /\ db'.plans = db.plans /\ db'.files = db.files /\ db'.checks = db.checks
    BY <1>2, <1>3 DEF Database
<1> QED BY <1>2, <1>4

-----------------------------------------------------------------------------
(* Types.                                                                  *)

LEMMA InitTypes == Init => TypeInv
<1> SUFFICES ASSUME Init PROVE TypeInv OBVIOUS
<1>1. db \in Database BY CyclesType DEF Init, Database, EngineeringStatus
<1>2. Loop BY Places, InitLoop DEF Init, Loop
<1>3. \A w \in Workers : pc[w] = "idle" BY DEF Init, LoopInit
<1> QED BY <1>1, <1>2, <1>3 DEF TypeInv, Init

\* What a unit of work reads is a database.
LEMMA ReadsType ==
  ASSUME TypeInv, NEW w \in Workers, view[w] # None, NEW v \in Reads(w)
  PROVE  /\ view[w] \in Database /\ v \in Database
         /\ v.status = view[w].status /\ v.repairs = view[w].repairs
         /\ \/ v = view[w]
            \/ /\ v.plans = db.plans /\ v.files = db.files
               /\ v.reviews = db.reviews /\ v.checks = db.checks
<1>1. view[w] \in Database /\ db \in Database BY DEF TypeInv, Loop, LoopInv, LoopTyped
<1> QED BY <1>1 DEF Reads, Database

\* The worker is at a unit of work; where it goes it is typed.
LEMMA WorksTyped ==
  ASSUME TypeInv, NEW w \in Workers, Works(w, Jobs, Database, UnitsOfWork),
         db' \in Database, UNCHANGED api, pc'[w] \in {"calling", "store"} => view'[w] # None
  PROVE  TypeInv'
<1>1. Loop' BY Places, WorksKeepsLoop DEF TypeInv, Loop
<1>2. \A u \in Workers : u # w => pc'[u] = pc[u] /\ view'[u] = view[u]
    BY DEF Works, TypeInv, Loop, LoopInv, LoopTyped
<1> QED BY <1>1, <1>2 DEF TypeInv

\* The places a handler goes to from a unit of work.
OnTheWay == (UnitsOfWork \union Between) \ {"idle", "dead", "terminal", "calling", "store"}

LEMMA Going ==
  ASSUME TypeInv, NEW w \in Workers, pc[w] \in UnitsOfWork \ {"terminal"},
         NEW where \in OnTheWay, NEW keys \in SUBSET Jobs, where = "enqueue" <=> keys # {},
         Goto(w, where, keys), db' \in Database, UNCHANGED <<jobs, api, job, budget>>
  PROVE  Works(w, Jobs, Database, UnitsOfWork) /\ TypeInv'
<1>1. Works(w, Jobs, Database, UnitsOfWork) BY Places, GotoWorks DEF TypeInv, Loop, OnTheWay
<1>2. pc'[w] = where BY DEF Goto, TypeInv, Loop, LoopInv, LoopTyped
<1> QED BY <1>1, <1>2, WorksTyped DEF OnTheWay

LEMMA Storing ==
  ASSUME TypeInv, NEW w \in Workers, pc[w] = "store", NEW where \in {"advance", "approve", "reject"},
         Goto(w, where, {}), db' \in Database, UNCHANGED <<jobs, api, job, budget>>
  PROVE  Works(w, Jobs, Database, UnitsOfWork) /\ TypeInv'
<1>1. pc[w] \in UnitsOfWork \ {"terminal"} /\ where \in OnTheWay /\ where # "enqueue"
    BY DEF OnTheWay, Between, UnitsOfWork
<1>2. {} \in SUBSET Jobs OBVIOUS
<1> QED BY <1>1, <1>2, Going

LEMMA Returning ==
  ASSUME TypeInv, NEW w \in Workers, pc[w] \in UnitsOfWork \ {"terminal"},
         NEW where \in OnTheWay, NEW keys \in SUBSET Jobs, where = "enqueue" <=> keys # {},
         Return(w, where, keys)
  PROVE  Works(w, Jobs, Database, UnitsOfWork) /\ TypeInv'
BY Going DEF Return, TypeInv

LEMMA Raising ==
  ASSUME TypeInv, NEW w \in Workers, pc[w] \in UnitsOfWork \ {"terminal"}, Raise(w)
  PROVE  Works(w, Jobs, Database, UnitsOfWork) /\ TypeInv'
BY Returning DEF Raise, OnTheWay, Between, UnitsOfWork

LEMMA Committing ==
  ASSUME TypeInv, NEW w \in Workers, pc[w] \in UnitsOfWork \ {"terminal"},
         NEW where \in OnTheWay, NEW keys \in SUBSET Jobs, where = "enqueue" <=> keys # {},
         NEW new \in Database, Commit(w, new, where, keys)
  PROVE  Works(w, Jobs, Database, UnitsOfWork) /\ TypeInv'
BY Going DEF Commit

LEMMA Holding ==
  ASSUME TypeInv, NEW w \in Workers, pc[w] \in UnitsOfWork \ {"terminal"},
         NEW where \in {"calling", "store"}, NEW v \in Database, Hold(w, where, v)
  PROVE  Works(w, Jobs, Database, UnitsOfWork) /\ TypeInv'
<1>1. todo[w] = {} /\ v # None BY NoneAssumption DEF TypeInv, Loop, LoopInv, LoopOK, UnitsOfWork
<1>2. todo' = [todo EXCEPT ![w] = {}] BY <1>1 DEF Hold, TypeInv, Loop, LoopInv, LoopTyped
<1>3. Works(w, Jobs, Database, UnitsOfWork) BY <1>1, <1>2 DEF Works, Hold, UnitsOfWork
<1>4. view'[w] = v BY DEF Hold, TypeInv, Loop, LoopInv, LoopTyped
<1>5. db' \in Database /\ api' = api BY DEF Hold, TypeInv
<1> QED BY <1>1, <1>3, <1>4, <1>5, WorksTyped

\* update_status moves the run, or raises and leaves it alone.
LEMMA StatusMoves ==
  ASSUME TypeInv, NEW w \in Workers, pc[w] \in UnitsOfWork \ {"terminal"}, view[w] # None,
         NEW target \in EngineeringStatus, NEW keys \in SUBSET Jobs, CommitStatus(w, target, keys)
  PROVE  /\ Works(w, Jobs, Database, UnitsOfWork) /\ TypeInv'
         /\ \/ UNCHANGED db
            \/ /\ db'.status = target /\ db'.repairs = db.repairs /\ RowsKept
               /\ todo'[w] = keys /\ pc'[w] = ThenEnqueue(keys)
         /\ todo'[w] \in {{}, keys}
<1>1. CASE Raise(w)
  <2>1. todo'[w] = {} /\ db' = db
      BY <1>1 DEF Raise, Return, Goto, TypeInv, Loop, LoopInv, LoopTyped
  <2> QED BY <1>1, <2>1, Raising
<1>2. CASE Commit(w, [db EXCEPT !.status = target], ThenEnqueue(keys), keys)
  <2>1. db \in Database /\ db' = [db EXCEPT !.status = target] BY <1>2 DEF Commit, TypeInv
  <2>2. /\ db' \in Database /\ db'.status = target /\ db'.repairs = db.repairs /\ RowsKept
      BY <2>1, StatusCommit
  <2>3. ThenEnqueue(keys) \in OnTheWay /\ (ThenEnqueue(keys) = "enqueue" <=> keys # {})
      BY DEF ThenEnqueue, OnTheWay, Between
  <2>4. Works(w, Jobs, Database, UnitsOfWork) /\ TypeInv' BY <1>2, <2>2, <2>3, Going DEF Commit
  <2>5. todo'[w] = keys /\ pc'[w] = ThenEnqueue(keys)
      BY <1>2 DEF Commit, Goto, TypeInv, Loop, LoopInv, LoopTyped
  <2> QED BY <2>2, <2>4, <2>5
<1> QED BY <1>1, <1>2 DEF CommitStatus

-----------------------------------------------------------------------------
(* What each handler does to the rows, and that it keeps the types.        *)

\* A handler that has read what it needs, and a provider that answers, leave the
\* rows alone and have nothing to enqueue.
LEMMA Starting ==
  ASSUME TypeInv, NEW w \in Workers,
         \/ StartPlan(w) \/ StartImplement(w) \/ StartTest(w) \/ StartReview(w) \/ StartRepair(w)
         \/ ProviderAnswers(w)
  PROVE  /\ Works(w, Jobs, Database, UnitsOfWork) /\ TypeInv'
         /\ UNCHANGED <<db, jobs, api, job, budget>> /\ todo'[w] = {}
<1> USE DEF OnTheWay, Between, UnitsOfWork
<1>1. ASSUME NEW where \in {"settle", "advance", "approve", "reject"}, Return(w, where, {}), At(w, "start")
      PROVE  /\ Works(w, Jobs, Database, UnitsOfWork) /\ TypeInv'
             /\ UNCHANGED <<db, jobs, api, job, budget>> /\ todo'[w] = {}
  <2>1. Works(w, Jobs, Database, UnitsOfWork) /\ TypeInv' BY <1>1, Returning DEF At
  <2>2. UNCHANGED <<db, jobs, api, job, budget>> /\ todo'[w] = {}
      BY <1>1 DEF Return, Goto, TypeInv, Loop, LoopInv, LoopTyped
  <2> QED BY <2>1, <2>2
<1>2. ASSUME Raise(w), At(w, "start")
      PROVE  /\ Works(w, Jobs, Database, UnitsOfWork) /\ TypeInv'
             /\ UNCHANGED <<db, jobs, api, job, budget>> /\ todo'[w] = {}
  <2>1. Works(w, Jobs, Database, UnitsOfWork) /\ TypeInv' BY <1>2, Raising DEF At
  <2>2. UNCHANGED <<db, jobs, api, job, budget>> /\ todo'[w] = {}
      BY <1>2 DEF Raise, Return, Goto, TypeInv, Loop, LoopInv, LoopTyped
  <2> QED BY <2>1, <2>2
<1>3. ASSUME NEW where \in {"calling", "store"}, NEW v \in Database, Hold(w, where, v),
             pc[w] \in {"start", "calling"}
      PROVE  /\ Works(w, Jobs, Database, UnitsOfWork) /\ TypeInv'
             /\ UNCHANGED <<db, jobs, api, job, budget>> /\ todo'[w] = {}
  <2>1. Works(w, Jobs, Database, UnitsOfWork) /\ TypeInv' BY <1>3, Holding
  <2>2. todo[w] = {} BY <1>3 DEF TypeInv, Loop, LoopInv, LoopOK
  <2> QED BY <1>3, <2>1, <2>2 DEF Hold
<1>4. ASSUME At(w, "start") PROVE \A v \in Reads(w) : v \in Database BY <1>4, ReadsType DEF At
<1>5. CASE StartPlan(w) BY <1>5, <1>1, <1>3, <1>4 DEF StartPlan, At
<1>6. CASE StartImplement(w) BY <1>6, <1>1, <1>2, <1>3, <1>4 DEF StartImplement, At
<1>7. CASE StartTest(w) BY <1>7, <1>1, <1>2, <1>3, <1>4 DEF StartTest, At
<1>8. CASE StartReview(w) BY <1>8, <1>1, <1>2, <1>3, <1>4 DEF StartReview, At, Verdict
<1>9. CASE StartRepair(w) BY <1>9, <1>1, <1>2, <1>3, <1>4 DEF StartRepair, At
<1>10. CASE ProviderAnswers(w)
  <2>1. view[w] \in Database BY <1>10 DEF ProviderAnswers, TypeInv, Loop, LoopInv, LoopTyped
  <2> QED BY <1>10, <1>3, <2>1 DEF ProviderAnswers
<1> QED BY <1>5, <1>6, <1>7, <1>8, <1>9, <1>10

LEMMA StorePlanEffect ==
  ASSUME TypeInv, NEW w \in Workers, StorePlan(w)
  PROVE  /\ Works(w, Jobs, Database, UnitsOfWork) /\ TypeInv'
         /\ job[w] = PlanJob
         /\ db'.plans = db.plans + 1 /\ db'.status = db.status /\ db'.repairs = db.repairs
         /\ db'.files = db.files /\ db'.reviews = db.reviews /\ db'.checks = db.checks
         /\ todo'[w] = {} /\ pc'[w] = "advance" /\ view'[w] = None
<1>1. job[w] = PlanJob
  <2>1. job[w] \in Jobs BY DEF StorePlan, TypeInv, Loop, LoopInv, LoopTyped, LoopOK
  <2> QED BY <2>1, JobParts DEF StorePlan
<1>2. db \in Database /\ db' = [db EXCEPT !.plans = @ + 1] BY DEF StorePlan, Commit, TypeInv
<1>3. /\ db' \in Database /\ db'.status = db.status /\ db'.repairs = db.repairs
      /\ db'.plans = db.plans + 1
      /\ db'.files = db.files /\ db'.reviews = db.reviews /\ db'.checks = db.checks
    BY <1>2, PlanCommit
<1>4. Works(w, Jobs, Database, UnitsOfWork) /\ TypeInv'
    BY <1>3, Storing DEF StorePlan, Commit
<1>5. todo'[w] = {} /\ pc'[w] = "advance" /\ view'[w] = None
    BY DEF StorePlan, Commit, Goto, TypeInv, Loop, LoopInv, LoopTyped
<1> QED BY <1>1, <1>3, <1>4, <1>5

\* Where an implementation or a repair stores its files.
SlotOf(j) == IF j.type = "IMPLEMENT" THEN <<j.role, 0>> ELSE <<"repair_engineer", j.cycle + 1>>

LEMMA SlotOfType ==
  ASSUME NEW j \in Jobs, j.type \in {"IMPLEMENT", "REPAIR"}
  PROVE  SlotOf(j) \in Slots
<1>1. CASE j.type = "IMPLEMENT" BY <1>1, JobParts, SlotsOf DEF SlotOf
<1>2. CASE j.type = "REPAIR"
  <2>1. j.cycle \in 0..MaxRepairs - 1 BY <1>2, JobParts
  <2>2. j.cycle + 1 \in Cycles /\ j.cycle + 1 > 0 BY <2>1, CyclesType
  <2> QED BY <1>2, <2>2, SlotsOf DEF SlotOf
<1> QED BY <1>1, <1>2

LEMMA StoreFilesEffect ==
  ASSUME TypeInv, NEW w \in Workers, StoreFiles(w)
  PROVE  /\ Works(w, Jobs, Database, UnitsOfWork) /\ TypeInv'
         /\ job[w] \in Jobs /\ SlotOf(job[w]) \in Slots
         /\ \E clean \in BOOLEAN : db'.files[SlotOf(job[w])] = Append(db.files[SlotOf(job[w])], clean)
         /\ db'.files[SlotOf(job[w])] # <<>>
         /\ \A s \in Slots : s # SlotOf(job[w]) => db'.files[s] = db.files[s]
         /\ db'.plans = db.plans /\ db'.status = db.status /\ db'.repairs = db.repairs
         /\ db'.reviews = db.reviews /\ db'.checks = db.checks
         /\ todo'[w] = {} /\ pc'[w] = "advance" /\ view'[w] = None
<1>1. job[w] \in Jobs BY DEF StoreFiles, TypeInv, Loop, LoopInv, LoopTyped, LoopOK
<1>2. SlotOf(job[w]) \in Slots BY <1>1, SlotOfType DEF StoreFiles
<1>3. PICK clean \in BOOLEAN :
        Commit(w, [db EXCEPT !.files[SlotOf(job[w])] = Append(@, clean)], "advance", {})
    BY DEF StoreFiles, SlotOf
<1>4. db \in Database /\ db' = [db EXCEPT !.files[SlotOf(job[w])] = Append(@, clean)]
    BY <1>3 DEF Commit, TypeInv
<1> DEFINE slot == SlotOf(job[w])
<1> HIDE DEF slot
<1>5. slot \in Slots /\ db' = [db EXCEPT !.files[slot] = Append(@, clean)] BY <1>2, <1>4 DEF slot
<1>6. /\ db' \in Database /\ db'.status = db.status /\ db'.repairs = db.repairs
      /\ db'.plans = db.plans /\ db'.reviews = db.reviews /\ db'.checks = db.checks
      /\ db'.files[slot] = Append(db.files[slot], clean)
      /\ db'.files[slot] # <<>>
      /\ \A s \in Slots : s # slot => db'.files[s] = db.files[s]
    BY <1>4, <1>5, FilesCommit
<1>7. Goto(w, "advance", {}) /\ UNCHANGED <<jobs, api, job, budget>> /\ pc[w] = "store"
    BY <1>3 DEF Commit, StoreFiles
<1>8. Works(w, Jobs, Database, UnitsOfWork) /\ TypeInv'
    BY <1>6, <1>7, Storing
<1>9. todo'[w] = {} /\ pc'[w] = "advance" /\ view'[w] = None
    BY <1>7 DEF Goto, TypeInv, Loop, LoopInv, LoopTyped
<1> QED BY <1>1, <1>2, <1>6, <1>8, <1>9 DEF slot

LEMMA StoreChecksEffect ==
  ASSUME TypeInv, NEW w \in Workers, StoreChecks(w)
  PROVE  /\ Works(w, Jobs, Database, UnitsOfWork) /\ TypeInv'
         /\ job[w] \in Jobs /\ job[w].cycle \in Cycles /\ job[w] = TestJob(job[w].cycle)
         /\ \E passed \in BOOLEAN :
              db'.checks[job[w].cycle] = db.checks[job[w].cycle] \union {passed}
         /\ \A k \in Cycles : k # job[w].cycle => db'.checks[k] = db.checks[k]
         /\ db'.plans = db.plans /\ db'.status = db.status /\ db'.repairs = db.repairs
         /\ db'.files = db.files /\ db'.reviews = db.reviews
         /\ todo'[w] = {} /\ pc'[w] = "advance" /\ view'[w] = None
<1> DEFINE c == job[w].cycle
           passed == Clean(view[w], c)
<1>1. job[w] \in Jobs BY DEF StoreChecks, TypeInv, Loop, LoopInv, LoopTyped, LoopOK
<1>2. c \in Cycles /\ job[w] = TestJob(c) BY <1>1, JobParts DEF StoreChecks
<1>3. passed \in BOOLEAN BY DEF Clean
<1>4. Commit(w, [db EXCEPT !.checks[c] = @ \union {passed}], "advance", {}) /\ pc[w] = "store"
    BY DEF StoreChecks
<1> HIDE DEF c, passed
<1>5. db \in Database /\ db' = [db EXCEPT !.checks[c] = @ \union {passed}]
    BY <1>4 DEF Commit, TypeInv
<1>6. /\ db' \in Database /\ db'.status = db.status /\ db'.repairs = db.repairs
      /\ db'.plans = db.plans /\ db'.files = db.files /\ db'.reviews = db.reviews
      /\ db'.checks[c] = db.checks[c] \union {passed}
      /\ \A k \in Cycles : k # c => db'.checks[k] = db.checks[k]
    BY <1>2, <1>3, <1>5, ChecksCommit
<1>7. Works(w, Jobs, Database, UnitsOfWork) /\ TypeInv'
    BY <1>4, <1>6, Storing DEF Commit
<1>8. todo'[w] = {} /\ pc'[w] = "advance" /\ view'[w] = None
    BY <1>4 DEF Commit, Goto, TypeInv, Loop, LoopInv, LoopTyped
<1> QED BY <1>1, <1>2, <1>3, <1>6, <1>7, <1>8 DEF c

LEMMA StoreReviewEffect ==
  ASSUME TypeInv, NEW w \in Workers, StoreReview(w)
  PROVE  /\ Works(w, Jobs, Database, UnitsOfWork) /\ TypeInv'
         /\ job[w] \in Jobs /\ job[w].cycle \in Cycles /\ job[w] = ReviewJob(job[w].cycle)
         /\ \E approve \in BOOLEAN :
              /\ db'.reviews[job[w].cycle] \in {Append(db.reviews[job[w].cycle], approve),
                                                <<approve>> \o db.reviews[job[w].cycle]}
              /\ pc'[w] = Verdict(approve, view[w], job[w].cycle)
         /\ \A k \in Cycles : k # job[w].cycle => db'.reviews[k] = db.reviews[k]
         /\ db'.plans = db.plans /\ db'.status = db.status /\ db'.repairs = db.repairs
         /\ db'.files = db.files /\ db'.checks = db.checks
         /\ todo'[w] = {} /\ view'[w] = None
<1> DEFINE c == job[w].cycle
<1>1. job[w] \in Jobs BY DEF StoreReview, TypeInv, Loop, LoopInv, LoopTyped, LoopOK
<1>2. c \in Cycles /\ job[w] = ReviewJob(c) BY <1>1, JobParts DEF StoreReview
<1>3. PICK approve \in BOOLEAN :
        \E reviews \in {Append(db.reviews[c], approve), <<approve>> \o db.reviews[c]} :
          Commit(w, [db EXCEPT !.reviews[c] = reviews], Verdict(approve, view[w], c), {})
    BY DEF StoreReview
<1> HIDE DEF c
<1>4. PICK reviews \in {Append(db.reviews[c], approve), <<approve>> \o db.reviews[c]} :
        Commit(w, [db EXCEPT !.reviews[c] = reviews], Verdict(approve, view[w], c), {})
    BY <1>3
<1>5. db.reviews[c] \in Seq(BOOLEAN) BY <1>2 DEF TypeInv, Database
<1>6. reviews \in Seq(BOOLEAN)
  <2>1. <<approve>> \in Seq(BOOLEAN) OBVIOUS
  <2>2. <<approve>> \o db.reviews[c] \in Seq(BOOLEAN) BY <1>5, <2>1
  <2>3. Append(db.reviews[c], approve) \in Seq(BOOLEAN) BY <1>5
  <2> QED BY <2>2, <2>3
<1>7. db \in Database /\ db' = [db EXCEPT !.reviews[c] = reviews] BY <1>4 DEF Commit, TypeInv
<1>8. /\ db' \in Database /\ db'.status = db.status /\ db'.repairs = db.repairs
      /\ db'.plans = db.plans /\ db'.files = db.files /\ db'.checks = db.checks
      /\ db'.reviews[c] = reviews
      /\ \A k \in Cycles : k # c => db'.reviews[k] = db.reviews[k]
    BY <1>2, <1>6, <1>7, ReviewCommit
<1>9. pc[w] = "store" BY DEF StoreReview
<1>10. PICK where \in {"approve", "reject"} : where = Verdict(approve, view[w], c) BY DEF Verdict
<1>11. Works(w, Jobs, Database, UnitsOfWork) /\ TypeInv'
  <2>1. Goto(w, where, {}) /\ UNCHANGED <<jobs, api, job, budget>> BY <1>4, <1>10 DEF Commit
  <2> QED BY <1>8, <1>9, <2>1, Storing
<1>12. todo'[w] = {} /\ pc'[w] = Verdict(approve, view[w], c) /\ view'[w] = None
    BY <1>4 DEF Commit, Goto, TypeInv, Loop, LoopInv, LoopTyped
<1> QED BY <1>1, <1>2, <1>4, <1>8, <1>11, <1>12 DEF c

\* The orchestrator moves the run to `target` and has `keys` enqueued, or leaves
\* the run alone; the rows it leaves alone in any case.
Advances(w, target, keys) ==
  /\ Works(w, Jobs, Database, UnitsOfWork) /\ TypeInv'
  /\ \/ UNCHANGED db
     \/ /\ db'.status = target /\ db'.repairs = db.repairs /\ RowsKept
        /\ todo'[w] = keys /\ pc'[w] = ThenEnqueue(keys)
  /\ todo'[w] \in {{}, keys}

LEMMA ReturnAdvances ==
  ASSUME TypeInv, NEW w \in Workers, pc[w] \in {"advance", "approve", "reject"},
         NEW target, NEW keys \in SUBSET Jobs,
         \/ Return(w, "settle", {})
         \/ keys # {} /\ Return(w, "enqueue", keys)
  PROVE  Advances(w, target, keys)
<1> USE DEF OnTheWay, Between, UnitsOfWork
<1>1. Works(w, Jobs, Database, UnitsOfWork) /\ TypeInv' BY Returning
<1>2. UNCHANGED db /\ todo'[w] \in {{}, keys} BY DEF Return, Goto, TypeInv, Loop, LoopInv, LoopTyped
<1> QED BY <1>1, <1>2 DEF Advances

LEMMA CommitAdvances ==
  ASSUME TypeInv, NEW w \in Workers, pc[w] \in {"advance", "approve", "reject"}, view[w] # None,
         NEW target \in EngineeringStatus, NEW keys \in SUBSET Jobs, CommitStatus(w, target, keys)
  PROVE  Advances(w, target, keys)
<1>1. pc[w] \in UnitsOfWork \ {"terminal"} BY DEF UnitsOfWork
<1> QED BY <1>1, StatusMoves DEF Advances

LEMMA PlanCompletedEffect ==
  ASSUME TypeInv, NEW w \in Workers, PlanCompleted(w)
  PROVE  Advances(w, "IMPLEMENTING", {ImplementJob(r) : r \in IMPLEMENTER_ROLES})
<1> DEFINE keys == {ImplementJob(r) : r \in IMPLEMENTER_ROLES}
<1>1. keys \in SUBSET Jobs /\ keys # {} BY JobsAre DEF IMPLEMENTER_ROLES
<1>2. \/ CommitStatus(w, "IMPLEMENTING", keys) \/ Return(w, "enqueue", keys)
      \/ Return(w, "settle", {})
    BY DEF PlanCompleted
<1>3. pc[w] = "advance" /\ view[w] # None BY DEF PlanCompleted, At
<1>4. "IMPLEMENTING" \in EngineeringStatus BY DEF EngineeringStatus
<1> HIDE DEF keys
<1>5. Advances(w, "IMPLEMENTING", keys) BY <1>1, <1>2, <1>3, <1>4, ReturnAdvances, CommitAdvances
<1> QED BY <1>5 DEF keys

LEMMA MaybeScheduleTestsEffect ==
  ASSUME TypeInv, NEW w \in Workers, MaybeScheduleTests(w)
  PROVE  /\ Advances(w, "TESTING", {TestJob(0)})
         /\ todo'[w] # {} => \E v \in Reads(w) : AllRoles(v)
<1>1. {TestJob(0)} \in SUBSET Jobs BY JobsAre, CyclesType
<1>2. "TESTING" \in EngineeringStatus BY DEF EngineeringStatus
<1>3. pc[w] = "advance" /\ view[w] # None BY DEF MaybeScheduleTests, At
<1>4. CASE Return(w, "settle", {})
  <2>1. todo'[w] = {} BY <1>4 DEF Return, Goto, TypeInv, Loop, LoopInv, LoopTyped
  <2> QED BY <1>1, <1>3, <1>4, <2>1, ReturnAdvances
<1>5. CASE CommitStatus(w, "TESTING", {TestJob(0)}) /\ \E v \in Reads(w) : AllRoles(v)
    BY <1>1, <1>2, <1>3, <1>5, CommitAdvances
<1> QED BY <1>4, <1>5 DEF MaybeScheduleTests

LEMMA TestsCompletedEffect ==
  ASSUME TypeInv, NEW w \in Workers, TestsCompleted(w)
  PROVE  Advances(w, "REVIEWING", {ReviewJob(view[w].repairs)})
<1>1. pc[w] = "advance" /\ view[w] # None BY DEF TestsCompleted, At
<1>2. view[w].repairs \in Cycles
  <2>1. view[w] \in Database BY <1>1 DEF TypeInv, Loop, LoopInv, LoopTyped
  <2> QED BY <2>1 DEF Database
<1>3. {ReviewJob(view[w].repairs)} \in SUBSET Jobs BY <1>2, JobsAre
<1>4. "REVIEWING" \in EngineeringStatus BY DEF EngineeringStatus
<1>5. \/ CommitStatus(w, "REVIEWING", {ReviewJob(view[w].repairs)})
      \/ Return(w, "enqueue", {ReviewJob(view[w].repairs)})
      \/ Return(w, "settle", {})
    BY DEF TestsCompleted
<1> QED BY <1>1, <1>3, <1>4, <1>5, ReturnAdvances, CommitAdvances

LEMMA ReviewCompletedEffect ==
  ASSUME TypeInv, NEW w \in Workers, ReviewCompleted(w)
  PROVE  \/ pc[w] = "approve" /\ Advances(w, "COMPLETED", {})
         \/ /\ view[w].repairs \in 0..MaxRepairs - 1
            /\ Advances(w, "REPAIRING", {RepairJob(view[w].repairs)})
         \/ Advances(w, "FAILED", {})
<1>1. pc[w] \in {"approve", "reject"} /\ view[w] # None BY DEF ReviewCompleted, At
<1>2. view[w].repairs \in Cycles
  <2>1. view[w] \in Database BY <1>1 DEF TypeInv, Loop, LoopInv, LoopTyped
  <2> QED BY <2>1 DEF Database
<1>3. {"COMPLETED", "REPAIRING", "FAILED"} \subseteq EngineeringStatus BY DEF EngineeringStatus
<1>4. CASE Return(w, "settle", {})
  <2>1. Advances(w, "FAILED", {}) BY <1>1, <1>4, ReturnAdvances
  <2> QED BY <2>1
<1>5. CASE pc[w] = "approve" /\ CommitStatus(w, "COMPLETED", {})
    BY <1>1, <1>3, <1>5, CommitAdvances
<1>6. CASE RepairsLeft(view[w]) /\ CommitStatus(w, "REPAIRING", {RepairJob(view[w].repairs)})
  <2>1. view[w].repairs \in 0..MaxRepairs - 1
    <3>1. view[w].repairs \in Nat /\ MaxRepairs \in Nat BY <1>2, MaxRepairsAssumption DEF Cycles
    <3>2. view[w].repairs < MaxRepairs BY <1>6 DEF RepairsLeft
    <3> QED BY <3>1, <3>2
  <2>2. {RepairJob(view[w].repairs)} \in SUBSET Jobs BY <2>1, JobsAre
  <2> QED BY <1>1, <1>3, <1>6, <2>1, <2>2, CommitAdvances
<1>7. CASE CommitStatus(w, "FAILED", {})
    BY <1>1, <1>3, <1>7, CommitAdvances
<1> QED BY <1>4, <1>5, <1>6, <1>7 DEF ReviewCompleted

LEMMA RepairCompletedEffect ==
  ASSUME TypeInv, NEW w \in Workers, RepairCompleted(w)
  PROVE  /\ Works(w, Jobs, Database, UnitsOfWork) /\ TypeInv'
         /\ \/ UNCHANGED db /\ todo'[w] = {}
            \/ \E seen \in {view[w], db} :
                 /\ seen.repairs + 1 \in Cycles /\ db.status \in {"IMPLEMENTING", "REPAIRING"}
                 /\ db'.status = "TESTING" /\ db'.repairs = seen.repairs + 1 /\ RowsKept
                 /\ todo'[w] = {TestJob(seen.repairs + 1)} /\ pc'[w] = "enqueue"
<1> USE DEF OnTheWay, Between, UnitsOfWork
<1>1. pc[w] = "advance" /\ view[w] # None BY DEF RepairCompleted, At
<1>2. CASE Return(w, "settle", {})
  <2>1. UNCHANGED db /\ todo'[w] = {} BY <1>2 DEF Return, Goto, TypeInv, Loop, LoopInv, LoopTyped
  <2> QED BY <1>1, <1>2, <2>1, Returning
<1>3. CASE Raise(w)
  <2>1. UNCHANGED db /\ todo'[w] = {} BY <1>3 DEF Raise, Return, Goto, TypeInv, Loop, LoopInv, LoopTyped
  <2> QED BY <1>1, <1>3, <2>1, Raising
<1>4. ASSUME "TESTING" \in Allowed[db.status], NEW seen \in {view[w], db}, seen.repairs + 1 \in Cycles,
             Commit(w, [db EXCEPT !.status = "TESTING", !.repairs = seen.repairs + 1],
                    "enqueue", {TestJob(seen.repairs + 1)})
      PROVE  /\ Works(w, Jobs, Database, UnitsOfWork) /\ TypeInv'
             /\ seen.repairs + 1 \in Cycles /\ db.status \in {"IMPLEMENTING", "REPAIRING"}
             /\ db'.status = "TESTING" /\ db'.repairs = seen.repairs + 1 /\ RowsKept
             /\ todo'[w] = {TestJob(seen.repairs + 1)} /\ pc'[w] = "enqueue"
  <2>1. db.status \in EngineeringStatus /\ db \in Database BY DEF TypeInv, Database
  <2>2. db.status \in {"IMPLEMENTING", "REPAIRING"} BY <1>4, <2>1 DEF Allowed, EngineeringStatus
  <2> DEFINE n == seen.repairs + 1
             keys == {TestJob(n)}
  <2>3. n \in Cycles /\ keys \in SUBSET Jobs /\ keys # {} BY <1>4, JobsAre
  <2>4. Commit(w, [db EXCEPT !.status = "TESTING", !.repairs = n], "enqueue", keys) BY <1>4
  <2> HIDE DEF n, keys
  <2>5. db' = [db EXCEPT !.status = "TESTING", !.repairs = n] BY <2>4 DEF Commit
  <2>6. db' \in Database /\ db'.status = "TESTING" /\ db'.repairs = n /\ RowsKept
      BY <2>1, <2>3, <2>5, RepairCommit
  <2>7. Works(w, Jobs, Database, UnitsOfWork) /\ TypeInv' BY <1>1, <2>3, <2>4, <2>6, Going DEF Commit
  <2>8. todo'[w] = keys /\ pc'[w] = "enqueue"
      BY <2>4 DEF Commit, Goto, TypeInv, Loop, LoopInv, LoopTyped
  <2> QED BY <1>4, <2>2, <2>6, <2>7, <2>8 DEF n, keys
<1> QED BY <1>2, <1>3, <1>4 DEF RepairCompleted, NextTest

LEMMA ProviderFailsEffect ==
  ASSUME TypeInv, NEW w \in Workers, ProviderFails(w)
  PROVE  /\ Works(w, Jobs, Database, UnitsOfWork) /\ TypeInv'
         /\ UNCHANGED db /\ todo'[w] = {} /\ pc'[w] = "raised" /\ view'[w] = None
<1>1. Works(w, Jobs, Database, UnitsOfWork) BY Places, ProviderFailsWorks DEF TypeInv, Loop
<1>2. UNCHANGED <<db, api>> BY DEF ProviderFails
<1>3. todo'[w] = {} /\ pc'[w] = "raised" /\ view'[w] = None
    BY DEF ProviderFails, Goto, TypeInv, Loop, LoopInv, LoopTyped
<1> QED BY <1>1, <1>2, <1>3, WorksTyped DEF TypeInv

LEMMA ReportFailureEffect ==
  ASSUME TypeInv, NEW w \in Workers, ReportFailure(w)
  PROVE  /\ LetsGo(w, Jobs) /\ db' \in Database /\ UNCHANGED <<api, jobs, budget>>
         /\ \/ UNCHANGED db
            \/ db'.status = "FAILED" /\ db'.repairs = db.repairs /\ RowsKept
<1>1. PICK where \in {"idle", "dead"} : Drop(w, where) BY DEF ReportFailure
<1>2. UNCHANGED <<jobs, api, budget>> BY DEF ReportFailure
<1>3. LetsGo(w, Jobs) BY <1>1, <1>2, ReportLetsGo
<1>4. db \in Database /\ "FAILED" \in EngineeringStatus BY DEF TypeInv, EngineeringStatus
<1>5. UNCHANGED db \/ db' = [db EXCEPT !.status = "FAILED"] BY DEF ReportFailure
<1> QED BY <1>2, <1>3, <1>4, <1>5, StatusCommit

\* The handlers in one: what a step of a handler is.
LEMMA HandlerTypes ==
  ASSUME TypeInv, NEW w \in Workers, Handler(w)
  PROVE  Works(w, Jobs, Database, UnitsOfWork) /\ TypeInv'
<1>1. ASSUME NEW target, NEW keys, Advances(w, target, keys)
      PROVE  Works(w, Jobs, Database, UnitsOfWork) /\ TypeInv'
    BY <1>1 DEF Advances
<1>2. CASE PlanCompleted(w) BY <1>1, <1>2, PlanCompletedEffect
<1>3. CASE MaybeScheduleTests(w) BY <1>1, <1>3, MaybeScheduleTestsEffect
<1>4. CASE TestsCompleted(w) BY <1>1, <1>4, TestsCompletedEffect
<1>5. CASE ReviewCompleted(w) BY <1>1, <1>5, ReviewCompletedEffect
<1>6. CASE RepairCompleted(w) BY <1>6, RepairCompletedEffect
<1>7. CASE StorePlan(w) BY <1>7, StorePlanEffect
<1>8. CASE StoreFiles(w) BY <1>8, StoreFilesEffect
<1>9. CASE StoreChecks(w) BY <1>9, StoreChecksEffect
<1>10. CASE StoreReview(w) BY <1>10, StoreReviewEffect
<1>11. CASE ProviderFails(w) BY <1>11, ProviderFailsEffect
<1> QED BY <1>2, <1>3, <1>4, <1>5, <1>6, <1>7, <1>8, <1>9, <1>10, <1>11, Starting DEF Handler

\* The steps of the loop around the handlers.
LoopStep ==
  \/ \E w \in Workers : Settle(w) \/ Fail(w) \/ CrashWorker(w) \/ Restart(w) \/ ReportFailure(w)
  \/ \E w \in Workers, j \in Jobs : Claim(w, j)
  \/ \E w \in Workers : Begin(w) \/ EnqueueNext(w)
  \/ \E j \in Jobs : Lapse(j)
  \/ CreateRun \/ Start \/ EnqueuePlan \/ CrashApi

LEMMA Steps == Next <=> LoopStep \/ \E w \in Workers : Handler(w)
BY DEF Next, LoopStep, Proceed

LEMMA LoopStepTypes ==
  ASSUME TypeInv, LoopStep
  PROVE  TypeInv'
<1> USE DEF TypeInv, Loop, LoopInv, LoopTyped
<1>1. ASSUME NEW w \in Workers, Settle(w) PROVE TypeInv'
  <2>1. Loop' BY <1>1, Places, SettleKeepsLoop
  <2> QED BY <1>1, <2>1 DEF Settle, Drop, Goto
<1>2. ASSUME NEW w \in Workers, Fail(w) PROVE TypeInv'
  <2>1. Loop' BY <1>2, Places, FailKeepsLoop
  <2> QED BY <1>2, <2>1 DEF Fail, Drop, Goto
<1>3. ASSUME NEW w \in Workers, LetsGo(w, Jobs), db' \in Database, UNCHANGED api PROVE TypeInv'
  <2>1. Loop' BY <1>3, Places, LetsGoKeepsLoop
  <2>2. PICK where \in {"idle", "dead"} : Drop(w, where) BY <1>3 DEF LetsGo
  <2> QED BY <1>3, <2>1, <2>2 DEF Drop, Goto
<1>4. ASSUME NEW w \in Workers, CrashWorker(w) \/ Restart(w) PROVE TypeInv'
  <2>1. LetsGo(w, Jobs) BY <1>4, CrashOrRestartLetsGo
  <2>2. UNCHANGED <<db, api>> BY <1>4 DEF CrashWorker, Restart
  <2> QED BY <1>3, <2>1, <2>2
<1>5. ASSUME NEW w \in Workers, ReportFailure(w) PROVE TypeInv' BY <1>3, <1>5, ReportFailureEffect
<1>6. ASSUME NEW w \in Workers, NEW j \in Jobs, Claim(w, j) PROVE TypeInv'
  <2>1. Loop' BY <1>6, Places, ClaimKeepsLoop DEF Claim, UnitsOfWork
  <2> QED BY <1>6, <2>1 DEF Claim, ClaimFor
<1>7. ASSUME NEW w \in Workers, Begin(w) PROVE TypeInv'
  <2>1. Loop' BY <1>7, Places, BeginKeepsLoop DEF Begin, UnitsOfWork
  <2> QED BY <1>7, <2>1, NoneAssumption DEF Begin, BeginAt
<1>8. ASSUME NEW w \in Workers, EnqueueNext(w) PROVE TypeInv'
  <2>1. PICK j \in todo[w] : EnqueueOne(w, j) BY <1>8 DEF EnqueueNext
  <2>2. Loop' BY <2>1, Places, EnqueueOneKeepsLoop
  <2> QED BY <2>1, <2>2 DEF EnqueueOne, Goto
<1>9. ASSUME NEW j \in Jobs, Lapse(j) PROVE TypeInv'
  <2>1. Loop' BY <1>9, Places, LapseKeepsLoop
  <2> QED BY <1>9, <2>1 DEF Lapse, workerVars
<1>10. CASE CreateRun \/ Start
  <2>1. Loop' BY <1>10, IdleKeepsLoop DEF CreateRun, Start
  <2>2. PICK target \in {"CREATED", "PLANNING"} : db' = [db EXCEPT !.status = target]
      BY <1>10 DEF CreateRun, Start
  <2>3. db' \in Database BY <2>2, StatusCommit DEF EngineeringStatus
  <2> QED BY <1>10, <2>1, <2>3 DEF CreateRun, Start, workerVars
<1>11. CASE EnqueuePlan
  <2>1. {PlanJob} \in SUBSET Jobs BY JobsAre
  <2>2. jobs' = Enqueued(jobs, {PlanJob}) /\ UNCHANGED <<db, workerVars, budget>> /\ api' = "done"
      BY <1>11 DEF EnqueuePlan
  <2> HIDE DEF LoopInv, LoopTyped
  <2>3. Loop' BY <2>1, <2>2, Places, EnqueuedKeepsLoop
  <2> QED BY <2>2, <2>3 DEF workerVars
<1>12. CASE CrashApi
  <2>1. Loop' BY <1>12, CrashApiKeepsLoop
  <2> QED BY <1>12, <2>1 DEF CrashApi, workerVars
<1> QED BY <1>1, <1>2, <1>4, <1>5, <1>6, <1>7, <1>8, <1>9, <1>10, <1>11, <1>12 DEF LoopStep

LEMMA TypesAreKept == TypeInv /\ [Next]_vars => TypeInv'
<1> SUFFICES ASSUME TypeInv, [Next]_vars PROVE TypeInv' OBVIOUS
<1>1. CASE UNCHANGED vars
  <2>1. Loop' BY <1>1, IdleKeepsLoop DEF TypeInv, Loop, vars, workerVars
  <2> QED BY <1>1, <2>1 DEF TypeInv, vars
<1> QED BY <1>1, Steps, LoopStepTypes, HandlerTypes

\* The rows, the workers and the queue have their types, whatever fails, lapses
\* or is killed: artifacts, checks and reviews are filed under the cycles that
\* exist, and only an open unit of work has a view.
THEOREM TypeCorrect == Spec => []TypeOK
<1>1. TypeInv => TypeOK
  <2>1. TypeInv => pc \in [Workers -> UnitsOfWork \union {"idle", "enqueue", "settle", "raised", "dead"}]
      BY DEF TypeInv, Loop, LoopInv, LoopTyped, Between, UnitsOfWork
  <2> QED BY <2>1 DEF TypeInv, TypeOK, Loop, LoopInv, LoopTyped
<1> QED BY <1>1, InitTypes, TypesAreKept, PTL DEF Spec

-----------------------------------------------------------------------------
(* The tests see the files of every role. A view may be old, but files are  *)
(* never removed: what it shows is still there. And TEST of cycle 0 is only *)
(* enqueued by an implementer that has seen the files of all roles.         *)

Behind(d) == \A s \in Slots : d.files[s] # <<>> => db.files[s] # <<>>

WholeInv ==
  /\ \A w \in Workers : view[w] # None => Behind(view[w])
  /\ \A w \in Workers :
       (pc[w] \in {"calling", "store"} /\ job[w].type = "TEST") => SomeFiles(db, job[w].cycle)
  /\ \A w \in Workers : TestJob(0) \in todo[w] => AllRoles(db)
  /\ jobs[TestJob(0)].status # "absent" => AllRoles(db)
  /\ TestedIsWhole

FilesStay == \A s \in Slots : db.files[s] # <<>> => db'.files[s] # <<>>

LEMMA FilesStayWhole ==
  ASSUME FilesStay
  PROVE  /\ AllRoles(db) => AllRoles(db)'
         /\ \A c \in Cycles : SomeFiles(db, c) => SomeFiles(db, c)'
         /\ \A d : Behind(d) => Behind(d)'
<1>1. AllRoles(db) => AllRoles(db)' BY SlotsOf DEF FilesStay, AllRoles
<1>2. \A c \in Cycles : SomeFiles(db, c) => SomeFiles(db, c)' BY SlotsOf DEF FilesStay, SomeFiles
<1>3. \A d : Behind(d) => Behind(d)' BY DEF FilesStay, Behind
<1> QED BY <1>1, <1>2, <1>3

\* Where the checks are as they were, they have still seen all files.
LEMMA ChecksStayWhole ==
  ASSUME WholeInv, FilesStay, db'.checks = db.checks
  PROVE  TestedIsWhole'
BY SlotsOf DEF WholeInv, TestedIsWhole, FilesStay

\* What a step of a handler has to show.
LEMMA WorksWhole ==
  ASSUME TypeInv, WholeInv, NEW w \in Workers, Works(w, Jobs, Database, UnitsOfWork), TypeInv',
         FilesStay, TestedIsWhole',
         (view[w] # None => Behind(view[w]))',
         (pc'[w] \in {"calling", "store"} /\ job[w].type = "TEST") => SomeFiles(db, job[w].cycle),
         TestJob(0) \in todo'[w] => AllRoles(db)
  PROVE  WholeInv'
<1>1. /\ UNCHANGED <<jobs, job>>
      /\ \A u \in Workers : u # w => pc'[u] = pc[u] /\ view'[u] = view[u] /\ todo'[u] = todo[u]
    BY DEF Works, TypeInv, Loop, LoopInv, LoopTyped
<1>2. \A u \in Workers : (pc'[u] \in {"calling", "store"}) => job[u] \in Jobs /\ job[u].cycle \in Cycles
  <2> SUFFICES ASSUME NEW u \in Workers, pc'[u] \in {"calling", "store"}
               PROVE  job[u] \in Jobs /\ job[u].cycle \in Cycles
      OBVIOUS
  <2>1. job[u] \in Jobs BY <1>1 DEF TypeInv, Loop, LoopInv, LoopTyped, LoopOK
  <2> QED BY <2>1, JobParts
<1>3. \A u \in Workers : (view[u] # None => Behind(view[u]))' BY <1>1, FilesStayWhole DEF WholeInv
<1>4. \A u \in Workers :
        (pc'[u] \in {"calling", "store"} /\ job[u].type = "TEST") => SomeFiles(db, job[u].cycle)'
    BY <1>1, <1>2, FilesStayWhole DEF WholeInv
<1>5. \A u \in Workers : TestJob(0) \in todo'[u] => AllRoles(db)'
    BY <1>1, FilesStayWhole DEF WholeInv
<1>6. jobs'[TestJob(0)].status # "absent" => AllRoles(db)' BY <1>1, FilesStayWhole DEF WholeInv
<1> QED BY <1>1, <1>3, <1>4, <1>5, <1>6 DEF WholeInv

\* What a unit of work reads is no newer than the rows.
LEMMA ReadsAreBehind ==
  ASSUME TypeInv, WholeInv, NEW w \in Workers, view[w] # None, NEW v \in Reads(w)
  PROVE  /\ Behind(v)
         /\ AllRoles(v) => AllRoles(db)
         /\ \A c \in Cycles : SomeFiles(v, c) => SomeFiles(db, c)
<1>1. Behind(v) BY ReadsType DEF WholeInv, Behind
<1> QED BY <1>1, SlotsOf DEF Behind, AllRoles, SomeFiles

\* A handler whose view is closed by its step.
LEMMA ClosedWhole ==
  ASSUME TypeInv, WholeInv, NEW w \in Workers, Works(w, Jobs, Database, UnitsOfWork), TypeInv',
         FilesStay, TestedIsWhole', pc'[w] \notin {"calling", "store"}, view'[w] = None,
         TestJob(0) \in todo'[w] => AllRoles(db)
  PROVE  WholeInv'
BY WorksWhole

\* Where an orchestrator's unit of work leaves the worker.
LEMMA AdvancesLeaves ==
  ASSUME TypeInv, NEW w \in Workers,
         \/ PlanCompleted(w) \/ MaybeScheduleTests(w) \/ TestsCompleted(w)
         \/ ReviewCompleted(w) \/ RepairCompleted(w)
  PROVE  pc'[w] \in {"settle", "raised", "enqueue"} /\ view'[w] = None
<1>1. ASSUME NEW keys, Return(w, "settle", {}) \/ Return(w, "enqueue", keys) \/ Raise(w)
      PROVE  pc'[w] \in {"settle", "raised", "enqueue"} /\ view'[w] = None
    BY <1>1 DEF Return, Raise, Goto, TypeInv, Loop, LoopInv, LoopTyped
<1>2. ASSUME NEW new, NEW keys, Commit(w, new, "enqueue", keys) \/ Commit(w, new, ThenEnqueue(keys), keys)
      PROVE  pc'[w] \in {"settle", "raised", "enqueue"} /\ view'[w] = None
    BY <1>2 DEF Commit, ThenEnqueue, Goto, TypeInv, Loop, LoopInv, LoopTyped
<1>3. ASSUME NEW target, NEW keys, CommitStatus(w, target, keys)
      PROVE  pc'[w] \in {"settle", "raised", "enqueue"} /\ view'[w] = None
    BY <1>1, <1>2, <1>3 DEF CommitStatus
<1>4. CASE PlanCompleted(w) BY <1>4, <1>1, <1>3 DEF PlanCompleted
<1>5. CASE MaybeScheduleTests(w) BY <1>5, <1>1, <1>3 DEF MaybeScheduleTests
<1>6. CASE TestsCompleted(w) BY <1>6, <1>1, <1>3 DEF TestsCompleted
<1>7. CASE ReviewCompleted(w) BY <1>7, <1>1, <1>3 DEF ReviewCompleted
<1>8. CASE RepairCompleted(w) BY <1>8, <1>1, <1>2 DEF RepairCompleted
<1> QED BY <1>4, <1>5, <1>6, <1>7, <1>8

\* What a handler that starts, or whose provider answers, goes on with.
LEMMA StartLeaves ==
  ASSUME TypeInv, NEW w \in Workers,
         \/ StartPlan(w) \/ StartImplement(w) \/ StartTest(w) \/ StartReview(w) \/ StartRepair(w)
  PROVE  /\ view[w] # None /\ job[w] \in Jobs
         /\ \/ pc'[w] \notin {"calling", "store"} /\ view'[w] = None
            \/ \E v \in Reads(w) :
                 /\ view'[w] = v
                 /\ job[w].type = "TEST" => pc'[w] = "store" /\ SomeFiles(v, job[w].cycle)
                 /\ job[w].type # "TEST" => pc'[w] = "calling"
<1>1. view[w] # None /\ pc[w] = "start"
    BY DEF StartPlan, StartImplement, StartTest, StartReview, StartRepair, At
<1>2. job[w] \in Jobs BY <1>1 DEF TypeInv, Loop, LoopInv, LoopTyped, LoopOK
<1>3. ASSUME NEW where \in {"settle", "advance", "approve", "reject"},
             Return(w, where, {}) \/ Raise(w)
      PROVE  pc'[w] \notin {"calling", "store"} /\ view'[w] = None
    BY <1>3 DEF Return, Raise, Goto, TypeInv, Loop, LoopInv, LoopTyped
<1>4. ASSUME NEW where, NEW v, Hold(w, where, v) PROVE pc'[w] = where /\ view'[w] = v
    BY <1>4 DEF Hold, TypeInv, Loop, LoopInv, LoopTyped
<1>5. CASE StartPlan(w) BY <1>1, <1>2, <1>5, <1>3, <1>4 DEF StartPlan
<1>6. CASE StartImplement(w) BY <1>1, <1>2, <1>6, <1>3, <1>4 DEF StartImplement
<1>7. CASE StartTest(w) BY <1>1, <1>2, <1>7, <1>3, <1>4 DEF StartTest
<1>8. CASE StartReview(w) BY <1>1, <1>2, <1>8, <1>3, <1>4 DEF StartReview, Verdict
<1>9. CASE StartRepair(w) BY <1>1, <1>2, <1>9, <1>3, <1>4 DEF StartRepair
<1> QED BY <1>5, <1>6, <1>7, <1>8, <1>9

LEMMA HandlerWhole ==
  ASSUME TypeInv, WholeInv, NEW w \in Workers, Handler(w)
  PROVE  WholeInv'
<1>1. Works(w, Jobs, Database, UnitsOfWork) /\ TypeInv' BY HandlerTypes
<1>2. CASE \/ StartPlan(w) \/ StartImplement(w) \/ StartTest(w) \/ StartReview(w) \/ StartRepair(w)
  <2>1. UNCHANGED db /\ todo'[w] = {} BY <1>2, Starting
  <2>2. FilesStay /\ TestedIsWhole' BY <2>1, ChecksStayWhole DEF FilesStay
  <2>3. view[w] # None /\ job[w] \in Jobs BY <1>2, StartLeaves
  <2>4. CASE pc'[w] \notin {"calling", "store"} /\ view'[w] = None
      BY <1>1, <2>1, <2>2, <2>4, ClosedWhole
  <2>5. ASSUME NEW v \in Reads(w), view'[w] = v,
               job[w].type = "TEST" => pc'[w] = "store" /\ SomeFiles(v, job[w].cycle)
        PROVE  WholeInv'
    <3>1. job[w].cycle \in Cycles BY <2>3, JobParts
    <3>2. Behind(v) /\ (SomeFiles(v, job[w].cycle) => SomeFiles(db, job[w].cycle))
        BY <2>3, <3>1, ReadsAreBehind
    <3>3. Behind(view[w])' BY <2>1, <2>5, <3>2 DEF Behind
    <3> QED BY <1>1, <2>1, <2>2, <2>5, <3>2, <3>3, WorksWhole
  <2> QED BY <1>2, <2>4, <2>5, StartLeaves
<1>3. CASE ProviderAnswers(w)
  <2>1. UNCHANGED db /\ todo'[w] = {} BY <1>3, Starting
  <2>2. FilesStay /\ TestedIsWhole' BY <2>1, ChecksStayWhole DEF FilesStay
  <2>3. pc[w] = "calling" /\ view'[w] = view[w] /\ view[w] # None
      BY <1>3 DEF ProviderAnswers, Hold, TypeInv, Loop, LoopInv, LoopTyped
  <2>4. Behind(view[w])' BY <2>1, <2>3 DEF WholeInv, Behind
  <2>5. job[w].type = "TEST" => SomeFiles(db, job[w].cycle) BY <2>3 DEF WholeInv
  <2> QED BY <1>1, <2>1, <2>2, <2>4, <2>5, WorksWhole
<1>4. CASE ProviderFails(w)
  <2>1. UNCHANGED db /\ todo'[w] = {} /\ pc'[w] = "raised" /\ view'[w] = None BY <1>4, ProviderFailsEffect
  <2>2. FilesStay /\ TestedIsWhole' BY <2>1, ChecksStayWhole DEF FilesStay
  <2> QED BY <1>1, <2>1, <2>2, ClosedWhole
<1>5. CASE StorePlan(w)
  <2>1. FilesStay /\ TestedIsWhole' BY <1>5, StorePlanEffect, ChecksStayWhole DEF FilesStay
  <2> QED BY <1>1, <1>5, <2>1, StorePlanEffect, ClosedWhole
<1>6. CASE StoreFiles(w)
  <2>1. FilesStay BY <1>6, StoreFilesEffect DEF FilesStay
  <2>2. TestedIsWhole' BY <1>6, <2>1, StoreFilesEffect, ChecksStayWhole
  <2> QED BY <1>1, <1>6, <2>1, <2>2, StoreFilesEffect, ClosedWhole
<1>7. CASE StoreReview(w)
  <2>1. FilesStay /\ TestedIsWhole' BY <1>7, StoreReviewEffect, ChecksStayWhole DEF FilesStay
  <2>2. pc'[w] \in {"approve", "reject"} BY <1>7, StoreReviewEffect DEF Verdict
  <2>3. todo'[w] = {} /\ view'[w] = None BY <1>7, StoreReviewEffect
  <2> QED BY <1>1, <2>1, <2>2, <2>3, ClosedWhole
<1>8. CASE StoreChecks(w)
  <2> DEFINE c == job[w].cycle
  <2>1. /\ db'.files = db.files /\ job[w] = TestJob(c) /\ c \in Cycles
        /\ \A k \in Cycles : k # c => db'.checks[k] = db.checks[k]
        /\ todo'[w] = {} /\ pc'[w] = "advance" /\ view'[w] = None
      BY <1>8, StoreChecksEffect
  <2>2. SomeFiles(db, c) BY <1>8 DEF StoreChecks, WholeInv
  <2>3. c = 0 => AllRoles(db)
      BY <1>8, <2>1 DEF StoreChecks, WholeInv, TypeInv, Loop, LoopInv, LoopOK, HoldsRow
  <2>4. \A r \in RolesOf(c) : db.files[<<r, c>>] # <<>>
      BY <2>2, <2>3 DEF SomeFiles, AllRoles, RolesOf, IMPLEMENTER_ROLES
  <2>5. FilesStay BY <2>1 DEF FilesStay
  <2>6. TestedIsWhole' BY <2>1, <2>4 DEF WholeInv, TestedIsWhole
  <2> QED BY <1>1, <2>1, <2>5, <2>6, ClosedWhole
<1>9. CASE \/ PlanCompleted(w) \/ MaybeScheduleTests(w) \/ TestsCompleted(w)
           \/ ReviewCompleted(w) \/ RepairCompleted(w)
  <2>1. pc'[w] \notin {"calling", "store"} /\ view'[w] = None BY <1>9, AdvancesLeaves
  <2>2. ASSUME NEW target, NEW keys, Advances(w, target, keys), TestJob(0) \in todo'[w] => AllRoles(db)
        PROVE  WholeInv'
    <3>1. db'.files = db.files /\ db'.checks = db.checks BY <2>2 DEF Advances, RowsKept
    <3>2. FilesStay /\ TestedIsWhole' BY <3>1, ChecksStayWhole DEF FilesStay
    <3> QED BY <1>1, <2>1, <2>2, <3>2, ClosedWhole
  <2>3. CASE PlanCompleted(w)
    <3>1. TestJob(0) \notin {ImplementJob(r) : r \in IMPLEMENTER_ROLES}
        BY JobTypes
    <3>2. Advances(w, "IMPLEMENTING", {ImplementJob(r) : r \in IMPLEMENTER_ROLES})
        BY <2>3, PlanCompletedEffect
    <3>3. TestJob(0) \notin todo'[w] BY <3>1, <3>2 DEF Advances
    <3> QED BY <2>2, <3>2, <3>3
  <2>4. CASE MaybeScheduleTests(w)
    <3>1. view[w] # None BY <2>4 DEF MaybeScheduleTests, At
    <3>2. TestJob(0) \in todo'[w] => AllRoles(db) BY <2>4, <3>1, MaybeScheduleTestsEffect, ReadsAreBehind
    <3> QED BY <2>2, <2>4, <3>2, MaybeScheduleTestsEffect
  <2>5. CASE TestsCompleted(w)
    <3>1. TestJob(0) # ReviewJob(view[w].repairs) BY DEF TestJob, ReviewJob, Job
    <3>2. Advances(w, "REVIEWING", {ReviewJob(view[w].repairs)}) BY <2>5, TestsCompletedEffect
    <3>3. TestJob(0) \notin todo'[w] BY <3>1, <3>2 DEF Advances
    <3> QED BY <2>2, <3>2, <3>3
  <2>6. CASE ReviewCompleted(w)
    <3>1. TestJob(0) # RepairJob(view[w].repairs) BY DEF TestJob, RepairJob, Job
    <3>2. ASSUME NEW target, NEW keys, Advances(w, target, keys), TestJob(0) \notin keys
          PROVE  WholeInv'
      <4>1. TestJob(0) \notin todo'[w] BY <3>2 DEF Advances
      <4> QED BY <2>2, <3>2, <4>1
    <3> QED BY <2>6, <3>1, <3>2, ReviewCompletedEffect
  <2>7. CASE RepairCompleted(w)
    <3>1. db'.files = db.files /\ db'.checks = db.checks BY <2>7, RepairCompletedEffect DEF RowsKept
    <3>2. FilesStay /\ TestedIsWhole' BY <3>1, ChecksStayWhole DEF FilesStay
    <3>3. TestJob(0) \notin todo'[w]
      <4>1. ASSUME NEW seen \in {view[w], db}, seen.repairs + 1 \in Cycles
            PROVE  TestJob(0) # TestJob(seen.repairs + 1)
        <5>1. seen \in Database
            BY <2>7 DEF RepairCompleted, At, TypeInv, Loop, LoopInv, LoopTyped
        <5>2. seen.repairs \in Nat BY <5>1, CyclesType DEF Database
        <5> QED BY <5>2, JobTypes
      <4> QED BY <2>7, <4>1, RepairCompletedEffect
    <3> QED BY <1>1, <2>1, <3>2, <3>3, ClosedWhole
  <2> QED BY <1>9, <2>3, <2>4, <2>5, <2>6, <2>7
<1> QED BY <1>2, <1>3, <1>4, <1>5, <1>6, <1>7, <1>8, <1>9 DEF Handler

LEMMA LoopStepRows ==
  ASSUME TypeInv, LoopStep
  PROVE  /\ RowsKept
         /\ db'.repairs = db.repairs
         /\ db'.status = db.status \/ db'.status \in {"CREATED", "PLANNING", "FAILED"}
<1>1. CASE CreateRun \/ Start
  <2>1. PICK target \in {"CREATED", "PLANNING"} : db' = [db EXCEPT !.status = target]
      BY <1>1 DEF CreateRun, Start
  <2> QED BY <2>1, StatusCommit DEF TypeInv, EngineeringStatus
<1>2. CASE \E w \in Workers : ReportFailure(w) BY <1>2, ReportFailureEffect DEF RowsKept
<1>3. CASE UNCHANGED db BY <1>3 DEF RowsKept
<1>4. \/ CreateRun \/ Start \/ UNCHANGED db \/ \E w \in Workers : ReportFailure(w)
    BY DEF LoopStep, Settle, Fail, CrashWorker, Restart, Claim, ClaimFor, Begin, BeginAt,
           EnqueueNext, EnqueueOne, Lapse, EnqueuePlan, CrashApi
<1> QED BY <1>1, <1>2, <1>3, <1>4

LEMMA LoopStepWhole ==
  ASSUME TypeInv, WholeInv, LoopStep
  PROVE  WholeInv'
<1>1. RowsKept BY LoopStepRows
<1>2. FilesStay BY <1>1 DEF RowsKept, FilesStay
<1>3. TestedIsWhole' BY <1>1, <1>2, ChecksStayWhole DEF RowsKept
<1>4. AllRoles(db)' = AllRoles(db) BY <1>1 DEF RowsKept, AllRoles
<1>5. \A c : SomeFiles(db, c)' = SomeFiles(db, c) BY <1>1 DEF RowsKept, SomeFiles
<1>6. \A d : Behind(d)' = Behind(d) BY <1>1 DEF RowsKept, Behind
<1> USE DEF WholeInv
\* Steps after which workers are as far as before, or let go of their job.
<1>7. ASSUME jobs'[TestJob(0)].status # "absent" => AllRoles(db),
             \A u \in Workers :
               /\ view'[u] # None => view'[u] = view[u] \/ view'[u] = db
               /\ todo'[u] \subseteq todo[u]
               /\ pc'[u] \in {"calling", "store"} => pc'[u] = pc[u] /\ job'[u] = job[u]
      PROVE  WholeInv'
  <2>1. Behind(db) BY DEF Behind
  <2>2. \A u \in Workers : (view[u] # None => Behind(view[u]))' BY <1>6, <1>7, <2>1
  <2>3. \A u \in Workers :
          ((pc[u] \in {"calling", "store"} /\ job[u].type = "TEST") => SomeFiles(db, job[u].cycle))'
      BY <1>5, <1>7
  <2>4. \A u \in Workers : (TestJob(0) \in todo[u] => AllRoles(db))' BY <1>4, <1>7
  <2> QED BY <1>3, <1>4, <1>7, <2>2, <2>3, <2>4
<1> HIDE DEF WholeInv
<1>8. TestJob(0) \in Jobs BY JobsAre, CyclesType
<1> USE DEF TypeInv, Loop
<1>9. ASSUME NoNewRows(Jobs) PROVE jobs'[TestJob(0)].status # "absent" => AllRoles(db)
    BY <1>8, <1>9 DEF NoNewRows, WholeInv
<1>10. ASSUME NEW w \in Workers, Settle(w) \/ Fail(w) PROVE WholeInv'
  <2>1. NoNewRows(Jobs) BY <1>10, Places, OnlyEnqueuesAdd
  <2> QED BY <1>7, <1>9, <1>10, <2>1 DEF Settle, Fail, Drop, Goto, LoopInv, LoopTyped
<1>11. ASSUME NEW w \in Workers, LetsGo(w, Jobs) PROVE WholeInv'
  <2>1. PICK where \in {"idle", "dead"} : Drop(w, where) BY <1>11 DEF LetsGo
  <2>2. UNCHANGED jobs BY <1>11 DEF LetsGo
  <2>3. jobs'[TestJob(0)].status # "absent" => AllRoles(db) BY <2>2 DEF WholeInv
  <2> QED BY <1>7, <2>1, <2>3 DEF Drop, Goto, LoopInv, LoopTyped
<1>12. ASSUME NEW w \in Workers, CrashWorker(w) \/ Restart(w) \/ ReportFailure(w) PROVE WholeInv'
    BY <1>11, <1>12, CrashOrRestartLetsGo, ReportFailureEffect
<1>13. ASSUME NEW w \in Workers, NEW j \in Jobs, Claim(w, j) PROVE WholeInv'
  <2>1. NoNewRows(Jobs) BY <1>13, Places, OnlyEnqueuesAdd DEF Claim, UnitsOfWork
  <2> QED BY <1>7, <1>9, <1>13, <2>1 DEF Claim, ClaimFor, LoopInv, LoopTyped
<1>14. ASSUME NEW w \in Workers, Begin(w) PROVE WholeInv'
    BY <1>7, <1>14 DEF Begin, BeginAt, LoopInv, LoopTyped, WholeInv
<1>15. ASSUME NEW w \in Workers, EnqueueNext(w) PROVE WholeInv'
  <2>1. PICK j \in todo[w] : EnqueueOne(w, j) BY <1>15 DEF EnqueueNext
  <2>2. {j} \in SUBSET Jobs BY DEF LoopInv, LoopTyped
  <2>3. jobs'[TestJob(0)].status # "absent" => jobs[TestJob(0)].status # "absent" \/ TestJob(0) = j
      BY <1>8, <2>1, <2>2, EnqueuedAdds DEF EnqueueOne
  <2>4. jobs'[TestJob(0)].status # "absent" => AllRoles(db) BY <2>3 DEF WholeInv
  <2> QED BY <1>7, <2>1, <2>4 DEF EnqueueOne, Goto, LoopInv, LoopTyped
<1>16. ASSUME NEW j \in Jobs, Lapse(j) PROVE WholeInv'
  <2>1. NoNewRows(Jobs) BY <1>16, Places, OnlyEnqueuesAdd
  <2> QED BY <1>7, <1>9, <1>16, <2>1 DEF Lapse, workerVars
<1>17. CASE CreateRun \/ Start \/ CrashApi
    BY <1>7, <1>17 DEF CreateRun, Start, CrashApi, workerVars, WholeInv
<1>18. CASE EnqueuePlan
  <2>1. jobs' = Enqueued(jobs, {PlanJob}) /\ UNCHANGED workerVars BY <1>18 DEF EnqueuePlan
  <2>2. PlanJob \in Jobs /\ PlanJob # TestJob(0) BY JobsAre DEF PlanJob, TestJob, Job
  <2>3. PICK keys \in SUBSET Jobs : keys = {PlanJob} BY <2>2
  <2>4. jobs'[TestJob(0)].status # "absent" => jobs[TestJob(0)].status # "absent" \/ TestJob(0) \in keys
      BY <1>8, <2>1, <2>3, EnqueuedAdds
  <2>5. jobs'[TestJob(0)].status # "absent" => jobs[TestJob(0)].status # "absent" BY <2>2, <2>3, <2>4
  <2> QED BY <1>7, <2>1, <2>5 DEF workerVars, WholeInv
<1> QED BY <1>10, <1>12, <1>13, <1>14, <1>15, <1>16, <1>17, <1>18 DEF LoopStep

LEMMA WholeIsInvariant == Spec => [](TypeInv /\ WholeInv)
<1>1. Init => WholeInv
  <2> SUFFICES ASSUME Init PROVE WholeInv OBVIOUS
  <2>1. TestJob(0) \in Jobs BY JobsAre, CyclesType
  <2> QED BY <2>1 DEF Init, LoopInit, WholeInv, TestedIsWhole, NoJob
<1>2. TypeInv /\ WholeInv /\ [Next]_vars => WholeInv'
  <2> SUFFICES ASSUME TypeInv, WholeInv, [Next]_vars PROVE WholeInv' OBVIOUS
  <2>1. CASE UNCHANGED vars
    <3>1. RowsKept BY <2>1 DEF vars, RowsKept
    <3>2. AllRoles(db)' = AllRoles(db) /\ TestedIsWhole' = TestedIsWhole
        BY <3>1 DEF RowsKept, AllRoles, TestedIsWhole
    <3>3. \A c : SomeFiles(db, c)' = SomeFiles(db, c) BY <3>1 DEF RowsKept, SomeFiles
    <3>4. \A d : Behind(d)' = Behind(d) BY <3>1 DEF RowsKept, Behind
    <3> QED BY <2>1, <3>2, <3>3, <3>4 DEF vars, WholeInv
  <2> QED BY <2>1, Steps, LoopStepWhole, HandlerWhole
<1> QED BY <1>1, <1>2, InitTypes, TypesAreKept, PTL DEF Spec

\* The checks of a cycle have seen the files of all its roles, with any number
\* of workers, whoever is slow, retried or killed: of two implementers the one
\* that finishes last, whichever that is, finds the files of both.
THEOREM TestsSeeEveryRole == Spec => []TestedIsWhole
<1>1. WholeInv => TestedIsWhole BY DEF WholeInv
<1> QED BY <1>1, WholeIsInvariant, PTL

-----------------------------------------------------------------------------
(* A stage's work is stored once, as long as no live worker has lost its   *)
(* lease: the row of a job is its holder's own, so nobody else can fill the *)
(* slot between the look at it and the insert.                             *)

\* The slot of a job, in a database, is still empty.
Empty(d, j) ==
  /\ j.type = "PLAN" => d.plans = 0
  /\ j.type \in {"IMPLEMENT", "REPAIR"} => d.files[SlotOf(j)] = <<>>
  /\ j.type = "REVIEW" => d.reviews[j.cycle] = <<>>

HolderFillsIt(w) ==
  /\ pc[w] \in {"calling", "store"} => Empty(db, job[w])
  /\ (pc[w] = "start" /\ view[w] # None /\ Empty(view[w], job[w])) => Empty(db, job[w])

OnceInv ==
  budget.lapses = 0 => StoredOnce /\ \A w \in Workers : job[w] # None => HolderFillsIt(w)

\* Lapses are never taken back.
LEMMA WorksLapses ==
  ASSUME TypeInv, NEW w \in Workers, Works(w, Jobs, Database, UnitsOfWork)
  PROVE  budget'.lapses = budget.lapses
BY DEF TypeInv, Loop, LoopInv, LoopTyped, Works

\* Of two workers under way, one job is never both's.
LEMMA HoldersDiffer ==
  ASSUME TypeInv, budget.lapses = 0, NEW w \in Workers, NEW u \in Workers, u # w,
         job[w] # None, job[u] # None, pc[w] # "terminal", pc[u] # "terminal"
  PROVE  job[u] # job[w]
BY DEF TypeInv, Loop, LoopInv, Exclusive, Owns

\* Different jobs fill different slots.
LEMMA SlotsDiffer ==
  ASSUME NEW j \in Jobs, NEW k \in Jobs, j # k,
         j.type \in {"IMPLEMENT", "REPAIR"}, k.type \in {"IMPLEMENT", "REPAIR"}
  PROVE  SlotOf(j) # SlotOf(k)
<1>1. \A i \in Jobs : i.type = "REPAIR" => i.cycle \in Nat /\ i = RepairJob(i.cycle)
    BY JobParts, CyclesType
<1>2. \A i \in Jobs : i.type = "IMPLEMENT" => i = ImplementJob(i.role) BY JobParts
<1> QED BY <1>1, <1>2 DEF SlotOf

\* What a step of a handler has to show, where every slot but its own is as before.
LEMMA WorksOnce ==
  ASSUME TypeInv, OnceInv, NEW w \in Workers, Works(w, Jobs, Database, UnitsOfWork),
         budget.lapses = 0 => StoredOnce' /\ HolderFillsIt(w)',
         \A j \in Jobs : j # job[w] => (Empty(db, j) => Empty(db, j)')
  PROVE  OnceInv'
<1> SUFFICES ASSUME budget'.lapses = 0
             PROVE  StoredOnce' /\ \A u \in Workers : job'[u] # None => HolderFillsIt(u)'
    BY DEF OnceInv
<1>1. budget.lapses = 0 BY WorksLapses
<1>2. /\ UNCHANGED <<jobs, job>> /\ pc[w] \notin {"idle", "dead", "terminal"}
      /\ \A u \in Workers : u # w => pc'[u] = pc[u] /\ view'[u] = view[u]
    BY Places DEF Works, TypeInv, Loop, LoopInv, LoopTyped, Setting
<1>3. job[w] # None BY <1>2 DEF TypeInv, Loop, LoopInv, LoopOK
<1>4. ASSUME NEW u \in Workers, u # w, job[u] # None PROVE HolderFillsIt(u)'
  <2>1. HolderFillsIt(u) BY <1>1, <1>4 DEF OnceInv
  <2>2. job[u] \in Jobs BY <1>4 DEF TypeInv, Loop, LoopInv, LoopTyped
  <2>3. pc[u] = "terminal" \/ job[u] # job[w] BY <1>1, <1>2, <1>3, <1>4, HoldersDiffer
  <2>4. CASE pc[u] = "terminal" BY <1>2, <1>4, <2>4 DEF HolderFillsIt
  <2>5. CASE job[u] # job[w]
    <3>1. Empty(db, job[u]) => Empty(db, job[u])' BY <1>2, <2>2, <2>5
    <3>2. pc'[u] = pc[u] /\ view'[u] = view[u] /\ job'[u] = job[u] BY <1>2, <1>4
    <3>3. Empty(view[u], job[u])' = Empty(view[u], job[u]) BY <3>2 DEF Empty, SlotOf
    <3> QED BY <2>1, <3>1, <3>2, <3>3 DEF HolderFillsIt
  <2> QED BY <2>3, <2>4, <2>5
<1> QED BY <1>1, <1>2, <1>4

\* A step that leaves the rows alone and stays, or goes where nothing is stored.
LEMMA RowsKeptOnce ==
  ASSUME RowsKept
  PROVE  StoredOnce' = StoredOnce /\ \A j : Empty(db, j)' = Empty(db, j)
BY DEF RowsKept, StoredOnce, Empty, SlotOf

LEMMA StartSeesEmpty ==
  ASSUME TypeInv, NEW w \in Workers,
         \/ StartPlan(w) \/ StartImplement(w) \/ StartTest(w) \/ StartReview(w) \/ StartRepair(w)
  PROVE  /\ pc[w] = "start" /\ view[w] # None /\ job[w] \in Jobs
         /\ \/ pc'[w] \notin {"start", "calling", "store"}
            \/ pc'[w] \in {"calling", "store"} /\ \E v \in Reads(w) : Empty(v, job[w])
<1>1. view[w] # None /\ pc[w] = "start"
    BY DEF StartPlan, StartImplement, StartTest, StartReview, StartRepair, At
<1>2. job[w] \in Jobs BY <1>1 DEF TypeInv, Loop, LoopInv, LoopTyped, LoopOK
<1>3. ASSUME NEW where \in {"settle", "advance", "approve", "reject"},
             Return(w, where, {}) \/ Raise(w)
      PROVE  pc'[w] \notin {"start", "calling", "store"}
    BY <1>3 DEF Return, Raise, Goto, TypeInv, Loop, LoopInv, LoopTyped
<1>4. ASSUME NEW where, NEW v, Hold(w, where, v) PROVE pc'[w] = where
    BY <1>4 DEF Hold, TypeInv, Loop, LoopInv, LoopTyped
<1>5. CASE StartPlan(w)
  <2>1. \A v \in Reads(w) : v.plans \in Nat BY <1>1, ReadsType DEF Database
  <2>2. \A v \in Reads(w) : ~(v.plans > 0) => Empty(v, job[w]) BY <1>5, <2>1 DEF StartPlan, Empty
  <2> QED BY <1>1, <1>2, <1>3, <1>4, <1>5, <2>2 DEF StartPlan
<1>6. CASE StartImplement(w)
  <2>1. \A v \in Reads(w) : ~Written(v, job[w].role) => Empty(v, job[w])
      BY <1>6 DEF StartImplement, Empty, Written, SlotOf
  <2> QED BY <1>1, <1>2, <1>3, <1>4, <1>6, <2>1 DEF StartImplement
<1>7. CASE StartTest(w)
  <2>1. \A v : Empty(v, job[w]) BY <1>7 DEF StartTest, Empty
  <2> QED BY <1>1, <1>2, <1>3, <1>4, <1>7, <2>1 DEF StartTest
<1>8. CASE StartReview(w)
  <2>1. \A v \in Reads(w) : v.reviews[job[w].cycle] = <<>> => Empty(v, job[w])
      BY <1>8 DEF StartReview, Empty
  <2> QED BY <1>1, <1>2, <1>3, <1>4, <1>8, <2>1 DEF StartReview, Verdict
<1>9. CASE StartRepair(w)
  <2>1. job[w].cycle + 1 # 0 BY <1>2, <1>9, JobParts, CyclesType DEF StartRepair
  <2>2. \A v \in Reads(w) : ~SomeFiles(v, job[w].cycle + 1) => Empty(v, job[w])
      BY <1>9, <2>1 DEF StartRepair, Empty, SomeFiles, RolesOf, SlotOf
  <2> QED BY <1>1, <1>2, <1>3, <1>4, <1>9, <2>2 DEF StartRepair
<1> QED BY <1>5, <1>6, <1>7, <1>8, <1>9

LEMMA HandlerOnce ==
  ASSUME TypeInv, OnceInv, NEW w \in Workers, Handler(w)
  PROVE  OnceInv'
<1>1. Works(w, Jobs, Database, UnitsOfWork) /\ TypeInv' BY HandlerTypes
<1>2. pc[w] \notin {"idle", "dead", "terminal"} /\ job[w] # None /\ job' = job /\ job[w] \in Jobs
    BY <1>1, Places DEF Works, TypeInv, Loop, LoopInv, LoopTyped, LoopOK, Setting
<1>3. budget.lapses = 0 => StoredOnce /\ HolderFillsIt(w) BY <1>2 DEF OnceInv
\* Of a step that keeps the rows.
<1>4. ASSUME RowsKept, budget.lapses = 0 => HolderFillsIt(w)' PROVE OnceInv'
    BY <1>1, <1>3, <1>4, RowsKeptOnce, WorksOnce
<1>5. pc'[w] \notin {"start", "calling", "store"} => HolderFillsIt(w)' BY DEF HolderFillsIt
<1>6. CASE \/ StartPlan(w) \/ StartImplement(w) \/ StartTest(w) \/ StartReview(w) \/ StartRepair(w)
  <2>1. RowsKept BY <1>6, Starting DEF RowsKept
  <2>2. CASE pc'[w] \notin {"start", "calling", "store"} BY <1>4, <1>5, <2>1, <2>2
  <2>3. CASE pc'[w] \in {"calling", "store"} /\ \E v \in Reads(w) : Empty(v, job[w])
    <3>1. PICK v \in Reads(w) : Empty(v, job[w]) BY <2>3
    <3>2. pc[w] = "start" /\ view[w] # None BY <1>6, StartSeesEmpty
    <3>3. Empty(view[w], job[w]) \/ Empty(db, job[w])
        BY <3>1, <3>2, ReadsType DEF Empty
    <3>4. budget.lapses = 0 => Empty(db, job[w]) BY <1>3, <3>2, <3>3 DEF HolderFillsIt
    <3>5. budget.lapses = 0 => Empty(db, job[w])' BY <1>2, <2>1, <3>4 DEF RowsKept, Empty, SlotOf
    <3>6. budget.lapses = 0 => HolderFillsIt(w)' BY <2>3, <3>5 DEF HolderFillsIt
    <3> QED BY <1>4, <2>1, <3>6
  <2> QED BY <1>6, <2>2, <2>3, StartSeesEmpty
<1>7. CASE ProviderAnswers(w)
  <2>1. RowsKept BY <1>7, Starting DEF RowsKept
  <2>2. pc[w] = "calling" /\ pc'[w] = "store"
      BY <1>7 DEF ProviderAnswers, Hold, TypeInv, Loop, LoopInv, LoopTyped
  <2>3. budget.lapses = 0 => Empty(db, job[w])'
      BY <1>2, <1>3, <2>1, <2>2 DEF HolderFillsIt, RowsKept, Empty, SlotOf
  <2> QED BY <1>4, <2>1, <2>2, <2>3 DEF HolderFillsIt
<1>8. CASE ProviderFails(w)
  <2>1. RowsKept /\ pc'[w] = "raised" BY <1>8, ProviderFailsEffect DEF RowsKept
  <2> QED BY <1>4, <1>5, <2>1
<1>9. CASE \/ PlanCompleted(w) \/ MaybeScheduleTests(w) \/ TestsCompleted(w)
           \/ ReviewCompleted(w) \/ RepairCompleted(w)
  <2>1. pc'[w] \notin {"start", "calling", "store"} BY <1>9, AdvancesLeaves
  <2>2. \A target, keys : Advances(w, target, keys) => RowsKept BY DEF Advances, RowsKept
  <2>3. RowsKept
      BY <1>9, <2>2, PlanCompletedEffect, MaybeScheduleTestsEffect, TestsCompletedEffect,
         ReviewCompletedEffect, RepairCompletedEffect DEF RowsKept
  <2> QED BY <1>4, <1>5, <2>1, <2>3
<1>10. CASE StorePlan(w)
  <2>1. /\ db'.plans = db.plans + 1 /\ db'.files = db.files /\ db'.reviews = db.reviews
        /\ pc'[w] = "advance" /\ job[w] = PlanJob
      BY <1>10, StorePlanEffect
  <2>2. budget.lapses = 0 => db.plans = 0
      BY <1>3, <1>10 DEF StorePlan, HolderFillsIt, Empty
  <2>3. budget.lapses = 0 => StoredOnce' BY <1>3, <2>1, <2>2 DEF StoredOnce
  <2>4. \A j \in Jobs : j # job[w] => (Empty(db, j) => Empty(db, j)')
      BY <2>1, JobParts DEF Empty, SlotOf
  <2> QED BY <1>1, <1>5, <2>1, <2>3, <2>4, WorksOnce
<1>11. CASE StoreFiles(w)
  <2> DEFINE slot == SlotOf(job[w])
  <2>1. /\ db'.plans = db.plans /\ db'.reviews = db.reviews /\ pc'[w] = "advance"
        /\ slot \in Slots /\ \E clean \in BOOLEAN : db'.files[slot] = Append(db.files[slot], clean)
        /\ \A s \in Slots : s # slot => db'.files[s] = db.files[s]
        /\ job[w].type \in {"IMPLEMENT", "REPAIR"} /\ pc[w] = "store"
      BY <1>11, StoreFilesEffect DEF StoreFiles
  <2>2. budget.lapses = 0 => db.files[slot] = <<>>
      BY <1>3, <2>1 DEF HolderFillsIt, Empty
  <2>3. \A clean \in BOOLEAN : Len(Append(<<>>, clean)) = 1 OBVIOUS
  <2>4. budget.lapses = 0 => Len(db'.files[slot]) = 1 BY <2>1, <2>2, <2>3
  <2>5. budget.lapses = 0 => StoredOnce' BY <1>3, <2>1, <2>4 DEF StoredOnce
  <2>6. ASSUME NEW j \in Jobs, j # job[w], Empty(db, j) PROVE Empty(db, j)'
    <3>1. CASE j.type \in {"IMPLEMENT", "REPAIR"}
      <4>1. SlotOf(j) # slot /\ SlotOf(j) \in Slots
          BY <1>2, <2>1, <2>6, <3>1, SlotsDiffer, SlotOfType
      <4>2. db'.files[SlotOf(j)] = <<>> BY <2>1, <2>6, <3>1, <4>1 DEF Empty
      <4> QED BY <3>1, <4>2 DEF Empty, SlotOf
    <3>2. CASE j.type \notin {"IMPLEMENT", "REPAIR"} BY <2>1, <2>6, <3>2 DEF Empty
    <3> QED BY <3>1, <3>2
  <2> QED BY <1>1, <1>5, <2>1, <2>5, <2>6, WorksOnce
<1>12. CASE StoreChecks(w)
  <2>1. /\ db'.plans = db.plans /\ db'.files = db.files /\ db'.reviews = db.reviews
        /\ pc'[w] = "advance"
      BY <1>12, StoreChecksEffect
  <2>2. StoredOnce' = StoredOnce BY <2>1 DEF StoredOnce
  <2>3. \A j : Empty(db, j)' = Empty(db, j) BY <2>1 DEF Empty, SlotOf
  <2> QED BY <1>1, <1>3, <1>5, <2>1, <2>2, <2>3, WorksOnce
<1>13. CASE StoreReview(w)
  <2> DEFINE c == job[w].cycle
  <2>1. /\ db'.plans = db.plans /\ db'.files = db.files /\ c \in Cycles /\ job[w] = ReviewJob(c)
        /\ \A k \in Cycles : k # c => db'.reviews[k] = db.reviews[k]
        /\ pc[w] = "store" /\ job[w].type = "REVIEW"
      BY <1>13, StoreReviewEffect DEF StoreReview
  <2>2. PICK approve \in BOOLEAN :
          /\ db'.reviews[c] \in {Append(db.reviews[c], approve), <<approve>> \o db.reviews[c]}
          /\ pc'[w] = Verdict(approve, view[w], c)
      BY <1>13, StoreReviewEffect
  <2>3. budget.lapses = 0 => db.reviews[c] = <<>> BY <1>3, <2>1 DEF HolderFillsIt, Empty
  <2>4. Len(Append(<<>>, approve)) = 1 /\ Len(<<approve>> \o <<>>) = 1 OBVIOUS
  <2>5. budget.lapses = 0 => Len(db'.reviews[c]) = 1 BY <2>2, <2>3, <2>4
  <2>6. ASSUME budget.lapses = 0 PROVE StoredOnce'
    <3>1. StoredOnce /\ Len(db'.reviews[c]) = 1 BY <1>3, <2>5, <2>6
    <3>2. Len(db'.reviews[c]) <= 1 BY <3>1
    <3>3. \A k \in Cycles : k # c => Len(db'.reviews[k]) <= 1 BY <2>1, <3>1 DEF StoredOnce
    <3> HIDE DEF c
    <3>4. \A k \in Cycles : Len(db'.reviews[k]) <= 1 BY <3>2, <3>3, Zenon
    <3> QED BY <2>1, <3>1, <3>4 DEF StoredOnce
  <2>7. \A j \in Jobs : j # job[w] => (Empty(db, j) => Empty(db, j)')
      BY <2>1, JobParts DEF Empty, SlotOf
  <2>8. pc'[w] \notin {"start", "calling", "store"} BY <2>2 DEF Verdict
  <2> QED BY <1>1, <1>5, <2>6, <2>7, <2>8, WorksOnce
<1> QED BY <1>6, <1>7, <1>8, <1>9, <1>10, <1>11, <1>12, <1>13 DEF Handler

LEMMA LoopStepOnce ==
  ASSUME TypeInv, OnceInv, LoopStep
  PROVE  OnceInv'
<1>1. RowsKept BY LoopStepRows
<1>2. StoredOnce' = StoredOnce /\ \A j : Empty(db, j)' = Empty(db, j) BY <1>1, RowsKeptOnce
<1> USE DEF TypeInv, Loop, LoopInv, LoopTyped
<1>3. ASSUME budget'.lapses = 0 => budget.lapses = 0,
             \A u \in Workers : job'[u] # None =>
               \/ pc'[u] \notin {"start", "calling", "store"}
               \/ pc'[u] = "start" /\ view'[u] = None
               \/ job'[u] = job[u] /\ pc'[u] = pc[u] /\ (view'[u] = view[u] \/ view'[u] = db)
      PROVE  OnceInv'
  <2> SUFFICES ASSUME budget'.lapses = 0, NEW u \in Workers, job'[u] # None
               PROVE  HolderFillsIt(u)'
      BY <1>2, <1>3 DEF OnceInv
  <2>1. CASE job'[u] = job[u] /\ pc'[u] = pc[u] /\ view'[u] = view[u]
    <3>1. HolderFillsIt(u) BY <1>3, <2>1 DEF OnceInv
    <3>2. Empty(view[u], job[u])' = Empty(view[u], job[u]) BY <2>1 DEF Empty, SlotOf
    <3>3. Empty(db, job[u])' = Empty(db, job[u]) BY <1>1, <2>1 DEF RowsKept, Empty, SlotOf
    <3> QED BY <2>1, <3>1, <3>2, <3>3 DEF HolderFillsIt
  <2>2. CASE job'[u] = job[u] /\ pc'[u] = pc[u] /\ view'[u] = db
    <3>1. HolderFillsIt(u) BY <1>3, <2>2 DEF OnceInv
    <3>2. Empty(view[u], job[u])' = Empty(db, job[u]) BY <2>2 DEF Empty, SlotOf
    <3>3. Empty(db, job[u])' = Empty(db, job[u]) BY <1>1, <2>2 DEF RowsKept, Empty, SlotOf
    <3> QED BY <2>2, <3>1, <3>2, <3>3 DEF HolderFillsIt
  <2>3. CASE pc'[u] \notin {"start", "calling", "store"} BY <2>3 DEF HolderFillsIt
  <2>4. CASE pc'[u] = "start" /\ view'[u] = None BY <2>4 DEF HolderFillsIt
  <2> QED BY <1>3, <2>1, <2>2, <2>3, <2>4
<1>4. ASSUME NEW w \in Workers, Settle(w) PROVE OnceInv' BY <1>3, <1>4 DEF Settle, Drop, Goto
<1>5. ASSUME NEW w \in Workers, Fail(w) PROVE OnceInv' BY <1>3, <1>5 DEF Fail, Drop, Goto
<1>6. ASSUME NEW w \in Workers, CrashWorker(w) PROVE OnceInv'
    BY <1>3, <1>6 DEF CrashWorker, Drop, Goto
<1>7. ASSUME NEW w \in Workers, Restart(w) PROVE OnceInv' BY <1>3, <1>7 DEF Restart, Drop, Goto
<1>8. ASSUME NEW w \in Workers, ReportFailure(w) PROVE OnceInv'
  <2>1. PICK where \in {"idle", "dead"} : Drop(w, where) BY <1>8 DEF ReportFailure
  <2>2. UNCHANGED budget BY <1>8 DEF ReportFailure
  <2> QED BY <1>3, <2>1, <2>2 DEF Drop, Goto
<1>9. ASSUME NEW w \in Workers, NEW j \in Jobs, Claim(w, j) PROVE OnceInv'
  <2>1. view[w] = None BY <1>9 DEF Claim, ClaimFor, LoopOK, UnitsOfWork
  <2> QED BY <1>3, <1>9, <2>1 DEF Claim, ClaimFor
<1>10. ASSUME NEW w \in Workers, Begin(w) PROVE OnceInv' BY <1>3, <1>10 DEF Begin, BeginAt
<1>11. ASSUME NEW w \in Workers, EnqueueNext(w) PROVE OnceInv'
    BY <1>3, <1>11 DEF EnqueueNext, EnqueueOne, Goto
<1>12. ASSUME NEW j \in Jobs, Lapse(j) PROVE OnceInv'
  <2>1. budget'.lapses = 0 => budget.lapses = 0 BY <1>12 DEF Lapse
  <2> QED BY <1>3, <1>12, <2>1 DEF Lapse, workerVars
<1>13. CASE CreateRun \/ Start \/ EnqueuePlan \/ CrashApi
    BY <1>3, <1>13 DEF CreateRun, Start, EnqueuePlan, CrashApi, workerVars
<1> QED BY <1>4, <1>5, <1>6, <1>7, <1>8, <1>9, <1>10, <1>11, <1>12, <1>13 DEF LoopStep

LEMMA OnceIsInvariant == Spec => [](TypeInv /\ OnceInv)
<1>1. Init => OnceInv
  <2> SUFFICES ASSUME Init PROVE OnceInv OBVIOUS
  <2>1. StoredOnce BY DEF Init, StoredOnce
  <2> QED BY <2>1 DEF Init, LoopInit, OnceInv, HolderFillsIt
<1>2. TypeInv /\ OnceInv /\ [Next]_vars => OnceInv'
  <2> SUFFICES ASSUME TypeInv, OnceInv, [Next]_vars PROVE OnceInv' OBVIOUS
  <2>1. CASE UNCHANGED vars
    <3>1. RowsKept BY <2>1 DEF vars, RowsKept
    <3>2. StoredOnce' = StoredOnce /\ \A j : Empty(db, j)' = Empty(db, j) BY <3>1, RowsKeptOnce
    <3>3. \A u \in Workers : HolderFillsIt(u)' = HolderFillsIt(u)
        BY <2>1 DEF vars, HolderFillsIt, Empty, SlotOf
    <3> QED BY <2>1, <3>2, <3>3 DEF vars, OnceInv
  <2> QED BY <2>1, Steps, LoopStepOnce, HandlerOnce
<1> QED BY <1>1, <1>2, InitTypes, TypesAreKept, PTL DEF Spec

\* However often jobs are retried after failures and kills, a stage's work is
\* stored once, as long as no live worker has lost its lease.
THEOREM StoredOnceUnlessSlow == Spec => [](budget.lapses = 0 => StoredOnce)
<1>1. OnceInv => (budget.lapses = 0 => StoredOnce) BY DEF OnceInv
<1> QED BY <1>1, OnceIsInvariant, PTL

-----------------------------------------------------------------------------
(* A completed run has earned it, as long as no worker is killed and none    *)
(* that lives loses a lease. The jobs of the cycles come one after the       *)
(* other: a review is only enqueued once the tests have had their last say,  *)
(* a repair once the review has, and the tests of the next cycle once the    *)
(* repair has. So whoever acts on a cycle acts on the current one.           *)

Calm == budget.lapses = 0 /\ budget.crashes = 0

\* The worker is in its handler, or has raised and may retry it.
Executes(w) == job[w] # None /\ pc[w] \notin {"enqueue", "settle", "terminal"}

\* The job was enqueued or is about to be; nobody executes it any more.
Known(j) == jobs[j].status # "absent" \/ \E w \in Workers : j \in todo[w]
Past(j) ==
  /\ jobs[j].status \notin {"absent", "queued"}
  /\ \A w \in Workers : job[w] = j => ~Executes(w)

OwnersWork == \A j \in Jobs : jobs[j].status = "running" => job[jobs[j].owner] = j

Prior(j) == IF j.type = "REVIEW" THEN TestJob(j.cycle) ELSE ReviewJob(j.cycle)
InTurn(j) ==
  /\ j.cycle <= db.repairs
  /\ j.type \in {"REVIEW", "REPAIR"} => Past(Prior(j))
CyclesInTurn ==
  /\ \A j \in Jobs : Known(j) => InTurn(j)
  /\ db.repairs <= MaxRepairs
  /\ \A c \in 0..MaxRepairs - 1 : c < db.repairs => Past(RepairJob(c))

Approved(d, c) == AllPassed(d, c) /\ TRUE \in ToSet(d.reviews[c])

\* What a worker has read is of its cycle or a later one, and a reviewer knows
\* the checks; it approves only what has passed.
ReadsWell(w) == (Executes(w) /\ view[w] # None) =>
  /\ job[w].cycle <= view[w].repairs /\ view[w].repairs <= db.repairs
  /\ job[w].type = "REVIEW" =>
       /\ view[w].checks[job[w].cycle] = db.checks[job[w].cycle]
       /\ ToSet(view[w].reviews[job[w].cycle]) \subseteq ToSet(db.reviews[job[w].cycle])
ApprovesWell(w) ==
  /\ pc[w] \in {"approve", "reject"} => job[w].type = "REVIEW"
  /\ pc[w] = "approve" => Approved(db, job[w].cycle)

EarnedWell == db.status = "COMPLETED" =>
  jobs[ReviewJob(db.repairs)].status # "absent" /\ Approved(db, db.repairs)

EarnedInv == Calm =>
  OwnersWork /\ CyclesInTurn /\ EarnedWell /\ \A w \in Workers : ReadsWell(w) /\ ApprovesWell(w)

\* Who executes a job owns its row and is alone.
LEMMA Acting ==
  ASSUME TypeInv, budget.lapses = 0, NEW w \in Workers, Executes(w)
  PROVE  /\ job[w] \in Jobs /\ job[w].cycle \in Cycles /\ Known(job[w]) /\ Owns(w)
         /\ \A u \in Workers : job[u] = job[w] => u = w
<1>1. job[w] \in Jobs BY DEF Executes, TypeInv, Loop, LoopInv, LoopTyped
<1>2. Owns(w) BY DEF Executes, TypeInv, Loop, LoopInv, Exclusive
<1>3. Known(job[w]) BY <1>2 DEF Owns, Known
<1>4. ASSUME NEW u \in Workers, job[u] = job[w] PROVE u = w
    BY <1>2, <1>4 DEF Executes, TypeInv, Loop, LoopInv, Exclusive, Owns
<1> QED BY <1>1, <1>2, <1>3, <1>4, JobParts

\* Whoever executes a test, a review or a repair is of the current cycle, and
\* what comes after it is not known yet.
LEMMA Current ==
  ASSUME TypeInv, budget.lapses = 0, CyclesInTurn, NEW w \in Workers, Executes(w),
         job[w].type \in {"TEST", "REVIEW", "REPAIR"}
  PROVE  /\ db.repairs = job[w].cycle
         /\ job[w].type = "TEST" => ~Known(ReviewJob(job[w].cycle))
         /\ (job[w].type = "REVIEW" /\ job[w].cycle < MaxRepairs) => ~Known(RepairJob(job[w].cycle))
<1> DEFINE c == job[w].cycle
<1>1. job[w] \in Jobs /\ c \in Cycles /\ Known(job[w]) BY Acting
<1>2. ~Past(job[w]) BY DEF Past
<1>3. c \in Nat /\ db.repairs \in Nat /\ MaxRepairs \in Nat
  <2>1. db.repairs \in Cycles BY DEF TypeInv, Database
  <2>2. MaxRepairs \in Nat BY MaxRepairsAssumption
  <2> QED BY <1>1, <2>1, <2>2, CyclesType
<1>4. c <= db.repairs /\ db.repairs <= MaxRepairs BY <1>1 DEF CyclesInTurn, InTurn
<1> HIDE DEF c
<1>5. \A j \in Jobs : Past(j) => Known(j) BY DEF Past, Known
<1>6. ReviewJob(c) \in Jobs /\ TestJob(c) \in Jobs BY <1>1, JobsAre DEF c
<1>7. Known(ReviewJob(c)) => Past(TestJob(c))
    BY <1>3, <1>6, JobTypes DEF CyclesInTurn, InTurn, Prior
<1>8. ASSUME c < MaxRepairs, Known(RepairJob(c)) PROVE Past(ReviewJob(c))
  <2>1. RepairJob(c) \in Jobs BY <1>3, <1>8, JobsAre
  <2> QED BY <1>3, <1>8, <2>1, JobTypes DEF CyclesInTurn, InTurn, Prior
<1>9. CASE job[w].type = "TEST"
  <2>1. job[w] = TestJob(c) BY <1>1, <1>9, JobParts DEF c
  <2>2. ~Known(ReviewJob(c)) BY <1>2, <1>7, <2>1
  <2>3. ~(c < db.repairs)
    <3> SUFFICES ASSUME c < db.repairs PROVE FALSE OBVIOUS
    <3>1. c \in 0..MaxRepairs - 1 BY <1>3, <1>4
    <3>2. RepairJob(c) \in Jobs /\ Past(RepairJob(c)) BY <3>1, JobsAre DEF CyclesInTurn
    <3> QED BY <1>3, <1>4, <1>5, <1>6, <1>8, <2>2, <3>2
  <2> QED BY <1>3, <1>4, <1>9, <2>2, <2>3 DEF c
<1>10. CASE job[w].type = "REVIEW"
  <2>1. job[w] = ReviewJob(c) BY <1>1, <1>10, JobParts DEF c
  <2>2. c < MaxRepairs => ~Known(RepairJob(c)) BY <1>2, <1>8, <2>1
  <2>3. ~(c < db.repairs)
    <3> SUFFICES ASSUME c < db.repairs PROVE FALSE OBVIOUS
    <3>1. c \in 0..MaxRepairs - 1 /\ c < MaxRepairs BY <1>3, <1>4
    <3>2. RepairJob(c) \in Jobs /\ Past(RepairJob(c)) BY <3>1, JobsAre DEF CyclesInTurn
    <3> QED BY <1>5, <2>2, <3>1, <3>2
  <2> QED BY <1>3, <1>4, <1>10, <2>2, <2>3 DEF c
<1>11. CASE job[w].type = "REPAIR"
  <2>1. job[w] = RepairJob(c) /\ c \in 0..MaxRepairs - 1 BY <1>1, <1>11, JobParts DEF c
  <2>2. ~(c < db.repairs) BY <1>2, <2>1 DEF CyclesInTurn
  <2> QED BY <1>3, <1>4, <1>11, <2>2 DEF c
<1> QED BY <1>9, <1>10, <1>11

\* A step of a handler leaves what is past in the past.
LEMMA WorksPast ==
  ASSUME TypeInv, budget.lapses = 0, NEW w \in Workers, Works(w, Jobs, Database, UnitsOfWork)
  PROVE  /\ Executes(w) /\ UNCHANGED <<jobs, job>>
         /\ \A u \in Workers : u # w => pc'[u] = pc[u] /\ view'[u] = view[u] /\ todo'[u] = todo[u]
         /\ \A u \in Workers : u # w => (Executes(u)' <=> Executes(u))
         /\ \A j \in Jobs : Past(j) => Past(j)'
         /\ \A j \in Jobs : Known(j)' => Known(j) \/ j \in todo'[w]
         /\ pc'[w] \in {"enqueue", "settle"} => \A j \in Jobs : j = job[w] => Past(j)'
<1>1. /\ UNCHANGED <<jobs, job>>
      /\ \A u \in Workers : u # w => pc'[u] = pc[u] /\ view'[u] = view[u] /\ todo'[u] = todo[u]
    BY DEF Works, TypeInv, Loop, LoopInv, LoopTyped
<1>2. pc[w] \notin {"idle", "dead", "terminal", "enqueue", "settle"}
    BY Places DEF Works, UnitsOfWork
<1>3. Executes(w) BY <1>2 DEF Executes, TypeInv, Loop, LoopInv, LoopOK
<1>4. \A u \in Workers : u # w => (Executes(u)' <=> Executes(u)) BY <1>1 DEF Executes
<1>5. \A j \in Jobs : Past(j) => Past(j)' BY <1>1, <1>3, <1>4 DEF Past
<1>6. \A j \in Jobs : Known(j)' => Known(j) \/ j \in todo'[w] BY <1>1 DEF Known
<1>7. ASSUME pc'[w] \in {"enqueue", "settle"}, NEW j \in Jobs, j = job[w] PROVE Past(j)'
  <2>1. Owns(w) /\ \A u \in Workers : job[u] = job[w] => u = w BY <1>3, Acting
  <2> QED BY <1>1, <1>7, <2>1 DEF Past, Owns, Executes
<1> QED BY <1>1, <1>3, <1>4, <1>5, <1>6, <1>7

\* What a step of a handler has to show of the cycles.
LEMMA WorksInTurn ==
  ASSUME TypeInv, budget.lapses = 0, OwnersWork, CyclesInTurn,
         NEW w \in Workers, Works(w, Jobs, Database, UnitsOfWork),
         db'.repairs \in Nat, db.repairs <= db'.repairs, db'.repairs <= MaxRepairs,
         \A j \in todo'[w] : InTurn(j)',
         \A c \in 0..MaxRepairs - 1 : c < db'.repairs => (c < db.repairs \/ Past(RepairJob(c))')
  PROVE  (OwnersWork /\ CyclesInTurn)'
<1>1. /\ UNCHANGED <<jobs, job>>
      /\ \A j \in Jobs : Past(j) => Past(j)'
      /\ \A j \in Jobs : Known(j)' => Known(j) \/ j \in todo'[w]
    BY WorksPast
<1>2. OwnersWork' BY <1>1 DEF OwnersWork
<1>3. ASSUME NEW j \in Jobs, InTurn(j) PROVE InTurn(j)'
  <2>1. j.cycle \in Nat /\ db.repairs \in Nat
    <3>1. db.repairs \in Cycles BY DEF TypeInv, Database
    <3> QED BY <3>1, JobParts, CyclesType
  <2>2. j.cycle <= db'.repairs BY <1>3, <2>1 DEF InTurn
  <2>3. j.type \in {"REVIEW", "REPAIR"} => Prior(j) \in Jobs BY JobsAre, JobParts DEF Prior
  <2> QED BY <1>1, <1>3, <2>2, <2>3 DEF InTurn, Prior
<1>4. \A j \in Jobs : Known(j)' => InTurn(j)' BY <1>1, <1>3 DEF CyclesInTurn
<1>5. \A c \in 0..MaxRepairs - 1 : c < db'.repairs => Past(RepairJob(c))'
    BY <1>1, JobsAre DEF CyclesInTurn
<1> QED BY <1>2, <1>4, <1>5 DEF CyclesInTurn

\* A step that does not touch the checks and the reviews of a cycle whose review
\* is known, other than by one more review, leaves other workers well informed.
ReviewsStay ==
  /\ db.repairs <= db'.repairs
  /\ \A c \in Cycles : Known(ReviewJob(c)) =>
       /\ db'.checks[c] = db.checks[c]
       /\ ToSet(db.reviews[c]) \subseteq ToSet(db'.reviews[c])

LEMMA OthersStayWell ==
  ASSUME TypeInv, budget.lapses = 0, ReviewsStay, db'.repairs \in Nat,
         NEW u \in Workers, pc'[u] = pc[u], view'[u] = view[u], job'[u] = job[u],
         ReadsWell(u), ApprovesWell(u)
  PROVE  ReadsWell(u)' /\ ApprovesWell(u)'
<1>1. Executes(u)' <=> Executes(u) BY DEF Executes
<1>2. pc[u] \in {"approve", "reject"} => Executes(u)
    BY DEF Executes, TypeInv, Loop, LoopInv, LoopOK
<1>3. ASSUME Executes(u), job[u].type = "REVIEW"
      PROVE  /\ job[u].cycle \in Cycles /\ db'.checks[job[u].cycle] = db.checks[job[u].cycle]
             /\ ToSet(db.reviews[job[u].cycle]) \subseteq ToSet(db'.reviews[job[u].cycle])
  <2>1. job[u] \in Jobs /\ job[u].cycle \in Cycles /\ Known(job[u]) BY <1>3, Acting
  <2>2. job[u] = ReviewJob(job[u].cycle) BY <1>3, <2>1, JobParts
  <2> QED BY <2>1, <2>2 DEF ReviewsStay
<1>4. ReadsWell(u)'
  <2> SUFFICES ASSUME Executes(u), view[u] # None PROVE ReadsWell(u)' BY <1>1 DEF ReadsWell
  <2>1. view[u].repairs \in Nat /\ db.repairs \in Nat
    <3>1. view[u] \in Database /\ db \in Database BY DEF TypeInv, Loop, LoopInv, LoopTyped
    <3> QED BY <3>1, CyclesType DEF Database
  <2>2. view[u].repairs <= db'.repairs /\ job[u].cycle <= view[u].repairs
      BY <2>1 DEF ReadsWell, ReviewsStay
  <2> QED BY <1>3, <2>2 DEF ReadsWell
<1>5. ApprovesWell(u)'
  <2>1. pc[u] = "approve" => job[u].type = "REVIEW" /\ Approved(db, job[u].cycle)
      BY DEF ApprovesWell
  <2>2. pc[u] = "approve" => Approved(db, job[u].cycle)'
      BY <1>2, <1>3, <2>1 DEF Approved, AllPassed
  <2> QED BY <2>2 DEF ApprovesWell
<1> QED BY <1>4, <1>5

\* An approval that is there stays there, and what was shown to have passed too.
LEMMA EarnedStays ==
  ASSUME TypeInv, EarnedWell, ReviewsStay,
         \A j \in Jobs : jobs[j].status # "absent" => jobs'[j].status # "absent",
         db'.status = "COMPLETED" => db'.status = db.status /\ db'.repairs = db.repairs
  PROVE  EarnedWell'
<1> SUFFICES ASSUME db'.status = "COMPLETED" PROVE EarnedWell' BY DEF EarnedWell
<1> DEFINE c == db.repairs
<1>1. c \in Cycles /\ ReviewJob(c) \in Jobs BY JobsAre DEF TypeInv, Database
<1>2. db'.repairs = c /\ jobs[ReviewJob(c)].status # "absent" /\ Approved(db, c) BY DEF EarnedWell
<1> HIDE DEF c
<1>3. Known(ReviewJob(c)) BY <1>2 DEF Known
<1>4. Approved(db', c) BY <1>1, <1>2, <1>3 DEF ReviewsStay, Approved, AllPassed
<1> QED BY <1>1, <1>2, <1>4 DEF EarnedWell, Approved, AllPassed

\* Rows that are kept are known as well as before.
LEMMA KeptStay ==
  ASSUME TypeInv, RowsKept \/ UNCHANGED db, db'.repairs = db.repairs
  PROVE  ReviewsStay
<1>1. db.repairs \in Nat BY CyclesType DEF TypeInv, Database
<1>2. db'.checks = db.checks /\ db'.reviews = db.reviews BY DEF RowsKept
<1> QED BY <1>1, <1>2 DEF ReviewsStay

LEMMA CalmStays ==
  ASSUME TypeInv, NEW w \in Workers, Works(w, Jobs, Database, UnitsOfWork)
  PROVE  Calm' = Calm
<1>1. budget \in [raises : Nat, lapses : Nat, crashes : Nat, lost : SUBSET Jobs]
    BY DEF TypeInv, Loop, LoopInv, LoopTyped
<1>2. budget'.lapses = budget.lapses /\ budget'.crashes = budget.crashes BY <1>1 DEF Works
<1> QED BY <1>2 DEF Calm

\* What a step of a handler has to show.
LEMMA WorksEarned ==
  ASSUME TypeInv, EarnedInv, Calm, NEW w \in Workers, Works(w, Jobs, Database, UnitsOfWork),
         TypeInv', ReviewsStay, (OwnersWork /\ CyclesInTurn)', EarnedWell',
         ReadsWell(w)', ApprovesWell(w)'
  PROVE  EarnedInv'
<1>1. /\ UNCHANGED <<jobs, job>>
      /\ \A u \in Workers : u # w => pc'[u] = pc[u] /\ view'[u] = view[u]
    BY WorksPast DEF Calm
<1>2. db'.repairs \in Nat BY CyclesType DEF TypeInv, Database
<1>3. ASSUME NEW u \in Workers PROVE ReadsWell(u)' /\ ApprovesWell(u)'
  <2>1. CASE u = w BY <2>1
  <2>2. CASE u # w
    <3>1. pc'[u] = pc[u] /\ view'[u] = view[u] /\ job'[u] = job[u] BY <1>1, <2>2
    <3>2. ReadsWell(u) /\ ApprovesWell(u) BY DEF EarnedInv
    <3> QED BY <1>2, <3>1, <3>2, OthersStayWell DEF Calm
  <2> QED BY <2>1, <2>2
<1> QED BY <1>3 DEF EarnedInv

\* A step of a handler that leaves the run where it is and enqueues nothing.
LEMMA QuietStepEarned ==
  ASSUME TypeInv, EarnedInv, Calm, NEW w \in Workers, Works(w, Jobs, Database, UnitsOfWork),
         TypeInv', ReviewsStay, db'.status = db.status, db'.repairs = db.repairs,
         todo'[w] = {}, ReadsWell(w)', ApprovesWell(w)'
  PROVE  EarnedInv'
<1>1. OwnersWork /\ CyclesInTurn /\ EarnedWell BY DEF EarnedInv
<1>2. db.repairs \in Nat /\ db.repairs <= MaxRepairs BY <1>1, CyclesType DEF TypeInv, Database, CyclesInTurn
<1>3. (OwnersWork /\ CyclesInTurn)' BY <1>1, <1>2, WorksInTurn DEF Calm
<1>4. UNCHANGED jobs BY WorksPast DEF Calm
<1>5. EarnedWell' BY <1>1, <1>4, EarnedStays
<1> QED BY <1>3, <1>5, WorksEarned

\* A worker whose unit of work is closed, other than on a verdict.
LEMMA ClosedWell ==
  ASSUME NEW w \in Workers, view'[w] = None, pc'[w] \notin {"approve", "reject"}
  PROVE  ReadsWell(w)' /\ ApprovesWell(w)'
BY DEF ReadsWell, ApprovesWell

\* The orchestrator moves the run other than to COMPLETED.
LEMMA AdvanceEarned ==
  ASSUME TypeInv, EarnedInv, Calm, NEW w \in Workers,
         NEW target \in EngineeringStatus \ {"COMPLETED"}, NEW keys \in SUBSET Jobs,
         Advances(w, target, keys), view'[w] = None, pc'[w] \in {"settle", "raised", "enqueue"},
         \A j \in keys : (db'.repairs = db.repairs /\ pc'[w] = "enqueue") => InTurn(j)'
  PROVE  EarnedInv'
<1>1. OwnersWork /\ CyclesInTurn /\ EarnedWell BY DEF EarnedInv
<1>2. db.repairs \in Nat /\ db.repairs <= MaxRepairs BY <1>1, CyclesType DEF TypeInv, Database, CyclesInTurn
<1>3. Works(w, Jobs, Database, UnitsOfWork) /\ TypeInv' BY DEF Advances
<1>4. /\ RowsKept \/ UNCHANGED db
      /\ db'.repairs = db.repairs /\ db'.status \in {db.status, target}
    BY DEF Advances
<1>5. ReviewsStay BY <1>4, KeptStay
<1>6. \A j \in todo'[w] : InTurn(j)'
  <2>1. todo'[w] # {} => pc'[w] = "enqueue" BY <1>3 DEF TypeInv, Loop, LoopInv, LoopOK
  <2>2. todo'[w] \in {{}, keys} BY DEF Advances
  <2> QED BY <1>4, <2>1, <2>2
<1>7. (OwnersWork /\ CyclesInTurn)' BY <1>1, <1>2, <1>3, <1>4, <1>6, WorksInTurn DEF Calm
<1>8. UNCHANGED jobs BY <1>3, WorksPast DEF Calm
<1>9. EarnedWell' BY <1>1, <1>4, <1>5, <1>8, EarnedStays
<1> QED BY <1>3, <1>5, <1>7, <1>9, ClosedWell, WorksEarned

\* What a review that was stored before tells the orchestrator.
LEMMA StoredVerdict ==
  ASSUME TypeInv, NEW w \in Workers,
         \/ StartPlan(w) \/ StartImplement(w) \/ StartTest(w) \/ StartReview(w) \/ StartRepair(w),
         pc'[w] \in {"approve", "reject"}
  PROVE  /\ job[w].type = "REVIEW" /\ view'[w] = None
         /\ \E v \in Reads(w) : /\ v.reviews[job[w].cycle] # <<>>
                                /\ pc'[w] = Verdict(Last(v.reviews[job[w].cycle]), v, job[w].cycle)
<1>1. ASSUME NEW where, Return(w, where, {}) PROVE pc'[w] = where /\ view'[w] = None
    BY <1>1 DEF Return, Goto, TypeInv, Loop, LoopInv, LoopTyped
<1>2. ASSUME Raise(w) PROVE pc'[w] = "raised" BY <1>1, <1>2 DEF Raise
<1>3. ASSUME NEW where, NEW v, Hold(w, where, v) PROVE pc'[w] = where
    BY <1>3 DEF Hold, TypeInv, Loop, LoopInv, LoopTyped
<1>4. CASE StartPlan(w) BY <1>4, <1>1, <1>3 DEF StartPlan
<1>5. CASE StartImplement(w) BY <1>5, <1>1, <1>2, <1>3 DEF StartImplement
<1>6. CASE StartTest(w) BY <1>6, <1>1, <1>2, <1>3 DEF StartTest
<1>7. CASE StartReview(w)
  <2>1. PICK v \in Reads(w) :
          \/ Return(w, "settle", {})
          \/ /\ v.reviews[job[w].cycle] # <<>>
             /\ Return(w, Verdict(Last(v.reviews[job[w].cycle]), v, job[w].cycle), {})
          \/ Raise(w)
          \/ Hold(w, "calling", v)
      BY <1>7 DEF StartReview
  <2>2. /\ v.reviews[job[w].cycle] # <<>>
        /\ Return(w, Verdict(Last(v.reviews[job[w].cycle]), v, job[w].cycle), {})
      BY <1>1, <1>2, <1>3, <2>1
  <2> QED BY <1>1, <1>7, <2>2 DEF StartReview
<1>8. CASE StartRepair(w) BY <1>8, <1>1, <1>2, <1>3 DEF StartRepair
<1> QED BY <1>4, <1>5, <1>6, <1>7, <1>8

LEMMA LastIsIn ==
  ASSUME NEW s \in Seq(BOOLEAN), s # <<>>
  PROVE  Last(s) \in BOOLEAN /\ Last(s) \in ToSet(s)
<1>1. Len(s) \in DOMAIN s OBVIOUS
<1>2. s[Len(s)] \in BOOLEAN BY <1>1
<1> QED BY <1>1, <1>2 DEF Last, ToSet

LEMMA ApprovalIsIn ==
  ASSUME NEW s \in Seq(BOOLEAN), NEW a \in BOOLEAN, NEW t \in {Append(s, a), <<a>> \o s}
  PROVE  a \in ToSet(t) /\ ToSet(s) \subseteq ToSet(t)
<1>1. CASE t = Append(s, a)
  <2>1. \A i \in DOMAIN s : i \in DOMAIN t /\ t[i] = s[i] BY <1>1
  <2>2. Len(s) + 1 \in DOMAIN t /\ t[Len(s) + 1] = a BY <1>1
  <2> QED BY <2>1, <2>2 DEF ToSet
<1>2. CASE t = <<a>> \o s
  <2>1. <<a>> \in Seq(BOOLEAN) /\ Len(<<a>>) = 1 OBVIOUS
  <2>2. \A i \in DOMAIN s : i + 1 \in DOMAIN t /\ t[i + 1] = s[i] BY <1>2, <2>1
  <2>3. 1 \in DOMAIN t /\ t[1] = a BY <1>2, <2>1
  <2> QED BY <2>2, <2>3 DEF ToSet
<1> QED BY <1>1, <1>2

\* What a handler that starts has read, and the verdict it may go on with.
LEMMA StartsWell ==
  ASSUME TypeInv, EarnedInv, Calm, NEW w \in Workers,
         \/ StartPlan(w) \/ StartImplement(w) \/ StartTest(w) \/ StartReview(w) \/ StartRepair(w)
  PROVE  ReadsWell(w)' /\ ApprovesWell(w)'
<1>1. UNCHANGED <<db, job>> /\ Works(w, Jobs, Database, UnitsOfWork) BY Starting
<1>2. Executes(w) BY <1>1, WorksPast DEF Calm
<1>3. view[w] # None /\ job[w] \in Jobs BY StartLeaves
<1> DEFINE c == job[w].cycle
<1>4. c \in Cycles BY <1>3, JobParts
<1> HIDE DEF c
<1>5. ReadsWell(w) BY DEF EarnedInv
<1>6. ASSUME NEW v \in Reads(w)
      PROVE  /\ c <= v.repairs /\ v.repairs <= db.repairs
             /\ job[w].type = "REVIEW" =>
                  v.checks[c] = db.checks[c] /\ ToSet(v.reviews[c]) \subseteq ToSet(db.reviews[c])
    BY <1>2, <1>3, <1>5, ReadsType DEF ReadsWell, c
<1>7. ReadsWell(w)'
  <2>1. view'[w] = None \/ \E v \in Reads(w) : view'[w] = v BY StartLeaves
  <2> QED BY <1>1, <1>6, <2>1 DEF ReadsWell, c
<1>8. ApprovesWell(w)'
  <2> SUFFICES ASSUME pc'[w] \in {"approve", "reject"} PROVE ApprovesWell(w)' BY DEF ApprovesWell
  <2>1. job[w].type = "REVIEW" BY StoredVerdict
  <2>2. PICK v \in Reads(w) : v.reviews[c] # <<>> /\ pc'[w] = Verdict(Last(v.reviews[c]), v, c)
      BY StoredVerdict DEF c
  <2>3. v.reviews[c] \in Seq(BOOLEAN) BY <1>3, <1>4, ReadsType DEF Database
  <2>4. Last(v.reviews[c]) \in BOOLEAN /\ Last(v.reviews[c]) \in ToSet(v.reviews[c])
      BY <2>2, <2>3, LastIsIn
  <2>5. pc'[w] = "approve" => TRUE \in ToSet(v.reviews[c]) /\ v.checks[c] = {TRUE}
      BY <2>2, <2>4 DEF Verdict, AllPassed
  <2>6. pc'[w] = "approve" => Approved(db, c) BY <1>6, <2>1, <2>5 DEF Approved, AllPassed
  <2> QED BY <1>1, <2>1, <2>6 DEF ApprovesWell, Approved, AllPassed, c
<1> QED BY <1>7, <1>8

LEMMA StoreChecksEarned ==
  ASSUME TypeInv, EarnedInv, Calm, NEW w \in Workers, StoreChecks(w)
  PROVE  EarnedInv'
<1> DEFINE c == job[w].cycle
<1>1. /\ Works(w, Jobs, Database, UnitsOfWork) /\ TypeInv'
      /\ job[w] \in Jobs /\ c \in Cycles /\ job[w] = TestJob(c)
      /\ \A k \in Cycles : k # c => db'.checks[k] = db.checks[k]
      /\ db'.status = db.status /\ db'.repairs = db.repairs /\ db'.reviews = db.reviews
      /\ todo'[w] = {} /\ pc'[w] = "advance" /\ view'[w] = None
    BY StoreChecksEffect
<1>2. ~Known(ReviewJob(c))
  <2>1. Executes(w) BY <1>1, WorksPast DEF Calm
  <2>2. job[w].type = "TEST" BY DEF StoreChecks
  <2> QED BY <2>1, <2>2, Current DEF Calm, EarnedInv
<1> HIDE DEF c
<1>3. ReviewsStay
  <2>1. db.repairs \in Nat BY CyclesType DEF TypeInv, Database
  <2> QED BY <1>1, <1>2, <2>1 DEF ReviewsStay
<1> QED BY <1>1, <1>3, ClosedWell, QuietStepEarned

LEMMA StoreReviewEarned ==
  ASSUME TypeInv, EarnedInv, Calm, NEW w \in Workers, StoreReview(w)
  PROVE  EarnedInv'
<1> DEFINE c == job[w].cycle
<1>1. /\ Works(w, Jobs, Database, UnitsOfWork) /\ TypeInv'
      /\ job[w] \in Jobs /\ c \in Cycles
      /\ \A k \in Cycles : k # c => db'.reviews[k] = db.reviews[k]
      /\ db'.status = db.status /\ db'.repairs = db.repairs /\ db'.checks = db.checks
      /\ todo'[w] = {} /\ view'[w] = None
    BY StoreReviewEffect
<1>2. PICK approve \in BOOLEAN :
        /\ db'.reviews[c] \in {Append(db.reviews[c], approve), <<approve>> \o db.reviews[c]}
        /\ pc'[w] = Verdict(approve, view[w], c)
    BY StoreReviewEffect
<1>3. view[w].checks[c] = db.checks[c] /\ job[w].type = "REVIEW" /\ UNCHANGED job
  <2>1. Executes(w) /\ UNCHANGED job BY <1>1, WorksPast DEF Calm
  <2>2. job[w].type = "REVIEW" /\ view[w] # None BY DEF StoreReview, TypeInv
  <2> QED BY <2>1, <2>2 DEF EarnedInv, ReadsWell
<1> HIDE DEF c
<1>4. approve \in ToSet(db'.reviews[c]) /\ ToSet(db.reviews[c]) \subseteq ToSet(db'.reviews[c])
  <2>1. db.reviews[c] \in Seq(BOOLEAN) BY <1>1 DEF TypeInv, Database
  <2> QED BY <1>2, <2>1, ApprovalIsIn
<1>5. ReviewsStay
  <2>1. db.repairs \in Nat BY CyclesType DEF TypeInv, Database
  <2> QED BY <1>1, <1>4, <2>1 DEF ReviewsStay
<1>6. ReadsWell(w)' BY <1>1 DEF ReadsWell
<1>7. ApprovesWell(w)'
  <2>1. pc'[w] = "approve" => approve /\ db.checks[c] = {TRUE} BY <1>2, <1>3 DEF Verdict, AllPassed
  <2>2. pc'[w] = "approve" => Approved(db', c) BY <1>1, <1>4, <2>1 DEF Approved, AllPassed
  <2> QED BY <1>3, <2>2 DEF ApprovesWell, Approved, AllPassed, c
<1> QED BY <1>1, <1>5, <1>6, <1>7, QuietStepEarned

\* The unit of work that follows a test or a review is of the current cycle.
LEMMA ReadsCurrent ==
  ASSUME TypeInv, EarnedInv, Calm, NEW w \in Workers, Works(w, Jobs, Database, UnitsOfWork),
         view[w] # None, job[w].type \in {"TEST", "REVIEW", "REPAIR"}
  PROVE  /\ job[w] \in Jobs /\ job[w].cycle \in Cycles
         /\ view[w].repairs = job[w].cycle /\ db.repairs = job[w].cycle
<1>1. Executes(w) BY WorksPast DEF Calm
<1>2. job[w] \in Jobs /\ job[w].cycle \in Cycles BY <1>1, Acting DEF Calm
<1>3. db.repairs = job[w].cycle BY <1>1, Current DEF Calm, EarnedInv
<1>4. job[w].cycle <= view[w].repairs /\ view[w].repairs <= db.repairs
    BY <1>1 DEF EarnedInv, ReadsWell
<1>5. view[w].repairs \in Nat /\ job[w].cycle \in Nat
  <2>1. view[w] \in Database BY DEF TypeInv, Loop, LoopInv, LoopTyped
  <2> QED BY <1>2, <2>1, CyclesType DEF Database
<1> QED BY <1>2, <1>3, <1>4, <1>5

LEMMA TestsCompletedEarned ==
  ASSUME TypeInv, EarnedInv, Calm, NEW w \in Workers, TestsCompleted(w)
  PROVE  EarnedInv'
<1>1. Advances(w, "REVIEWING", {ReviewJob(view[w].repairs)}) BY TestsCompletedEffect
<1>2. Works(w, Jobs, Database, UnitsOfWork) /\ TypeInv' BY <1>1 DEF Advances
<1>3. view[w] # None /\ job[w].type = "TEST" BY DEF TestsCompleted, At
<1>4. PICK c \in Cycles : /\ job[w] \in Jobs /\ c = job[w].cycle
                         /\ view[w].repairs = c /\ db.repairs = c
    BY <1>2, <1>3, ReadsCurrent
<1>5. job[w] = TestJob(c) /\ TestJob(c) \in Jobs BY <1>3, <1>4, JobParts, JobsAre
<1>6. ASSUME db'.repairs = db.repairs, pc'[w] = "enqueue" PROVE InTurn(ReviewJob(c))'
  <2>1. Past(TestJob(c))' BY <1>2, <1>5, <1>6, WorksPast DEF Calm
  <2>2. c \in Nat BY <1>4, CyclesType
  <2> QED BY <1>4, <1>6, <2>1, <2>2, JobTypes DEF InTurn, Prior
<1>7. {ReviewJob(c)} \in SUBSET Jobs BY <1>4, JobsAre
<1>8. "REVIEWING" \in EngineeringStatus \ {"COMPLETED"} BY DEF EngineeringStatus
<1>9. Advances(w, "REVIEWING", {ReviewJob(c)}) BY <1>1, <1>4
<1> QED BY <1>6, <1>7, <1>8, <1>9, AdvancesLeaves, AdvanceEarned

LEMMA ReviewCompletedEarned ==
  ASSUME TypeInv, EarnedInv, Calm, NEW w \in Workers, ReviewCompleted(w)
  PROVE  EarnedInv'
<1>1. Works(w, Jobs, Database, UnitsOfWork) /\ TypeInv'
    BY ReviewCompletedEffect DEF Advances
<1>2. view[w] # None /\ pc[w] \in {"approve", "reject"} BY DEF ReviewCompleted, At
<1>3. job[w].type = "REVIEW" BY <1>2 DEF EarnedInv, ApprovesWell
<1>4. PICK c \in Cycles : /\ job[w] \in Jobs /\ c = job[w].cycle
                         /\ view[w].repairs = c /\ db.repairs = c
    BY <1>1, <1>2, <1>3, ReadsCurrent
<1>5. job[w] = ReviewJob(c) /\ ReviewJob(c) \in Jobs BY <1>3, <1>4, JobParts, JobsAre
<1>6. pc'[w] \in {"settle", "raised", "enqueue"} /\ view'[w] = None BY AdvancesLeaves
<1>7. pc[w] = "approve" => Approved(db, c) BY <1>4 DEF EarnedInv, ApprovesWell
<1>8. Executes(w) /\ UNCHANGED jobs BY <1>1, WorksPast DEF Calm
<1>9. jobs[ReviewJob(c)].status # "absent" BY <1>5, <1>8, Acting DEF Owns, Calm
<1>10. CASE pc[w] = "approve" /\ Advances(w, "COMPLETED", {})
  <2>1. OwnersWork /\ CyclesInTurn /\ EarnedWell BY DEF EarnedInv
  <2>2. db.repairs \in Nat /\ db.repairs <= MaxRepairs
      BY <2>1, CyclesType DEF TypeInv, Database, CyclesInTurn
  <2>3. (RowsKept \/ UNCHANGED db) /\ db'.repairs = db.repairs /\ todo'[w] = {}
      BY <1>10 DEF Advances
  <2>4. ReviewsStay BY <2>3, KeptStay
  <2>5. (OwnersWork /\ CyclesInTurn)' BY <1>1, <2>1, <2>2, <2>3, WorksInTurn DEF Calm
  <2>6. Approved(db', c) BY <1>7, <1>10, <2>3 DEF RowsKept, Approved, AllPassed
  <2>7. EarnedWell' BY <1>4, <1>8, <1>9, <2>3, <2>6 DEF EarnedWell, Approved, AllPassed
  <2> QED BY <1>1, <1>6, <2>4, <2>5, <2>7, ClosedWell, WorksEarned
<1>11. CASE c \in 0..MaxRepairs - 1 /\ Advances(w, "REPAIRING", {RepairJob(c)})
  <2>1. ASSUME db'.repairs = db.repairs, pc'[w] = "enqueue" PROVE InTurn(RepairJob(c))'
    <3>1. Past(ReviewJob(c))' BY <1>1, <1>5, <2>1, WorksPast DEF Calm
    <3>2. c \in Nat BY <1>4, CyclesType
    <3> QED BY <1>4, <2>1, <3>1, <3>2, JobTypes DEF InTurn, Prior
  <2>2. {RepairJob(c)} \in SUBSET Jobs BY <1>11, JobsAre
  <2>3. "REPAIRING" \in EngineeringStatus \ {"COMPLETED"} BY DEF EngineeringStatus
  <2> QED BY <1>6, <1>11, <2>1, <2>2, <2>3, AdvanceEarned
<1>12. CASE Advances(w, "FAILED", {})
  <2>1. "FAILED" \in EngineeringStatus \ {"COMPLETED"} BY DEF EngineeringStatus
  <2> QED BY <1>6, <1>12, <2>1, AdvanceEarned
<1> QED BY <1>4, <1>10, <1>11, <1>12, ReviewCompletedEffect

LEMMA RepairCompletedEarned ==
  ASSUME TypeInv, EarnedInv, Calm, NEW w \in Workers, RepairCompleted(w)
  PROVE  EarnedInv'
<1>1. Works(w, Jobs, Database, UnitsOfWork) /\ TypeInv' BY RepairCompletedEffect
<1>2. view[w] # None /\ job[w].type = "REPAIR" BY DEF RepairCompleted, At
<1>3. PICK c \in Cycles : /\ job[w] \in Jobs /\ c = job[w].cycle
                         /\ view[w].repairs = c /\ db.repairs = c
    BY <1>1, <1>2, ReadsCurrent
<1>4. job[w] = RepairJob(c) /\ RepairJob(c) \in Jobs /\ c \in 0..MaxRepairs - 1
    BY <1>2, <1>3, JobParts
<1>5. pc'[w] \in {"settle", "raised", "enqueue"} /\ view'[w] = None BY AdvancesLeaves
<1>6. OwnersWork /\ CyclesInTurn BY DEF EarnedInv
<1>7. c \in Nat /\ MaxRepairs \in Nat
  <2>1. MaxRepairs \in Nat BY MaxRepairsAssumption
  <2> QED BY <1>3, <2>1, CyclesType
<1>8. CASE UNCHANGED db /\ todo'[w] = {}
  <2>1. ReviewsStay BY <1>8, KeptStay
  <2> QED BY <1>1, <1>5, <1>8, <2>1, ClosedWell, QuietStepEarned
<1>9. CASE /\ db'.status = "TESTING" /\ db'.repairs = c + 1 /\ RowsKept
           /\ todo'[w] = {TestJob(c + 1)} /\ pc'[w] = "enqueue"
  <2>1. db.repairs <= db'.repairs /\ db'.repairs \in Nat /\ db'.repairs <= MaxRepairs
    <3>1. c \in Nat /\ c <= c + 1 /\ c + 1 \in Nat BY <1>7
    <3>2. c + 1 <= MaxRepairs BY <1>4, <1>7
    <3>3. db.repairs = c /\ db'.repairs = c + 1 BY <1>3, <1>9
    <3> QED BY <3>1, <3>2, <3>3
  <2>2. ReviewsStay BY <1>9, <2>1 DEF ReviewsStay, RowsKept
  <2>3. Past(RepairJob(c))' BY <1>1, <1>4, <1>9, WorksPast DEF Calm
  <2>4. InTurn(TestJob(c + 1))' BY <1>7, <1>9, JobTypes DEF InTurn
  <2>5. \A k \in 0..MaxRepairs - 1 : k < db'.repairs => (k < db.repairs \/ Past(RepairJob(k))')
    <3> SUFFICES ASSUME NEW k \in 0..MaxRepairs - 1, k < c + 1, ~(k < c) PROVE Past(RepairJob(k))'
        BY <1>3, <1>9
    <3>1. k = c BY <1>7
    <3> QED BY <2>3, <3>1
  <2>6. (OwnersWork /\ CyclesInTurn)' BY <1>1, <1>6, <1>9, <2>1, <2>4, <2>5, WorksInTurn DEF Calm
  <2>7. EarnedWell' BY <1>9 DEF EarnedWell
  <2> QED BY <1>1, <1>5, <2>2, <2>6, <2>7, ClosedWell, WorksEarned
<1> QED BY <1>3, <1>8, <1>9, RepairCompletedEffect

LEMMA HandlerEarned ==
  ASSUME TypeInv, EarnedInv, NEW w \in Workers, Handler(w)
  PROVE  EarnedInv'
<1>1. Works(w, Jobs, Database, UnitsOfWork) /\ TypeInv' BY HandlerTypes
<1>2. CASE ~Calm BY <1>1, <1>2, CalmStays DEF EarnedInv
<1>3. CASE Calm
  <2>1. CASE StartPlan(w) \/ StartImplement(w) \/ StartTest(w) \/ StartReview(w) \/ StartRepair(w)
    <3>1. UNCHANGED db /\ todo'[w] = {} BY <2>1, Starting
    <3>2. ReviewsStay BY <3>1, KeptStay
    <3>3. ReadsWell(w)' /\ ApprovesWell(w)' BY <1>3, <2>1, StartsWell
    <3> QED BY <1>1, <1>3, <3>1, <3>2, <3>3, QuietStepEarned
  <2>2. CASE ProviderAnswers(w)
    <3>1. UNCHANGED <<db, job>> /\ todo'[w] = {} BY <2>2, Starting
    <3>2. ReviewsStay BY <3>1, KeptStay
    <3>3. pc'[w] = "store" /\ view'[w] = view[w]
        BY <2>2 DEF ProviderAnswers, Hold, TypeInv, Loop, LoopInv, LoopTyped
    <3>4. Executes(w) /\ ReadsWell(w) BY <1>1, <1>3, WorksPast DEF Calm, EarnedInv
    <3>5. ReadsWell(w)' BY <3>1, <3>3, <3>4 DEF ReadsWell
    <3>6. ApprovesWell(w)' BY <3>3 DEF ApprovesWell
    <3> QED BY <1>1, <1>3, <3>1, <3>2, <3>5, <3>6, QuietStepEarned
  <2>3. CASE ProviderFails(w)
    <3>1. UNCHANGED db /\ todo'[w] = {} /\ pc'[w] = "raised" /\ view'[w] = None
        BY <2>3, ProviderFailsEffect
    <3>2. ReviewsStay BY <3>1, KeptStay
    <3> QED BY <1>1, <1>3, <3>1, <3>2, ClosedWell, QuietStepEarned
  <2>4. CASE StorePlan(w) \/ StoreFiles(w)
    <3>1. /\ db'.status = db.status /\ db'.repairs = db.repairs
          /\ db'.reviews = db.reviews /\ db'.checks = db.checks
          /\ todo'[w] = {} /\ pc'[w] = "advance" /\ view'[w] = None
        BY <2>4, StorePlanEffect, StoreFilesEffect
    <3>2. db.repairs \in Nat BY CyclesType DEF TypeInv, Database
    <3>3. ReviewsStay BY <3>1, <3>2 DEF ReviewsStay
    <3> QED BY <1>1, <1>3, <3>1, <3>3, ClosedWell, QuietStepEarned
  <2>5. CASE PlanCompleted(w)
    <3> DEFINE keys == {ImplementJob(r) : r \in IMPLEMENTER_ROLES}
    <3>1. keys \in SUBSET Jobs BY JobsAre
    <3>2. \A j \in keys : j.type = "IMPLEMENT" /\ j.cycle = 0 BY DEF ImplementJob, Job
    <3>3. db.repairs \in Nat BY CyclesType DEF TypeInv, Database
    <3>4. "IMPLEMENTING" \in EngineeringStatus \ {"COMPLETED"} BY DEF EngineeringStatus
    <3>5. Advances(w, "IMPLEMENTING", keys) BY <2>5, PlanCompletedEffect
    <3> HIDE DEF keys
    <3>6. \A j \in keys : db'.repairs = db.repairs => InTurn(j)' BY <3>2, <3>3 DEF InTurn
    <3> QED BY <1>3, <2>5, <3>1, <3>4, <3>5, <3>6, AdvancesLeaves, AdvanceEarned
  <2>6. CASE MaybeScheduleTests(w)
    <3>1. {TestJob(0)} \in SUBSET Jobs BY JobsAre, CyclesType
    <3>2. db.repairs \in Nat BY CyclesType DEF TypeInv, Database
    <3>3. "TESTING" \in EngineeringStatus \ {"COMPLETED"} BY DEF EngineeringStatus
    <3>4. db'.repairs = db.repairs => InTurn(TestJob(0))' BY <3>2, JobTypes DEF InTurn
    <3>5. Advances(w, "TESTING", {TestJob(0)}) BY <2>6, MaybeScheduleTestsEffect
    <3> QED BY <1>3, <2>6, <3>1, <3>3, <3>4, <3>5, AdvancesLeaves, AdvanceEarned
  <2> QED BY <1>3, <2>1, <2>2, <2>3, <2>4, <2>5, <2>6, StoreChecksEarned, StoreReviewEarned,
             TestsCompletedEarned, ReviewCompletedEarned, RepairCompletedEarned DEF Handler
<1> QED BY <1>2, <1>3

\* What a step of the loop around the handlers leaves as it is: only the API
\* makes a job known, nothing that is past comes back, and a worker starts on a
\* job or goes on with it where it was.
LoopFrame ==
  /\ OwnersWork'
  /\ \A j \in Jobs : /\ jobs[j].status # "absent" => jobs'[j].status # "absent"
                     /\ Past(j) => Past(j)'
                     /\ Known(j)' => Known(j) \/ (j = PlanJob /\ api = "planning" /\ api' = "done")
  /\ \A u \in Workers : Executes(u)' =>
       \/ pc'[u] = "start" /\ view'[u] = None
       \/ job'[u] = job[u] /\ pc'[u] = pc[u] /\ view'[u] \in {view[u], db}

LEMMA LoopEarned ==
  ASSUME TypeInv, TypeInv', EarnedInv, Calm, RowsKept, db'.repairs = db.repairs,
         db'.status = "COMPLETED" => db'.status = db.status, LoopFrame
  PROVE  EarnedInv'
<1> USE DEF LoopFrame
<1>1. /\ db'.checks = db.checks /\ db'.reviews = db.reviews /\ db.repairs \in Nat
      /\ OwnersWork /\ CyclesInTurn /\ EarnedWell
      /\ \A u \in Workers : ReadsWell(u) /\ ApprovesWell(u)
    BY CyclesType DEF RowsKept, TypeInv, Database, EarnedInv
<1>2. ReviewsStay BY KeptStay
<1>3. EarnedWell' BY <1>1, <1>2, EarnedStays
<1>4. CyclesInTurn'
  <2>1. ASSUME NEW j \in Jobs, Known(j)' PROVE InTurn(j)'
    <3>1. CASE Known(j)
      <4>1. InTurn(j) BY <1>1, <3>1 DEF CyclesInTurn
      <4>2. j.type \in {"REVIEW", "REPAIR"} => Prior(j) \in Jobs BY JobsAre, JobParts DEF Prior
      <4> QED BY <4>1, <4>2 DEF InTurn, Prior
    <3>2. CASE j = PlanJob BY <1>1, <3>2, JobTypes DEF InTurn
    <3> QED BY <2>1, <3>1, <3>2
  <2>2. \A c \in 0..MaxRepairs - 1 : c < db'.repairs => Past(RepairJob(c))'
      BY <1>1, JobsAre DEF CyclesInTurn
  <2> QED BY <1>1, <2>1, <2>2 DEF CyclesInTurn
<1>5. ASSUME NEW u \in Workers PROVE ReadsWell(u)' /\ ApprovesWell(u)'
  <2>1. pc'[u] \in {"approve", "reject"} => Executes(u)'
      BY DEF Executes, TypeInv, Loop, LoopInv, LoopOK
  <2>2. CASE ~Executes(u)' BY <2>1, <2>2 DEF ReadsWell, ApprovesWell
  <2>3. CASE pc'[u] = "start" /\ view'[u] = None BY <2>3 DEF ReadsWell, ApprovesWell
  <2>4. CASE Executes(u)' /\ job'[u] = job[u] /\ pc'[u] = pc[u] /\ view'[u] = view[u]
    <3>1. db'.repairs \in Nat BY <1>1
    <3> QED BY <1>1, <1>2, <2>4, <3>1, OthersStayWell DEF Calm
  <2>5. CASE Executes(u)' /\ job'[u] = job[u] /\ pc'[u] = pc[u] /\ view'[u] = db
    <3>1. Executes(u) BY <2>5 DEF Executes
    <3>2. job[u] \in Jobs /\ Known(job[u]) BY <3>1, Acting DEF Calm
    <3>3. job[u].cycle <= db.repairs BY <1>1, <3>2 DEF CyclesInTurn, InTurn
    <3>4. ReadsWell(u)' BY <1>1, <2>5, <3>3 DEF ReadsWell
    <3>5. ApprovesWell(u)' BY <1>1, <2>5 DEF ApprovesWell, Approved, AllPassed
    <3> QED BY <3>4, <3>5
  <2> QED BY <2>2, <2>3, <2>4, <2>5
<1> QED BY <1>3, <1>4, <1>5 DEF EarnedInv

\* The worker that lets go of its job has no running one.
LEMMA DropFrame ==
  ASSUME TypeInv, EarnedInv, Calm,
         NEW w \in Workers, pc[w] \in {"terminal", "dead"}, NEW where \in {"idle", "dead"},
         Drop(w, where), UNCHANGED jobs
  PROVE  LoopFrame
<1> USE DEF TypeInv, Loop, LoopInv, LoopTyped
<1>1. /\ \A u \in Workers : u # w => /\ job'[u] = job[u] /\ pc'[u] = pc[u]
                                     /\ view'[u] = view[u] /\ todo'[u] = todo[u]
      /\ job'[w] = None /\ todo'[w] = {}
    BY DEF Drop, Goto
<1>2. job[w] = None \/ jobs[job[w]].status = "failed" BY DEF LoopOK, Exclusive, Calm
<1>3. OwnersWork'
  <2> SUFFICES ASSUME NEW j \in Jobs, jobs'[j].status = "running" PROVE job'[jobs'[j].owner] = j
      BY DEF OwnersWork
  <2>1. jobs[j].status = "running" /\ jobs[j].owner = jobs'[j].owner OBVIOUS
  <2>2. job[jobs[j].owner] = j BY <2>1 DEF EarnedInv, OwnersWork
  <2>3. jobs[j].owner \in Workers BY <2>1 DEF LoopOK, JobRow
  <2>4. jobs[j].owner # w BY <1>2, <2>1, <2>2, NoneAssumption
  <2> QED BY <1>1, <2>1, <2>2, <2>3, <2>4
<1>4. ASSUME NEW j \in Jobs
      PROVE  /\ jobs[j].status # "absent" => jobs'[j].status # "absent"
             /\ Past(j) => Past(j)'
             /\ Known(j)' => Known(j)
  <2>1. Past(j) => Past(j)' BY <1>1, NoneAssumption DEF Past, Executes
  <2>2. Known(j)' => Known(j) BY <1>1 DEF Known
  <2> QED BY <2>1, <2>2
<1>5. \A u \in Workers : Executes(u)' => job'[u] = job[u] /\ pc'[u] = pc[u] /\ view'[u] = view[u]
    BY <1>1 DEF Executes
<1> QED BY <1>3, <1>4, <1>5 DEF LoopFrame

\* The worker that settles its job, or gives it back, owned it.
LEMMA ReleaseFrame ==
  ASSUME TypeInv, EarnedInv, Calm, NEW w \in Workers, Settle(w) \/ Fail(w)
  PROVE  LoopFrame
<1> USE DEF TypeInv, Loop, LoopInv, LoopTyped
<1>1. job[w] \in Jobs BY DEF Settle, Fail, LoopOK
<1>2. Owns(w) /\ pc[w] \in {"settle", "raised"}
    BY <1>1, NoneAssumption DEF Settle, Fail, Exclusive, Calm
<1>3. PICK status \in {"done", "queued", "failed"} :
        /\ jobs' = Released(job[w], status)
        /\ status = "queued" => pc[w] = "raised"
        /\ job'[w] = None \/ pc'[w] = "terminal"
        /\ todo'[w] = {}
  <2>1. CASE Settle(w) BY <1>1, <1>2, <2>1 DEF Settle, Drop, Goto
  <2>2. CASE Fail(w)
    <3>1. \/ jobs' = Released(job[w], "failed") /\ Goto(w, "terminal", {})
          \/ jobs' = Released(job[w], "queued") /\ Drop(w, "idle")
        BY <1>2, <2>2 DEF Fail
    <3>2. pc[w] = "raised" BY <2>2 DEF Fail
    <3> QED BY <3>1, <3>2 DEF Drop, Goto
  <2> QED BY <2>1, <2>2
<1>4. \A u \in Workers : u # w => /\ job'[u] = job[u] /\ pc'[u] = pc[u]
                                  /\ view'[u] = view[u] /\ todo'[u] = todo[u]
    BY DEF Settle, Fail, Drop, Goto
<1>5. /\ jobs'[job[w]].status = status
      /\ \A j \in Jobs : j # job[w] => jobs'[j] = jobs[j]
    BY <1>1, <1>3 DEF Released
<1>6. ~Executes(w)' BY <1>3 DEF Executes
<1>7. OwnersWork'
  <2> SUFFICES ASSUME NEW j \in Jobs, jobs'[j].status = "running" PROVE job'[jobs'[j].owner] = j
      BY DEF OwnersWork
  <2>1. j # job[w] /\ jobs[j] = jobs'[j] BY <1>3, <1>5
  <2>2. job[jobs[j].owner] = j /\ jobs[j].status = "running" BY <2>1 DEF EarnedInv, OwnersWork
  <2>3. jobs[j].owner \in Workers BY <2>2 DEF LoopOK, JobRow
  <2> QED BY <1>4, <2>1, <2>2, <2>3
<1>8. ASSUME NEW j \in Jobs
      PROVE  /\ jobs[j].status # "absent" => jobs'[j].status # "absent"
             /\ Past(j) => Past(j)'
             /\ Known(j)' => Known(j)
  <2>1. jobs[j].status # "absent" => jobs'[j].status # "absent" BY <1>3, <1>5
  <2>2. Known(j)' => Known(j) BY <1>2, <1>3, <1>4, <1>5 DEF Known, Owns
  <2>3. ASSUME Past(j) PROVE Past(j)'
    <3>1. jobs'[j].status \notin {"absent", "queued"}
      <4>1. CASE j = job[w]
        <5>1. pc[w] # "raised" BY <1>1, <2>3, <4>1, NoneAssumption DEF Past, Executes
        <5> QED BY <1>3, <1>5, <4>1, <5>1
      <4>2. CASE j # job[w] BY <1>5, <2>3, <4>2 DEF Past
      <4> QED BY <4>1, <4>2
    <3>2. \A u \in Workers : u # w => (Executes(u)' <=> Executes(u)) BY <1>4 DEF Executes
    <3>3. ASSUME NEW u \in Workers, job'[u] = j PROVE ~Executes(u)'
      <4>1. CASE u = w BY <1>6, <4>1
      <4>2. CASE u # w BY <1>4, <2>3, <3>2, <3>3, <4>2 DEF Past
      <4> QED BY <4>1, <4>2
    <3> QED BY <3>1, <3>3 DEF Past
  <2> QED BY <2>1, <2>2, <2>3
<1>9. \A u \in Workers : Executes(u)' => job'[u] = job[u] /\ pc'[u] = pc[u] /\ view'[u] = view[u]
    BY <1>4, <1>6
<1> QED BY <1>7, <1>8, <1>9 DEF LoopFrame

LEMMA ClaimFrame ==
  ASSUME TypeInv, EarnedInv, Calm, NEW w \in Workers, NEW k \in Jobs, Claim(w, k)
  PROVE  LoopFrame
<1> USE DEF TypeInv, Loop, LoopInv, LoopTyped
<1>1. /\ jobs[k].status = "queued" /\ job[w] = None /\ view[w] = None
      /\ jobs'[k].status = "running" /\ jobs'[k].owner = w
      /\ \A j \in Jobs : j # k => jobs'[j] = jobs[j]
      /\ job'[w] = k /\ pc'[w] = "start"
      /\ \A u \in Workers : u # w => job'[u] = job[u] /\ pc'[u] = pc[u]
      /\ UNCHANGED <<db, view, todo>>
    BY DEF Claim, ClaimFor, LoopOK, UnitsOfWork
<1>2. OwnersWork'
  <2> SUFFICES ASSUME NEW j \in Jobs, j # k, jobs'[j].status = "running" PROVE job'[jobs'[j].owner] = j
      BY <1>1 DEF OwnersWork
  <2>1. jobs[j] = jobs'[j] BY <1>1
  <2>2. job[jobs[j].owner] = j /\ jobs[j].owner \in Workers
      BY <2>1 DEF EarnedInv, OwnersWork, LoopOK, JobRow
  <2>3. jobs[j].owner # w BY <1>1, <2>2, NoneAssumption
  <2> QED BY <1>1, <2>1, <2>2, <2>3
<1>3. ASSUME NEW j \in Jobs
      PROVE  /\ jobs[j].status # "absent" => jobs'[j].status # "absent"
             /\ Past(j) => Past(j)'
             /\ Known(j)' => Known(j)
  <2>1. jobs[j].status # "absent" => jobs'[j].status # "absent" BY <1>1
  <2>2. Known(j)' => Known(j) BY <1>1 DEF Known
  <2>3. ASSUME Past(j) PROVE Past(j)'
    <3>1. j # k BY <1>1, <2>3 DEF Past
    <3>2. jobs'[j].status \notin {"absent", "queued"} BY <1>1, <2>3, <3>1 DEF Past
    <3>3. ASSUME NEW u \in Workers, job'[u] = j PROVE ~Executes(u)'
      <4>1. u # w BY <1>1, <3>1, <3>3
      <4>2. Executes(u)' <=> Executes(u) BY <1>1, <4>1 DEF Executes
      <4> QED BY <1>1, <2>3, <3>3, <4>1, <4>2 DEF Past
    <3> QED BY <3>2, <3>3 DEF Past
  <2> QED BY <2>1, <2>2, <2>3
<1>4. \A u \in Workers : \/ pc'[u] = "start" /\ view'[u] = None
                         \/ job'[u] = job[u] /\ pc'[u] = pc[u] /\ view'[u] = view[u]
    BY <1>1
<1> QED BY <1>2, <1>3, <1>4 DEF LoopFrame

\* New jobs wait: they are known, and nothing that is past is touched.
LEMMA EnqueuedFrame ==
  ASSUME TypeInv, EarnedInv, Calm, NEW keys \in SUBSET Jobs,
         jobs' = Enqueued(jobs, keys), UNCHANGED job,
         \A j \in keys : Known(j) \/ (j = PlanJob /\ api = "planning" /\ api' = "done"),
         \A u \in Workers : /\ todo'[u] \subseteq todo[u]
                            /\ \/ pc'[u] = pc[u] /\ view'[u] = view[u]
                               \/ ~Executes(u)'
  PROVE  LoopFrame
<1> USE DEF TypeInv, Loop, LoopInv, LoopTyped
<1>1. ASSUME NEW j \in Jobs
      PROVE  /\ jobs[j].status # "absent" => jobs'[j] = jobs[j]
             /\ jobs[j].status = "absent" => jobs'[j].status \in {"absent", "queued"}
             /\ jobs'[j].status # jobs[j].status => j \in keys
    BY DEF Enqueued
<1>2. OwnersWork'
  <2> SUFFICES ASSUME NEW j \in Jobs, jobs'[j].status = "running" PROVE job'[jobs'[j].owner] = j
      BY DEF OwnersWork
  <2>1. jobs'[j] = jobs[j] BY <1>1
  <2> QED BY <2>1 DEF EarnedInv, OwnersWork
<1>3. \A u \in Workers : Executes(u)' => job'[u] = job[u] /\ pc'[u] = pc[u] /\ view'[u] = view[u]
    OBVIOUS
<1>4. ASSUME NEW j \in Jobs
      PROVE  /\ jobs[j].status # "absent" => jobs'[j].status # "absent"
             /\ Past(j) => Past(j)'
             /\ Known(j)' => Known(j) \/ (j = PlanJob /\ api = "planning" /\ api' = "done")
  <2>1. Past(j) => Past(j)' BY <1>1, <1>3 DEF Past, Executes
  <2>2. Known(j)' => Known(j) \/ (j = PlanJob /\ api = "planning" /\ api' = "done")
    <3>1. ASSUME jobs'[j].status # "absent"
          PROVE  Known(j) \/ (j = PlanJob /\ api = "planning" /\ api' = "done")
        BY <1>1, <3>1 DEF Known
    <3>2. ASSUME NEW u \in Workers, j \in todo'[u] PROVE Known(j) BY <3>2 DEF Known
    <3> QED BY <3>1, <3>2 DEF Known
  <2> QED BY <1>1, <2>1, <2>2
<1> QED BY <1>2, <1>3, <1>4 DEF LoopFrame

LEMMA LoopStepFrame ==
  ASSUME TypeInv, EarnedInv, LoopStep, Calm'
  PROVE  Calm /\ LoopFrame
<1>1. budget \in [raises : Nat, lapses : Nat, crashes : Nat, lost : SUBSET Jobs]
    BY DEF TypeInv, Loop, LoopInv, LoopTyped
<1>2. ASSUME NEW w \in Workers, Settle(w) \/ Fail(w) PROVE Calm /\ LoopFrame
  <2>1. UNCHANGED budget BY <1>2 DEF Settle, Fail
  <2> QED BY <1>2, <2>1, ReleaseFrame DEF Calm
<1>3. ASSUME NEW w \in Workers, CrashWorker(w) PROVE FALSE
    BY <1>1, <1>3 DEF CrashWorker, Calm
<1>4. ASSUME NEW w \in Workers, Restart(w) \/ ReportFailure(w) PROVE Calm /\ LoopFrame
  <2>1. PICK where \in {"idle", "dead"} : Drop(w, where) BY <1>4 DEF Restart, ReportFailure
  <2>2. UNCHANGED <<jobs, budget>> /\ pc[w] \in {"terminal", "dead"}
      BY <1>4 DEF Restart, ReportFailure, At
  <2> QED BY <2>1, <2>2, DropFrame DEF Calm
<1>5. ASSUME NEW w \in Workers, NEW j \in Jobs, Claim(w, j) PROVE Calm /\ LoopFrame
  <2>1. UNCHANGED budget BY <1>5 DEF Claim, ClaimFor
  <2> QED BY <1>5, <2>1, ClaimFrame DEF Calm
<1>6. ASSUME UNCHANGED <<jobs, pc, job, todo, budget>>, NEW w, view' \in {view, [view EXCEPT ![w] = db]}
      PROVE  Calm /\ LoopFrame
  <2>1. \A u \in Workers : job'[u] = job[u] /\ pc'[u] = pc[u] /\ view'[u] \in {view[u], db}
      BY <1>6 DEF TypeInv, Loop, LoopInv, LoopTyped
  <2>2. Calm BY <1>6 DEF Calm
  <2>3. OwnersWork' BY <1>6, <2>2 DEF EarnedInv, OwnersWork
  <2>4. \A j \in Jobs : /\ jobs[j].status # "absent" => jobs'[j].status # "absent"
                        /\ Past(j) => Past(j)'
                        /\ Known(j)' => Known(j)
      BY <1>6 DEF Past, Executes, Known
  <2> QED BY <2>1, <2>2, <2>3, <2>4 DEF LoopFrame
<1>7. ASSUME NEW w \in Workers, Begin(w) PROVE Calm /\ LoopFrame
  <2>1. UNCHANGED <<jobs, pc, job, todo, budget>> /\ view' \in {view, [view EXCEPT ![w] = db]}
      BY <1>7 DEF Begin, BeginAt
  <2> QED BY <1>6, <2>1
<1>8. ASSUME NEW w \in Workers, EnqueueNext(w) PROVE Calm /\ LoopFrame
  <2>1. PICK j \in todo[w] : EnqueueOne(w, j) BY <1>8 DEF EnqueueNext
  <2>2. /\ jobs' = Enqueued(jobs, {j}) /\ UNCHANGED <<job, budget>>
        /\ {j} \in SUBSET Jobs /\ Known(j)
      BY <2>1 DEF EnqueueOne, Known, TypeInv, Loop, LoopInv, LoopTyped
  <2>3. \A u \in Workers : /\ todo'[u] \subseteq todo[u]
                           /\ \/ pc'[u] = pc[u] /\ view'[u] = view[u]
                              \/ ~Executes(u)'
      BY <2>1 DEF EnqueueOne, Goto, Executes, TypeInv, Loop, LoopInv, LoopTyped
  <2> QED BY <2>2, <2>3, EnqueuedFrame DEF Calm
<1>9. ASSUME NEW j \in Jobs, Lapse(j) PROVE FALSE
  <2>1. budget.lapses = 0 /\ budget'.lapses = 0 /\ budget'.crashes = budget.crashes
      BY <1>1, <1>9 DEF Lapse, Calm
  <2>2. Calm BY <2>1 DEF Calm
  <2>3. job[jobs[j].owner] = j /\ jobs[j].owner # None
      BY <1>9, <2>2 DEF Lapse, EarnedInv, OwnersWork, TypeInv, Loop, LoopInv, LoopTyped, LoopOK
  <2>4. budget'.lapses = budget.lapses + 1 BY <1>1, <1>9, <2>3 DEF Lapse
  <2> QED BY <2>1, <2>4
<1>10. CASE CreateRun \/ Start BY <1>6, <1>10 DEF CreateRun, Start, workerVars
<1>11. CASE EnqueuePlan
  <2>1. jobs' = Enqueued(jobs, {PlanJob}) /\ UNCHANGED <<workerVars, budget>>
      BY <1>11 DEF EnqueuePlan
  <2>2. {PlanJob} \in SUBSET Jobs BY JobsAre
  <2>3. \A j \in {PlanJob} : Known(j) \/ (j = PlanJob /\ api = "planning" /\ api' = "done")
      BY <1>11 DEF EnqueuePlan
  <2>4. Calm BY <2>1 DEF Calm
  <2> QED BY <2>1, <2>2, <2>3, <2>4, EnqueuedFrame DEF workerVars
<1>12. ASSUME CrashApi PROVE FALSE BY <1>1, <1>12 DEF CrashApi, Calm
<1> QED BY <1>2, <1>3, <1>4, <1>5, <1>7, <1>8, <1>9, <1>10, <1>11, <1>12 DEF LoopStep

LEMMA LoopStepEarned ==
  ASSUME TypeInv, EarnedInv, LoopStep
  PROVE  EarnedInv'
<1> SUFFICES ASSUME Calm' PROVE EarnedInv' BY DEF EarnedInv
<1>1. Calm /\ LoopFrame BY LoopStepFrame
<1>2. /\ RowsKept /\ db'.repairs = db.repairs
      /\ db'.status = "COMPLETED" => db'.status = db.status
    BY LoopStepRows
<1> QED BY <1>1, <1>2, LoopStepTypes, LoopEarned

LEMMA EarnedIsInvariant == Spec => [](TypeInv /\ EarnedInv)
<1>1. Init => EarnedInv
  <2> SUFFICES ASSUME Init PROVE EarnedInv OBVIOUS
  <2>1. /\ \A j \in Jobs : jobs[j].status = "absent"
        /\ \A w \in Workers : job[w] = None /\ view[w] = None /\ todo[w] = {} /\ pc[w] = "idle"
        /\ db.status = "NONE" /\ db.repairs = 0
      BY DEF Init, LoopInit, NoJob
  <2>2. OwnersWork BY <2>1 DEF OwnersWork
  <2>3. \A j \in Jobs : ~Known(j) BY <2>1 DEF Known
  <2>4. 0 <= MaxRepairs /\ \A c \in 0..MaxRepairs - 1 : ~(c < 0) BY MaxRepairsAssumption
  <2>5. CyclesInTurn BY <2>1, <2>3, <2>4 DEF CyclesInTurn
  <2> QED BY <2>1, <2>2, <2>5 DEF EarnedInv, EarnedWell, ReadsWell, ApprovesWell, Executes
<1>2. TypeInv /\ EarnedInv /\ [Next]_vars => EarnedInv'
  <2> SUFFICES ASSUME TypeInv, EarnedInv, [Next]_vars PROVE EarnedInv' OBVIOUS
  <2>1. CASE UNCHANGED vars
    <3>1. UNCHANGED <<db, jobs, pc, job, view, todo, budget>> BY <2>1 DEF vars
    <3>2. TypeInv' BY TypesAreKept
    <3>3. \A j \in Jobs : (Past(j)' <=> Past(j)) /\ (Known(j)' <=> Known(j))
        BY <3>1 DEF Past, Executes, Known
    <3>4. OwnersWork' <=> OwnersWork BY <3>1 DEF OwnersWork
    <3>5. RowsKept /\ (Calm' <=> Calm) BY <3>1 DEF RowsKept, Calm
    <3>6. CASE Calm
      <4>1. OwnersWork' BY <3>4, <3>6 DEF EarnedInv
      <4>2. LoopFrame BY <3>1, <3>3, <4>1 DEF LoopFrame
      <4> QED BY <3>1, <3>2, <3>5, <3>6, <4>2, LoopEarned
    <3> QED BY <3>5, <3>6 DEF EarnedInv
  <2> QED BY <2>1, Steps, LoopStepEarned, HandlerEarned
<1> QED BY <1>1, <1>2, InitTypes, TypesAreKept, PTL DEF Spec

\* A COMPLETED run has a current cycle whose checks all passed and that a
\* reviewer approved, however many workers race for its jobs and however often
\* their providers fail, as long as none of them is killed or loses a lease.
THEOREM CompletedOnlyWhenEarned ==
  Spec => []((budget.lapses = 0 /\ budget.crashes = 0) => CompletedIsEarned)
<1>1. EarnedInv => ((budget.lapses = 0 /\ budget.crashes = 0) => CompletedIsEarned)
    BY DEF EarnedInv, Calm, EarnedWell, Approved, CompletedIsEarned
<1> QED BY <1>1, EarnedIsInvariant, PTL

-----------------------------------------------------------------------------
(* With one worker, and nobody killed, the run keeps what EngineeringWorkflow *)
(* promises: what the worker has read is how it is when it writes, so the     *)
(* stage cannot change under it, and its job finds the run in its stage.      *)

Solo == MaxCrashes = 0 /\ \E w : Workers = {w}

\* A job of the current cycle that is still to be executed finds the run in its
\* stage, or failed.
Due(j) == Known(j) /\ ~Past(j)
InStage ==
  \A c \in Cycles : c = db.repairs =>
    /\ Due(TestJob(c)) => db.status \in {"TESTING", "FAILED"}
    /\ Due(ReviewJob(c)) => db.status \in {"REVIEWING", "FAILED"}

\* Before the API has enqueued the plan there is no job.
ApiInv ==
  /\ api = "new" <=> db.status = "NONE"
  /\ api = "committed" => db.status = "CREATED"
  /\ api \in {"new", "committed", "planning"} => \A j \in Jobs : ~Known(j)

ReadsNow(w) ==
  /\ view[w] # None => view[w] = db
  /\ pc[w] \in {"calling", "store"} =>
       /\ db.status \notin Over
       /\ job[w].type = "TEST" => db.checks[job[w].cycle] = {}
       /\ job[w].type = "REVIEW" => db.reviews[job[w].cycle] = <<>>
  /\ pc[w] = "reject" => ~Approved(db, job[w].cycle)

SoloInv == Calm /\ InStage /\ ApiInv /\ \A w \in Workers : ReadsNow(w)

Follows == [Workflow!Next]_(Workflow!vars)

\* What a step of the handler of the only worker has to show.
StepsSolo(w) ==
  Follows /\ InStage' /\ ReadsNow(w)' /\ (db'.status = "NONE" => db.status = "NONE")

\* The stages and the cycle of the workflow.
LEMMA KeepsResults ==
  ASSUME db'.checks = db.checks, db'.reviews = db.reviews, db'.repairs = db.repairs
  PROVE  Workflow!Keep
BY DEF Workflow!Keep, AllPassed

LEMMA Stutters ==
  ASSUME db'.checks = db.checks, db'.reviews = db.reviews, db'.repairs = db.repairs,
         db'.status = db.status
  PROVE  Follows
BY KeepsResults DEF Follows, Workflow!vars, Workflow!Keep

\* The only worker reads what is there.
LEMMA ReadsDb ==
  ASSUME TypeInv, SoloInv, NEW w \in Workers, view[w] # None
  PROVE  view[w] = db /\ \A v \in Reads(w) : v = db
<1>1. view[w] = db /\ db \in Database BY DEF SoloInv, ReadsNow, TypeInv
<1>2. [db EXCEPT !.status = db.status, !.repairs = db.repairs] = db BY <1>1 DEF Database
<1> QED BY <1>1, <1>2 DEF Reads

LEMMA StaysDue ==
  ASSUME TypeInv, Calm, NEW w \in Workers, Works(w, Jobs, Database, UnitsOfWork),
         NEW j \in Jobs, Due(j)'
  PROVE  /\ Due(j) \/ j \in todo'[w]
         /\ pc'[w] \in {"enqueue", "settle"} => j # job[w]
BY WorksPast DEF Due, Calm

\* Nothing is due that was not, and the run stays in its stage, fails, or was in
\* none that anything due could want.
LEMMA NothingNewDue ==
  ASSUME TypeInv, Calm, InStage, NEW w \in Workers, Works(w, Jobs, Database, UnitsOfWork),
         db'.repairs = db.repairs, \A c \in Cycles : {TestJob(c), ReviewJob(c)} \cap todo'[w] = {},
         \/ db'.status \in {db.status, "FAILED"}
         \/ db.status \notin {"TESTING", "REVIEWING", "FAILED"}
  PROVE  InStage'
<1> SUFFICES ASSUME NEW c \in Cycles, c = db.repairs
             PROVE  /\ Due(TestJob(c))' => db'.status \in {"TESTING", "FAILED"}
                    /\ Due(ReviewJob(c))' => db'.status \in {"REVIEWING", "FAILED"}
    BY DEF InStage
<1>1. TestJob(c) \in Jobs /\ ReviewJob(c) \in Jobs BY JobsAre
<1>2. /\ Due(TestJob(c))' => Due(TestJob(c))
      /\ Due(ReviewJob(c))' => Due(ReviewJob(c))
    BY <1>1, StaysDue
<1> QED BY <1>2 DEF InStage

\* The run moves from a stage to one that may follow it, on what was read.
LEMMA SoloMoves ==
  ASSUME TypeInv, NEW w \in Workers, view[w] = db, NEW target \in EngineeringStatus,
         NEW keys, CommitStatus(w, target, keys),
         \/ db.status = "PLANNING" /\ target = "IMPLEMENTING"
         \/ db.status = "IMPLEMENTING" /\ target = "TESTING"
         \/ db.status = "TESTING" /\ target = "REVIEWING"
         \/ db.status = "REVIEWING" /\ target \in {"REPAIRING", "COMPLETED", "FAILED"}
  PROVE  /\ db'.status = target /\ db'.repairs = db.repairs /\ RowsKept
         /\ todo'[w] = keys /\ pc'[w] = ThenEnqueue(keys) /\ view'[w] = None
<1>1. target \in Allowed[db.status] BY DEF Allowed, EngineeringStatus
<1>2. Commit(w, [db EXCEPT !.status = target], ThenEnqueue(keys), keys)
    BY <1>1 DEF CommitStatus
<1>3. db \in Database BY DEF TypeInv
<1> QED BY <1>2, <1>3, StatusCommit DEF Commit, Goto, TypeInv, Loop, LoopInv, LoopTyped

LEMMA SoloReturns ==
  ASSUME TypeInv, NEW w \in Workers, NEW where \in {"settle", "enqueue"}, NEW keys, Return(w, where, keys)
  PROVE  UNCHANGED db /\ todo'[w] = keys /\ pc'[w] = where /\ view'[w] = None
BY DEF Return, Goto, TypeInv, Loop, LoopInv, LoopTyped

\* The run stays where it is.
LEMMA SoloStays ==
  ASSUME TypeInv, SoloInv, NEW w \in Workers, Works(w, Jobs, Database, UnitsOfWork),
         UNCHANGED db, todo'[w] = {}, ReadsNow(w)'
  PROVE  StepsSolo(w)
<1>1. InStage' BY NothingNewDue DEF SoloInv
<1> QED BY <1>1, Stutters DEF StepsSolo

LEMMA ClosedReadsNow ==
  ASSUME NEW w \in Workers, view'[w] = None, pc'[w] \notin {"calling", "store", "reject"}
  PROVE  ReadsNow(w)'
BY DEF ReadsNow

\* The orchestrator's units of work, each a step of the workflow.
LEMMA PlanCompletedSolo ==
  ASSUME TypeInv, SoloInv, NEW w \in Workers, PlanCompleted(w), Works(w, Jobs, Database, UnitsOfWork)
  PROVE  StepsSolo(w)
<1> DEFINE keys == {ImplementJob(r) : r \in IMPLEMENTER_ROLES}
<1>1. \A c \in Cycles : {TestJob(c), ReviewJob(c)} \cap keys = {}
    BY DEF TestJob, ReviewJob, ImplementJob, Job
<1>2. view[w] = db BY ReadsDb DEF PlanCompleted, At
<1>3. ReadsNow(w)' BY AdvancesLeaves, ClosedReadsNow
<1>4. \/ db.status = "PLANNING" /\ CommitStatus(w, "IMPLEMENTING", keys)
      \/ Return(w, "enqueue", keys) \/ Return(w, "settle", {})
    BY <1>2 DEF PlanCompleted
<1> HIDE DEF keys
<1>5. CASE db.status = "PLANNING" /\ CommitStatus(w, "IMPLEMENTING", keys)
  <2>1. /\ db'.status = "IMPLEMENTING" /\ db'.repairs = db.repairs /\ RowsKept /\ todo'[w] = keys
      BY <1>2, <1>5, SoloMoves DEF EngineeringStatus
  <2>2. InStage' BY <1>1, <1>5, <2>1, NothingNewDue DEF SoloInv
  <2>3. Workflow!Keep BY <2>1, KeepsResults DEF RowsKept
  <2>4. Workflow!Plan BY <1>5, <2>1, <2>3 DEF Workflow!Plan, Workflow!Move
  <2>5. Follows BY <2>4 DEF Follows, Workflow!Next
  <2> QED BY <1>3, <2>1, <2>2, <2>5 DEF StepsSolo
<1>6. CASE Return(w, "enqueue", keys) \/ Return(w, "settle", {})
  <2>1. UNCHANGED db /\ todo'[w] \in {{}, keys} BY <1>6, SoloReturns
  <2>2. \A c \in Cycles : {TestJob(c), ReviewJob(c)} \cap todo'[w] = {} BY <1>1, <2>1
  <2>3. InStage' BY <2>1, <2>2, NothingNewDue DEF SoloInv
  <2> QED BY <1>3, <2>1, <2>3, Stutters DEF StepsSolo
<1> QED BY <1>4, <1>5, <1>6

LEMMA MaybeScheduleTestsSolo ==
  ASSUME TypeInv, SoloInv, NEW w \in Workers, MaybeScheduleTests(w), Works(w, Jobs, Database, UnitsOfWork)
  PROVE  StepsSolo(w)
<1>1. view[w] = db /\ \A v \in Reads(w) : v = db BY ReadsDb DEF MaybeScheduleTests, At
<1>2. ReadsNow(w)' BY AdvancesLeaves, ClosedReadsNow
<1>3. \/ db.status = "IMPLEMENTING" /\ CommitStatus(w, "TESTING", {TestJob(0)})
      \/ Return(w, "settle", {})
    BY <1>1 DEF MaybeScheduleTests
<1>4. CASE db.status = "IMPLEMENTING" /\ CommitStatus(w, "TESTING", {TestJob(0)})
  <2>1. db'.status = "TESTING" /\ db'.repairs = db.repairs /\ RowsKept /\ todo'[w] = {TestJob(0)}
      BY <1>1, <1>4, SoloMoves DEF EngineeringStatus
  <2>2. ASSUME NEW c \in Cycles, c = db.repairs PROVE ~Due(ReviewJob(c))'
    <3>1. ReviewJob(c) \in Jobs /\ ReviewJob(c) # TestJob(0)
        BY JobsAre DEF ReviewJob, TestJob, Job
    <3>2. ~Due(ReviewJob(c)) BY <1>4, <2>2 DEF SoloInv, InStage
    <3> QED BY <2>1, <3>1, <3>2, StaysDue DEF SoloInv
  <2>3. InStage' BY <2>1, <2>2 DEF InStage
  <2>4. Workflow!Keep BY <2>1, KeepsResults DEF RowsKept
  <2>5. Workflow!Implement BY <1>4, <2>1, <2>4 DEF Workflow!Implement, Workflow!Move
  <2>6. Follows BY <2>5 DEF Follows, Workflow!Next
  <2> QED BY <1>2, <2>1, <2>3, <2>6 DEF StepsSolo
<1>5. CASE Return(w, "settle", {})
  <2>1. UNCHANGED db /\ todo'[w] = {} BY <1>5, SoloReturns
  <2> QED BY <1>2, <2>1, SoloStays
<1> QED BY <1>3, <1>4, <1>5

LEMMA TestsCompletedSolo ==
  ASSUME TypeInv, EarnedInv, SoloInv, NEW w \in Workers, TestsCompleted(w), Works(w, Jobs, Database, UnitsOfWork)
  PROVE  StepsSolo(w)
<1>1. Calm BY DEF SoloInv
<1>2. view[w] = db /\ view[w] # None /\ job[w].type = "TEST" BY ReadsDb DEF TestsCompleted, At
<1>3. PICK c \in Cycles : job[w] \in Jobs /\ c = job[w].cycle /\ db.repairs = c
    BY <1>1, <1>2, ReadsCurrent
<1>4. job[w] = TestJob(c) /\ TestJob(c) \in Jobs /\ ReviewJob(c) \in Jobs
    BY <1>2, <1>3, JobParts, JobsAre
<1>5. ReadsNow(w)' BY AdvancesLeaves, ClosedReadsNow
<1>6. \/ db.status = "TESTING" /\ CommitStatus(w, "REVIEWING", {ReviewJob(c)})
      \/ db.status = "REVIEWING" /\ Return(w, "enqueue", {ReviewJob(c)})
      \/ Return(w, "settle", {})
    BY <1>2, <1>3 DEF TestsCompleted
<1>7. ASSUME db'.repairs = c, db'.status = "REVIEWING", pc'[w] = "enqueue" PROVE InStage'
  <2>1. ~Due(TestJob(c))' BY <1>1, <1>4, <1>7, StaysDue
  <2> QED BY <1>7, <2>1 DEF InStage
<1>8. CASE db.status = "TESTING" /\ CommitStatus(w, "REVIEWING", {ReviewJob(c)})
  <2>1. db'.status = "REVIEWING" /\ db'.repairs = db.repairs /\ RowsKept /\ pc'[w] = "enqueue"
      BY <1>2, <1>8, SoloMoves DEF EngineeringStatus, ThenEnqueue
  <2>2. InStage' BY <1>3, <1>7, <2>1
  <2>3. Workflow!Keep BY <2>1, KeepsResults DEF RowsKept
  <2>4. Workflow!Test BY <1>8, <2>1, <2>3 DEF Workflow!Test, Workflow!Move
  <2>5. Follows BY <2>4 DEF Follows, Workflow!Next
  <2> QED BY <1>5, <2>1, <2>2, <2>5 DEF StepsSolo
<1>9. CASE db.status = "REVIEWING" /\ Return(w, "enqueue", {ReviewJob(c)})
  <2>1. UNCHANGED db /\ pc'[w] = "enqueue" BY <1>9, SoloReturns
  <2>2. InStage' BY <1>3, <1>7, <1>9, <2>1
  <2> QED BY <1>5, <2>1, <2>2, Stutters DEF StepsSolo
<1>10. CASE Return(w, "settle", {})
  <2>1. UNCHANGED db /\ todo'[w] = {} BY <1>10, SoloReturns
  <2> QED BY <1>5, <2>1, SoloStays
<1> QED BY <1>6, <1>8, <1>9, <1>10

LEMMA ReviewCompletedSolo ==
  ASSUME TypeInv, EarnedInv, SoloInv, NEW w \in Workers, ReviewCompleted(w), Works(w, Jobs, Database, UnitsOfWork)
  PROVE  StepsSolo(w)
<1>1. Calm BY DEF SoloInv
<1>2. view[w] = db /\ view[w] # None /\ pc[w] \in {"approve", "reject"}
    BY ReadsDb DEF ReviewCompleted, At
<1>3. job[w].type = "REVIEW" BY <1>1, <1>2 DEF EarnedInv, ApprovesWell
<1>4. PICK c \in Cycles : job[w] \in Jobs /\ c = job[w].cycle /\ db.repairs = c
    BY <1>1, <1>2, <1>3, ReadsCurrent
<1>5. job[w] = ReviewJob(c) /\ TestJob(c) \in Jobs /\ ReviewJob(c) \in Jobs
    BY <1>3, <1>4, JobParts, JobsAre
<1>6. ReadsNow(w)' BY AdvancesLeaves, ClosedReadsNow
<1>7. /\ pc[w] = "approve" => Approved(db, c)
      /\ pc[w] = "reject" => ~Approved(db, c)
    BY <1>1, <1>4 DEF EarnedInv, ApprovesWell, SoloInv, ReadsNow
<1>8. ASSUME db.status = "REVIEWING",
             NEW target \in {"COMPLETED", "REPAIRING", "FAILED"}, NEW keys,
             CommitStatus(w, target, keys), TestJob(c) \notin keys
      PROVE  /\ db'.status = target /\ Workflow!Keep
             /\ Follows => StepsSolo(w)
  <2>1. /\ db'.status = target /\ db'.repairs = db.repairs /\ RowsKept
        /\ todo'[w] = keys /\ pc'[w] \in {"enqueue", "settle"}
      BY <1>2, <1>8, SoloMoves DEF EngineeringStatus, ThenEnqueue
  <2>2. ~Due(ReviewJob(c))' BY <1>1, <1>5, <2>1, StaysDue
  <2>3. ~Due(TestJob(c)) BY <1>4, <1>8 DEF SoloInv, InStage
  <2>4. ~Due(TestJob(c))' BY <1>1, <1>5, <1>8, <2>1, <2>3, StaysDue
  <2>5. InStage' BY <1>4, <2>1, <2>2, <2>4 DEF InStage
  <2>6. Workflow!Keep BY <2>1, KeepsResults DEF RowsKept
  <2> QED BY <1>6, <1>8, <2>1, <2>5, <2>6 DEF StepsSolo
<1>9. CASE Return(w, "settle", {})
  <2>1. UNCHANGED db /\ todo'[w] = {} BY <1>9, SoloReturns
  <2> QED BY <1>6, <2>1, SoloStays
<1>10. CASE db.status = "REVIEWING" /\ pc[w] = "approve" /\ CommitStatus(w, "COMPLETED", {})
  <2>1. db'.status = "COMPLETED" /\ Workflow!Keep BY <1>8, <1>10
  <2>2. Approved(db, db.repairs) BY <1>4, <1>7, <1>10
  <2>3. Workflow!Complete
      BY <1>4, <1>10, <2>1, <2>2 DEF Workflow!Complete, Workflow!Move, Approved
  <2>4. Follows BY <2>3 DEF Follows, Workflow!Next
  <2> QED BY <1>8, <1>10, <2>4
<1>11. CASE /\ db.status = "REVIEWING" /\ pc[w] = "reject" /\ RepairsLeft(db)
            /\ CommitStatus(w, "REPAIRING", {RepairJob(c)})
  <2>1. TestJob(c) \notin {RepairJob(c)} BY DEF TestJob, RepairJob, Job
  <2>2. db'.status = "REPAIRING" /\ Workflow!Keep BY <1>8, <1>11, <2>1
  <2>3. ~Approved(db, db.repairs) BY <1>4, <1>7, <1>11
  <2>4. Workflow!Reject
      BY <1>4, <1>11, <2>2, <2>3 DEF Workflow!Reject, Workflow!Move, Approved, RepairsLeft
  <2>5. Follows BY <2>4 DEF Follows, Workflow!Next
  <2> QED BY <1>8, <1>11, <2>1, <2>5
<1>12. CASE db.status = "REVIEWING" /\ CommitStatus(w, "FAILED", {})
  <2>1. db'.status = "FAILED" /\ Workflow!Keep BY <1>8, <1>12
  <2>2. Workflow!GiveUp BY <1>12, <2>1 DEF Workflow!GiveUp, Workflow!Over
  <2>3. Follows BY <2>2 DEF Follows, Workflow!Next
  <2> QED BY <1>8, <1>12, <2>3
<1> QED BY <1>2, <1>4, <1>9, <1>10, <1>11, <1>12 DEF ReviewCompleted

LEMMA RepairCompletedSolo ==
  ASSUME TypeInv, EarnedInv, SoloInv, NEW w \in Workers, RepairCompleted(w), Works(w, Jobs, Database, UnitsOfWork)
  PROVE  StepsSolo(w)
<1>1. Calm BY DEF SoloInv
<1>2. view[w] = db /\ view[w] # None /\ job[w].type = "REPAIR" BY ReadsDb DEF RepairCompleted, At
<1>3. PICK c \in Cycles : job[w] \in Jobs /\ c = job[w].cycle /\ db.repairs = c
    BY <1>1, <1>2, ReadsCurrent
<1>4. c \in Nat BY CyclesType
<1>5. ReadsNow(w)' BY AdvancesLeaves, ClosedReadsNow
<1>6. CASE db.status # "REPAIRING"
  <2>1. Return(w, "settle", {}) BY <1>2, <1>6 DEF RepairCompleted
  <2>2. UNCHANGED db /\ todo'[w] = {} BY <2>1, SoloReturns
  <2> QED BY <1>5, <2>2, SoloStays
<1>7. CASE db.status = "REPAIRING"
  <2>1. "TESTING" \in Allowed[db.status] BY <1>7 DEF Allowed, EngineeringStatus
  <2>2. /\ c + 1 \in Cycles
        /\ Commit(w, [db EXCEPT !.status = "TESTING", !.repairs = c + 1], "enqueue", {TestJob(c + 1)})
      BY <1>2, <1>3, <1>7, <2>1 DEF RepairCompleted, NextTest
  <2>3. db \in Database /\ db' = [db EXCEPT !.status = "TESTING", !.repairs = c + 1]
      BY <2>2 DEF Commit, TypeInv
  <2>4. db'.status = "TESTING" /\ db'.repairs = c + 1 /\ RowsKept BY <2>2, <2>3, RepairCommit
  <2>5. todo'[w] = {TestJob(c + 1)}
      BY <2>2 DEF Commit, Goto, TypeInv, Loop, LoopInv, LoopTyped
  <2>6. ~Due(ReviewJob(c + 1))'
    <3>1. ReviewJob(c + 1) \in Jobs /\ ReviewJob(c + 1) # TestJob(c + 1)
        BY <2>2, JobsAre DEF ReviewJob, TestJob, Job
    <3>2. ~Known(ReviewJob(c + 1))
        BY <1>1, <1>3, <1>4, <3>1, JobTypes DEF EarnedInv, CyclesInTurn, InTurn
    <3> QED BY <1>1, <2>5, <3>1, <3>2, StaysDue DEF Due
  <2>7. InStage' BY <2>4, <2>6 DEF InStage
  <2>8. Workflow!Repair
      BY <1>3, <1>7, <2>4 DEF Workflow!Repair, Workflow!Move, RowsKept, AllPassed
  <2>9. Follows BY <2>8 DEF Follows, Workflow!Next
  <2> QED BY <1>5, <2>4, <2>7, <2>9 DEF StepsSolo
<1> QED BY <1>6, <1>7

\* Checks and reviews come once for each cycle, while the run is in their stage.
LEMMA StoreChecksSolo ==
  ASSUME TypeInv, EarnedInv, SoloInv, NEW w \in Workers, StoreChecks(w), Works(w, Jobs, Database, UnitsOfWork)
  PROVE  StepsSolo(w)
<1>1. Calm BY DEF SoloInv
<1>2. pc[w] = "store" /\ view[w] # None /\ job[w].type = "TEST" BY DEF StoreChecks, TypeInv
<1>3. PICK c \in Cycles : job[w] \in Jobs /\ c = job[w].cycle /\ db.repairs = c
    BY <1>1, <1>2, ReadsCurrent
<1>4. PICK p \in BOOLEAN : db'.checks[c] = db.checks[c] \union {p} BY <1>3, StoreChecksEffect
<1>5. /\ \A k \in Cycles : k # c => db'.checks[k] = db.checks[k]
      /\ db'.status = db.status /\ db'.repairs = db.repairs /\ db'.reviews = db.reviews
      /\ todo'[w] = {} /\ pc'[w] = "advance" /\ view'[w] = None
    BY <1>3, StoreChecksEffect
<1>6. db.status = "TESTING" /\ db.checks[c] = {}
  <2>1. job[w] = TestJob(c) BY <1>2, <1>3, JobParts
  <2>2. Executes(w) BY <1>1, WorksPast DEF Calm
  <2>3. Known(job[w]) /\ ~Past(job[w]) BY <1>1, <2>2, Acting DEF Past, Calm
  <2>4. Due(TestJob(c)) BY <2>1, <2>3 DEF Due
  <2>5. db.status \notin Over /\ db.checks[c] = {} BY <1>2, <1>3 DEF SoloInv, ReadsNow
  <2> QED BY <1>3, <2>4, <2>5 DEF SoloInv, InStage, Over
<1>7. Follows
  <2>1. {k \in Cycles : AllPassed(db', k)} = {k \in Cycles : AllPassed(db, k)} \union (IF p THEN {c} ELSE {})
      BY <1>4, <1>5, <1>6 DEF AllPassed
  <2>2. CASE p
    <3>1. Workflow!Pass BY <1>3, <1>5, <1>6, <2>1, <2>2 DEF Workflow!Pass, Workflow!Move, AllPassed
    <3> QED BY <3>1 DEF Follows, Workflow!Next
  <2>3. CASE ~p BY <1>5, <2>1, <2>3 DEF Follows, Workflow!vars, AllPassed
  <2> QED BY <2>2, <2>3
<1>8. InStage' BY <1>1, <1>5, NothingNewDue DEF SoloInv
<1> QED BY <1>5, <1>7, <1>8, ClosedReadsNow DEF StepsSolo

LEMMA OnlyReview ==
  ASSUME NEW s \in Seq(BOOLEAN), s # <<>>, Len(s) <= 1
  PROVE  Last(s) \in BOOLEAN /\ ToSet(s) = {Last(s)}
<1>1. Len(s) \in DOMAIN s OBVIOUS
<1>2. DOMAIN s = 1..Len(s) /\ Len(s) \in Nat OBVIOUS
<1>3. Len(s) = 1 BY <1>1, <1>2
<1>4. DOMAIN s = {1} /\ s[1] \in BOOLEAN BY <1>3
<1> QED BY <1>3, <1>4 DEF Last, ToSet

LEMMA StoreReviewSolo ==
  ASSUME TypeInv, EarnedInv, SoloInv, NEW w \in Workers, StoreReview(w), Works(w, Jobs, Database, UnitsOfWork)
  PROVE  StepsSolo(w)
<1>1. Calm BY DEF SoloInv
<1>2. pc[w] = "store" /\ view[w] = db /\ view[w] # None /\ job[w].type = "REVIEW"
    BY ReadsDb DEF StoreReview, TypeInv
<1>3. PICK c \in Cycles : job[w] \in Jobs /\ c = job[w].cycle /\ db.repairs = c
    BY <1>1, <1>2, ReadsCurrent
<1>4. PICK a \in BOOLEAN : /\ db'.reviews[c] \in {Append(db.reviews[c], a), <<a>> \o db.reviews[c]}
                           /\ pc'[w] = Verdict(a, db, c)
    BY <1>2, <1>3, StoreReviewEffect
<1>5. /\ \A k \in Cycles : k # c => db'.reviews[k] = db.reviews[k]
      /\ db'.status = db.status /\ db'.repairs = db.repairs /\ db'.checks = db.checks
      /\ todo'[w] = {} /\ view'[w] = None
    BY <1>3, StoreReviewEffect
<1>6. db.status = "REVIEWING" /\ db.reviews[c] = <<>>
  <2>1. job[w] = ReviewJob(c) BY <1>2, <1>3, JobParts
  <2>2. Executes(w) BY <1>1, WorksPast DEF Calm
  <2>3. Known(job[w]) /\ ~Past(job[w]) BY <1>1, <2>2, Acting DEF Past, Calm
  <2>4. Due(ReviewJob(c)) BY <2>1, <2>3 DEF Due
  <2>5. db.status \notin Over /\ db.reviews[c] = <<>> BY <1>2, <1>3 DEF SoloInv, ReadsNow
  <2> QED BY <1>3, <2>4, <2>5 DEF SoloInv, InStage, Over
<1>7. ToSet(db'.reviews[c]) = {a} /\ ToSet(db.reviews[c]) = {}
  <2>1. db'.reviews[c] = <<a>> BY <1>4, <1>6
  <2> QED BY <1>6, <2>1 DEF ToSet
<1>8. Follows
  <2>1. {k \in Cycles : TRUE \in ToSet(db'.reviews[k])}
          = {k \in Cycles : TRUE \in ToSet(db.reviews[k])} \union (IF a THEN {c} ELSE {})
    <3>1. \A k \in Cycles : k # c => ToSet(db'.reviews[k]) = ToSet(db.reviews[k]) BY <1>5
    <3>2. TRUE \in ToSet(db'.reviews[c]) <=> a BY <1>7
    <3>3. TRUE \notin ToSet(db.reviews[c]) BY <1>7
    <3>4. ASSUME NEW k \in Cycles
          PROVE  TRUE \in ToSet(db'.reviews[k]) <=>
                   (TRUE \in ToSet(db.reviews[k]) \/ k \in (IF a THEN {c} ELSE {}))
        BY <3>1, <3>2, <3>3
    <3> QED BY <3>4
  <2>2. CASE a
    <3>1. Workflow!Approve
        BY <1>3, <1>5, <1>6, <2>1, <2>2 DEF Workflow!Approve, Workflow!Move, AllPassed
    <3> QED BY <3>1 DEF Follows, Workflow!Next
  <2>3. CASE ~a BY <1>5, <2>1, <2>3 DEF Follows, Workflow!vars, AllPassed
  <2> QED BY <2>2, <2>3
<1>9. InStage' BY <1>1, <1>5, NothingNewDue DEF SoloInv
<1>10. ReadsNow(w)'
  <2>1. pc'[w] = "reject" => ~Approved(db', c) BY <1>4, <1>5, <1>7 DEF Verdict, Approved, AllPassed
  <2>2. pc'[w] \notin {"calling", "store"} BY <1>4 DEF Verdict
  <2>3. UNCHANGED job BY <1>1, WorksPast DEF Calm
  <2> QED BY <1>3, <1>5, <2>1, <2>2, <2>3 DEF ReadsNow, Approved, AllPassed
<1> QED BY <1>5, <1>8, <1>9, <1>10 DEF StepsSolo

\* What a handler that goes on has found: no artifact of its own.
LEMMA FoundNothing ==
  ASSUME TypeInv, NEW w \in Workers,
         \/ StartPlan(w) \/ StartImplement(w) \/ StartTest(w) \/ StartReview(w) \/ StartRepair(w),
         pc'[w] \in {"calling", "store"}
  PROVE  \E v \in Reads(w) :
           /\ view'[w] = v /\ v.status \notin Over
           /\ job[w].type = "TEST" => v.checks[job[w].cycle] = {}
           /\ job[w].type = "REVIEW" => v.reviews[job[w].cycle] = <<>>
<1>1. ASSUME NEW where \in {"settle", "advance", "approve", "reject"}, Return(w, where, {})
      PROVE  FALSE
    BY <1>1 DEF Return, Goto, TypeInv, Loop, LoopInv, LoopTyped
<1>2. ASSUME Raise(w) PROVE FALSE BY <1>2 DEF Raise, Return, Goto, TypeInv, Loop, LoopInv, LoopTyped
<1>3. ASSUME NEW where, NEW v, Hold(w, where, v) PROVE view'[w] = v
    BY <1>3 DEF Hold, TypeInv, Loop, LoopInv, LoopTyped
<1>4. CASE StartPlan(w) BY <1>4, <1>1, <1>3 DEF StartPlan
<1>5. CASE StartImplement(w) BY <1>5, <1>1, <1>2, <1>3 DEF StartImplement
<1>6. CASE StartTest(w) BY <1>6, <1>1, <1>2, <1>3 DEF StartTest
<1>7. CASE StartReview(w)
  <2>1. \A a, d, k : Verdict(a, d, k) \in {"approve", "reject"} BY DEF Verdict
  <2> QED BY <1>7, <1>1, <1>2, <1>3, <2>1 DEF StartReview
<1>8. CASE StartRepair(w) BY <1>8, <1>1, <1>2, <1>3 DEF StartRepair
<1> QED BY <1>4, <1>5, <1>6, <1>7, <1>8

LEMMA StartsSolo ==
  ASSUME TypeInv, OnceInv, SoloInv, NEW w \in Workers,
         \/ StartPlan(w) \/ StartImplement(w) \/ StartTest(w) \/ StartReview(w) \/ StartRepair(w)
  PROVE  StepsSolo(w)
<1>1. /\ UNCHANGED <<db, job>> /\ todo'[w] = {} /\ Works(w, Jobs, Database, UnitsOfWork)
    BY Starting
<1>2. view[w] # None /\ job[w] \in Jobs BY StartLeaves
<1>3. \A v \in Reads(w) : v = db BY <1>2, ReadsDb
<1>4. view'[w] # None => view'[w] = db' BY <1>1, <1>3, StartLeaves
<1>5. pc'[w] \in {"calling", "store"} =>
        /\ db'.status \notin Over
        /\ job'[w].type = "TEST" => db'.checks[job'[w].cycle] = {}
        /\ job'[w].type = "REVIEW" => db'.reviews[job'[w].cycle] = <<>>
    BY <1>1, <1>3, FoundNothing
<1>6. pc'[w] = "reject" => ~Approved(db, job[w].cycle)
  <2> SUFFICES ASSUME pc'[w] = "reject" PROVE ~Approved(db, job[w].cycle) OBVIOUS
  <2>1. PICK c \in Cycles : c = job[w].cycle BY <1>2, JobParts
  <2>2. db.reviews[c] # <<>> /\ pc'[w] = Verdict(Last(db.reviews[c]), db, c)
      BY <1>3, <2>1, StoredVerdict
  <2>3. db.reviews[c] \in Seq(BOOLEAN) BY DEF TypeInv, Database
  <2>4. Len(db.reviews[c]) <= 1 BY DEF OnceInv, StoredOnce, SoloInv, Calm
  <2>5. Last(db.reviews[c]) \in BOOLEAN /\ ToSet(db.reviews[c]) = {Last(db.reviews[c])}
      BY <2>2, <2>3, <2>4, OnlyReview
  <2> QED BY <2>1, <2>2, <2>5 DEF Verdict, Approved
<1>7. ReadsNow(w)' BY <1>1, <1>4, <1>5, <1>6 DEF ReadsNow, Approved, AllPassed
<1> QED BY <1>1, <1>7, SoloStays

LEMMA HandlerSolo ==
  ASSUME TypeInv, EarnedInv, OnceInv, SoloInv, NEW w \in Workers, Handler(w)
  PROVE  StepsSolo(w)
<1>1. Works(w, Jobs, Database, UnitsOfWork) BY HandlerTypes
<1>2. Calm BY DEF SoloInv
<1>3. CASE ProviderAnswers(w)
  <2>1. UNCHANGED <<db, job>> /\ todo'[w] = {} BY <1>3, Starting
  <2>2. pc[w] = "calling" /\ pc'[w] = "store" /\ view'[w] = view[w]
      BY <1>3 DEF ProviderAnswers, Hold, TypeInv, Loop, LoopInv, LoopTyped
  <2>3. ReadsNow(w)' BY <2>1, <2>2 DEF SoloInv, ReadsNow
  <2> QED BY <1>1, <2>1, <2>3, SoloStays
<1>4. CASE ProviderFails(w)
  <2>1. UNCHANGED db /\ todo'[w] = {} /\ pc'[w] = "raised" /\ view'[w] = None
      BY <1>4, ProviderFailsEffect
  <2> QED BY <1>1, <2>1, ClosedReadsNow, SoloStays
<1>5. CASE StorePlan(w) \/ StoreFiles(w)
  <2>1. /\ db'.status = db.status /\ db'.repairs = db.repairs
        /\ db'.reviews = db.reviews /\ db'.checks = db.checks
        /\ todo'[w] = {} /\ pc'[w] = "advance" /\ view'[w] = None
      BY <1>5, StorePlanEffect, StoreFilesEffect
  <2>2. InStage' BY <1>1, <2>1, NothingNewDue DEF SoloInv
  <2> QED BY <2>1, <2>2, ClosedReadsNow, Stutters DEF StepsSolo
<1> QED BY <1>1, <1>3, <1>4, <1>5, StartsSolo, StoreChecksSolo, StoreReviewSolo, PlanCompletedSolo,
           MaybeScheduleTestsSolo, TestsCompletedSolo, ReviewCompletedSolo, RepairCompletedSolo
        DEF Handler

LEMMA SoloWorker ==
  ASSUME Solo, NEW w \in Workers, NEW u \in Workers
  PROVE  u = w
BY DEF Solo

\* Nobody is killed, and a worker that is alone cannot find its own lease run out.
LEMMA SoloIsCalm ==
  ASSUME Solo, TypeInv, Calm, Next
  PROVE  Calm'
<1>1. budget \in [raises : Nat, lapses : Nat, crashes : Nat, lost : SUBSET Jobs]
    BY DEF TypeInv, Loop, LoopInv, LoopTyped
<1>2. ASSUME NEW w \in Workers, Handler(w) PROVE Calm' BY <1>2, HandlerTypes, CalmStays
<1>3. ASSUME NEW w \in Workers, CrashWorker(w) PROVE FALSE
  <2>1. budget["crashes"] < MaxCrashes BY <1>3 DEF CrashWorker, May
  <2> QED BY <1>1, <2>1 DEF Solo
<1>4. ASSUME CrashApi PROVE FALSE
  <2>1. budget["crashes"] < MaxCrashes BY <1>4 DEF CrashApi, May
  <2> QED BY <1>1, <2>1 DEF Solo
<1>5. ASSUME NEW j \in Jobs, Lapse(j) PROVE Calm'
  <2>1. PICK w \in Workers : pc[w] = "idle" BY <1>5 DEF Lapse
  <2>2. job[w] = None /\ jobs[j].owner \in Workers \union {None}
      BY <2>1 DEF TypeInv, Loop, LoopInv, LoopTyped, LoopOK, JobRow
  <2>3. ~(jobs[j].owner # None /\ job[jobs[j].owner] = j) BY <2>2, SoloWorker, NoneAssumption
  <2>4. budget' = [budget EXCEPT !.lapses = @ + 0] BY <1>5, <2>3 DEF Lapse
  <2> QED BY <1>1, <2>4 DEF Calm
<1>6. \/ UNCHANGED budget
      \/ \E w \in Workers : Handler(w) \/ CrashWorker(w)
      \/ CrashApi
      \/ \E j \in Jobs : Lapse(j)
    BY DEF Next, Proceed, CreateRun, Start, EnqueuePlan, Begin, BeginAt, EnqueueNext, EnqueueOne,
           Settle, Fail, ReportFailure, Restart, Claim, ClaimFor
<1> QED BY <1>2, <1>3, <1>4, <1>5, <1>6 DEF Calm

\* The steps around the handler: the worker keeps what it has read only where
\* the rows stay as they are.
LEMMA LoopStepReads ==
  ASSUME Solo, TypeInv, SoloInv, LoopStep, Calm', NEW w \in Workers
  PROVE  ReadsNow(w)'
<1> USE DEF TypeInv, Loop, LoopInv, LoopTyped
<1>1. ASSUME NEW u \in Workers, NEW where \in {"idle", "dead", "terminal", "settle", "enqueue"},
             NEW keys, Goto(u, where, keys)
      PROVE  ReadsNow(w)'
  <2>1. u = w BY SoloWorker
  <2> QED BY <1>1, <2>1 DEF Goto, ReadsNow
<1>2. ASSUME NEW u \in Workers, Settle(u) \/ Fail(u) \/ CrashWorker(u) \/ Restart(u) \/ ReportFailure(u)
      PROVE  ReadsNow(w)'
    BY <1>1, <1>2 DEF Settle, Fail, CrashWorker, Restart, ReportFailure, Drop
<1>3. ASSUME NEW u \in Workers, EnqueueNext(u) PROVE ReadsNow(w)'
    BY <1>1, <1>3 DEF EnqueueNext, EnqueueOne
<1>4. ASSUME NEW u \in Workers, NEW j \in Jobs, Claim(u, j) PROVE ReadsNow(w)'
  <2>1. u = w BY SoloWorker
  <2>2. view[w] = None BY <1>4, <2>1 DEF Claim, ClaimFor, LoopOK, UnitsOfWork
  <2> QED BY <1>4, <2>1, <2>2 DEF Claim, ClaimFor, ReadsNow
<1>5. ASSUME NEW u \in Workers, Begin(u) PROVE ReadsNow(w)'
  <2>1. u = w BY SoloWorker
  <2>2. /\ UNCHANGED <<db, pc, job>> /\ view'[w] = db
        /\ pc[w] \notin {"calling", "store"}
      BY <1>5, <2>1 DEF Begin, BeginAt
  <2>3. pc[w] = "reject" => ~Approved(db, job[w].cycle) BY DEF SoloInv, ReadsNow
  <2> QED BY <2>2, <2>3 DEF ReadsNow, Approved, AllPassed
<1>6. CASE CreateRun \/ Start
  <2>1. \A j \in Jobs : ~Known(j) BY <1>6 DEF CreateRun, Start, SoloInv, ApiInv
  <2>2. job[w] = None BY <2>1 DEF Known, HoldsRow
  <2>3. pc[w] \in {"idle", "dead"} /\ view[w] = None BY <2>2 DEF LoopOK, UnitsOfWork
  <2>4. UNCHANGED workerVars BY <1>6 DEF CreateRun, Start
  <2> QED BY <2>3, <2>4 DEF workerVars, ReadsNow
<1>7. ASSUME UNCHANGED <<db, workerVars>> PROVE ReadsNow(w)'
  <2>1. ReadsNow(w) BY DEF SoloInv
  <2> QED BY <1>7, <2>1 DEF workerVars, ReadsNow, Approved, AllPassed
<1>8. CASE EnqueuePlan \/ CrashApi \/ \E j \in Jobs : Lapse(j)
    BY <1>7, <1>8 DEF EnqueuePlan, CrashApi, Lapse
<1> QED BY <1>2, <1>3, <1>4, <1>5, <1>6, <1>8 DEF LoopStep

LEMMA LoopStepSolo ==
  ASSUME Solo, TypeInv, EarnedInv, SoloInv, LoopStep, Calm'
  PROVE  Follows /\ SoloInv'
<1>1. LoopFrame BY LoopStepFrame
<1>2. RowsKept /\ db'.repairs = db.repairs BY LoopStepRows
<1>3. \/ CreateRun \/ Start \/ EnqueuePlan \/ CrashApi
      \/ UNCHANGED <<db, api>>
      \/ UNCHANGED api /\ \E w \in Workers : ReportFailure(w)
    BY DEF LoopStep, Settle, Fail, CrashWorker, Restart, ReportFailure, Claim, ClaimFor,
           Begin, BeginAt, EnqueueNext, EnqueueOne, Lapse
<1>4. Workflow!Keep BY <1>2, KeepsResults DEF RowsKept
\* A job that nobody knew is the plan.
<1>5. \A j \in Jobs : Known(j)' => Known(j) \/ (j = PlanJob /\ api = "planning" /\ api' = "done")
    BY <1>1 DEF LoopFrame
<1>6. ASSUME NEW c \in Cycles
      PROVE  (Due(TestJob(c))' => Due(TestJob(c))) /\ (Due(ReviewJob(c))' => Due(ReviewJob(c)))
  <2>1. /\ TestJob(c) \in Jobs /\ ReviewJob(c) \in Jobs
        /\ TestJob(c) # PlanJob /\ ReviewJob(c) # PlanJob
      BY JobsAre DEF TestJob, ReviewJob, PlanJob, Job
  <2> QED BY <1>1, <2>1 DEF LoopFrame, Due
<1>7. ASSUME db'.status \in {db.status, "FAILED"} PROVE InStage'
    BY <1>2, <1>6, <1>7 DEF SoloInv, InStage
<1>8. CASE CreateRun
  <2>1. db' = [db EXCEPT !.status = "CREATED"] /\ db.status = "NONE" /\ api' = "committed"
      BY <1>8 DEF CreateRun, SoloInv, ApiInv
  <2>2. db'.status = "CREATED" BY <2>1 DEF TypeInv, Database
  <2>3. Workflow!Create BY <1>4, <2>1, <2>2 DEF Workflow!Create, Workflow!Move
  <2>4. Follows BY <2>3 DEF Follows, Workflow!Next
  <2>5. \A j \in Jobs : ~Known(j) /\ ~Known(j)' BY <1>5, <1>8, <2>1 DEF CreateRun, SoloInv, ApiInv
  <2>6. InStage' BY <2>5, JobsAre DEF InStage, Due
  <2>7. ApiInv' BY <2>1, <2>2, <2>5 DEF ApiInv
  <2> QED BY <2>4, <2>6, <2>7, LoopStepReads DEF SoloInv
<1>9. CASE Start
  <2>1. db' = [db EXCEPT !.status = "PLANNING"] /\ db.status = "CREATED" /\ api' = "planning"
      BY <1>9 DEF Start, SoloInv, ApiInv
  <2>2. db'.status = "PLANNING" BY <2>1 DEF TypeInv, Database
  <2>3. Workflow!Start BY <1>4, <2>1, <2>2 DEF Workflow!Start, Workflow!Move
  <2>4. Follows BY <2>3 DEF Follows, Workflow!Next
  <2>5. \A j \in Jobs : ~Known(j) /\ ~Known(j)' BY <1>5, <1>9, <2>1 DEF Start, SoloInv, ApiInv
  <2>6. InStage' BY <2>5, JobsAre DEF InStage, Due
  <2>7. ApiInv' BY <2>1, <2>2, <2>5 DEF ApiInv
  <2> QED BY <2>4, <2>6, <2>7, LoopStepReads DEF SoloInv
<1>10. CASE EnqueuePlan \/ CrashApi
  <2>1. UNCHANGED db /\ api # "new" /\ api' \in {"done", "dead"} BY <1>10 DEF EnqueuePlan, CrashApi
  <2>2. ApiInv' BY <2>1 DEF SoloInv, ApiInv
  <2> QED BY <1>7, <2>1, <2>2, Stutters, LoopStepReads DEF SoloInv
<1>11. CASE UNCHANGED <<db, api>>
  <2>1. ApiInv' BY <1>5, <1>11 DEF SoloInv, ApiInv
  <2> QED BY <1>7, <1>11, <2>1, Stutters, LoopStepReads DEF SoloInv
<1>12. ASSUME NEW w \in Workers, ReportFailure(w), UNCHANGED api PROVE Follows /\ SoloInv'
  <2>1. view[w] = db /\ job[w] \in Jobs /\ jobs[job[w]].status # "absent"
    <3>1. pc[w] = "terminal" /\ view[w] # None BY <1>12 DEF ReportFailure, At
    <3> QED BY <3>1, ReadsDb DEF TypeInv, Loop, LoopInv, LoopTyped, LoopOK, HoldsRow
  <2>2. api \notin {"new", "committed", "planning"} /\ db.status # "NONE"
      BY <2>1 DEF Known, SoloInv, ApiInv
  <2>3. UNCHANGED db \/ (db.status \notin Over /\ db' = [db EXCEPT !.status = "FAILED"])
      BY <1>12, <2>1 DEF ReportFailure
  <2>4. db'.status \in {db.status, "FAILED"} BY <2>3 DEF TypeInv, Database
  <2>5. CASE UNCHANGED db
    <3>1. ApiInv' BY <1>12, <2>2, <2>5 DEF SoloInv, ApiInv
    <3> QED BY <1>7, <2>5, <3>1, Stutters, LoopStepReads DEF SoloInv
  <2>6. CASE db.status \notin Over /\ db' = [db EXCEPT !.status = "FAILED"]
    <3>1. db'.status = "FAILED" BY <2>6 DEF TypeInv, Database
    <3>2. Workflow!GiveUp BY <1>4, <2>2, <2>6, <3>1 DEF Workflow!GiveUp, Workflow!Over, Over
    <3>3. Follows BY <3>2 DEF Follows, Workflow!Next
    <3>4. ApiInv' BY <1>12, <2>2, <3>1 DEF SoloInv, ApiInv
    <3> QED BY <1>7, <3>1, <3>3, <3>4, LoopStepReads DEF SoloInv
  <2> QED BY <2>3, <2>5, <2>6
<1> QED BY <1>3, <1>8, <1>9, <1>10, <1>11, <1>12

LEMMA SoloStep ==
  ASSUME Solo, TypeInv, EarnedInv, OnceInv, SoloInv, [Next]_vars
  PROVE  Follows /\ SoloInv'
<1>1. CASE UNCHANGED vars
  <2>1. UNCHANGED <<db, jobs, api, pc, job, view, todo, budget>> BY <1>1 DEF vars
  <2>2. Follows BY <2>1, Stutters
  <2>3. \A j \in Jobs : (Known(j)' <=> Known(j)) /\ (Due(j)' <=> Due(j))
      BY <2>1 DEF Due, Known, Past, Executes
  <2>4. InStage' BY <2>1, <2>3, JobsAre DEF SoloInv, InStage
  <2>5. ApiInv' BY <2>1, <2>3 DEF SoloInv, ApiInv
  <2>6. \A w \in Workers : ReadsNow(w)' <=> ReadsNow(w) BY <2>1 DEF ReadsNow, Approved, AllPassed
  <2> QED BY <2>1, <2>2, <2>4, <2>5, <2>6 DEF SoloInv, Calm
<1>2. CASE LoopStep
  <2>1. Calm' BY <1>2, Steps, SoloIsCalm DEF SoloInv
  <2> QED BY <1>2, <2>1, LoopStepSolo
<1>3. ASSUME NEW w \in Workers, Handler(w) PROVE Follows /\ SoloInv'
  <2>1. Calm' BY <1>3, Steps, SoloIsCalm DEF SoloInv
  <2>2. StepsSolo(w) BY <1>3, HandlerSolo
  <2>3. \A u \in Workers : ReadsNow(u)'
    <3> SUFFICES ASSUME NEW u \in Workers PROVE ReadsNow(u)' OBVIOUS
    <3>1. u = w BY SoloWorker
    <3> QED BY <2>2, <3>1 DEF StepsSolo
  <2>4. Works(w, Jobs, Database, UnitsOfWork) BY <1>3, HandlerTypes
  <2>5. Executes(w) BY <2>4, WorksPast DEF SoloInv, Calm
  <2>6. job[w] \in Jobs /\ Known(job[w]) BY <2>5, Acting DEF SoloInv, Calm
  <2>7. api \notin {"new", "committed", "planning"} /\ db.status # "NONE"
      BY <2>6 DEF SoloInv, ApiInv
  <2>8. UNCHANGED api
      BY <1>3 DEF Handler, StartPlan, StartImplement, StartTest, StartReview, StartRepair,
           ProviderAnswers, ProviderFails, StorePlan, StoreFiles, StoreChecks, StoreReview,
           PlanCompleted, MaybeScheduleTests, TestsCompleted, ReviewCompleted, RepairCompleted,
           CommitStatus, Return, Raise, Hold, Commit
  <2>9. ApiInv' BY <2>2, <2>7, <2>8 DEF StepsSolo, ApiInv
  <2> QED BY <2>1, <2>2, <2>3, <2>9 DEF StepsSolo, SoloInv
<1> QED BY <1>1, <1>2, <1>3, Steps

\* One worker that is not killed takes the run through the workflow it promises:
\* stage after stage, at most MaxRepairs repairs, each cycle tested and reviewed
\* once, and COMPLETED only by an approval of checks that passed, however often
\* providers fail and jobs are retried.
THEOREM OneWorkerKeepsWorkflow == Solo => (Spec => ImplementsWorkflow)
<1> SUFFICES ASSUME Solo PROVE Spec => ImplementsWorkflow OBVIOUS
<1>1. Init => SoloInv /\ Workflow!Init
  <2> SUFFICES ASSUME Init PROVE SoloInv /\ Workflow!Init OBVIOUS
  <2>1. /\ \A j \in Jobs : jobs[j].status = "absent"
        /\ \A w \in Workers : job[w] = None /\ view[w] = None /\ todo[w] = {} /\ pc[w] = "idle"
        /\ db.status = "NONE" /\ db.repairs = 0 /\ api = "new"
        /\ \A c \in Cycles : db.checks[c] = {} /\ db.reviews[c] = <<>>
        /\ Calm
      BY DEF Init, LoopInit, NoJob, Calm
  <2>2. \A j \in Jobs : ~Known(j) BY <2>1 DEF Known
  <2>3. InStage BY <2>2, JobsAre DEF InStage, Due
  <2>4. ApiInv BY <2>1, <2>2 DEF ApiInv
  <2>5. ToSet(<<>>) = {} BY DEF ToSet
  <2>6. Workflow!Init BY <2>1, <2>5 DEF Workflow!Init, AllPassed
  <2> QED BY <2>1, <2>3, <2>4, <2>6 DEF SoloInv, ReadsNow
<1>2. TypeInv /\ EarnedInv /\ OnceInv /\ SoloInv /\ [Next]_vars => SoloInv' /\ Follows
    BY SoloStep
<1> QED BY <1>1, <1>2, EarnedIsInvariant, OnceIsInvariant, PTL
        DEF Spec, ImplementsWorkflow, Workflow!Spec, Follows

-----------------------------------------------------------------------------
(* A run fails only for cause. Where nobody is killed or loses a lease, and   *)
(* providers fail less often than one job may be attempted, no job fails:     *)
(* every attempt that is used up is paid for by a provider failure, but for   *)
(* one. A handler finds what it needs, so only the orchestrator's update of   *)
(* the status can make it raise, when what it decided on is out of date; and  *)
(* at any time at most one decision is out of date.                           *)

Frugal == Calm /\ budget.raises < MaxAttempts - 1

\* What a job needs of those before it, and what its handler leaves behind.
Supplied(d, j) ==
  /\ j.type = "IMPLEMENT" => d.plans > 0
  /\ j.type \in {"TEST", "REVIEW", "REPAIR"} => SomeFiles(d, j.cycle)
  /\ j.type \in {"REVIEW", "REPAIR"} => d.checks[j.cycle] # {}
  /\ j.type = "REPAIR" => d.reviews[j.cycle] # <<>>
Stored(d, j) ==
  /\ j.type = "PLAN" => d.plans > 0
  /\ j.type = "TEST" => d.checks[j.cycle] # {}
  /\ j.type = "REPAIR" => SomeFiles(d, j.cycle + 1)
Rejected(d, c) == d.reviews[c] # <<>> /\ ~(Last(d.reviews[c]) /\ AllPassed(d, c))

\* The run is past the stage that enqueues the job.
Early == {"NONE", "CREATED", "PLANNING"}
Underway == EngineeringStatus \ (Early \union {"IMPLEMENTING"})
StageOf(j) ==
  /\ j.type = "IMPLEMENT" => Past(PlanJob) /\ db.status \notin Early
  /\ j.type \in {"TEST", "REVIEW", "REPAIR"} => Past(PlanJob) /\ db.status \in Underway
Fits(j) == Known(j) => Supplied(db, j) /\ StageOf(j)

\* What a handler has read is no newer than the rows, and has what it needs.
Older(d) ==
  /\ d.plans > 0 => db.plans > 0
  /\ \A c \in Cycles : /\ d.checks[c] # {} => db.checks[c] # {}
                       /\ d.reviews[c] # <<>> => db.reviews[c] # <<>>
HasRead(w) == (Executes(w) /\ view[w] # None) =>
  Older(view[w]) /\ Supplied(view[w], job[w])
HasStored(w) ==
  /\ pc[w] = "advance" => Stored(db, job[w])
  /\ pc[w] \in {"approve", "reject"} => db.reviews[job[w].cycle] # <<>>
  /\ pc[w] = "reject" => Rejected(db, job[w].cycle)

\* A decision that the run has overtaken: the implementer's if the other one has
\* set off the tests, any other if the status is not what it was.
Decides(w) == Executes(w) /\ pc[w] \in {"advance", "approve", "reject"} /\ view[w] # None
Overtaken(w) ==
  /\ Decides(w)
  /\ IF job[w].type = "IMPLEMENT"
       THEN view[w].status = "IMPLEMENTING" /\ db.status # "IMPLEMENTING"
       ELSE view[w].status # db.status
OneOvertaken ==
  /\ \A w, u \in Workers : Overtaken(w) /\ Overtaken(u) => w = u
  /\ \A w \in Workers : Overtaken(w) => job[w].type # "PLAN"

\* The attempts that a job has used up.
Spent(j) == IF jobs[j].status = "running" /\ pc[jobs[j].owner] # "raised"
              THEN jobs[j].attempt - 1 ELSE jobs[j].attempt
SpentWithin(n) == \A j \in Jobs : jobs[j].status # "done" => Spent(j) <= n
Paid ==
  \/ SpentWithin(budget.raises)
  \/ /\ SpentWithin(budget.raises + 1)
     /\ \A w \in Workers : ~Overtaken(w)
     /\ db.status \in Underway

FailedWell == db.status = "FAILED" =>
  db.repairs = MaxRepairs /\ Past(ReviewJob(MaxRepairs)) /\ Rejected(db, MaxRepairs)

CauseInv == Frugal =>
  /\ OneOvertaken /\ Paid /\ FailedWell
  /\ api \in {"new", "committed", "planning"} => \A j \in Jobs : ~Known(j)
  /\ \A j \in Jobs : Fits(j)
  /\ \A w \in Workers : HasRead(w) /\ HasStored(w)

\* Artifacts are never removed, so what was there is there.
RowsGrow ==
  /\ db.plans > 0 => db'.plans > 0
  /\ FilesStay
  /\ \A c \in Cycles : /\ db.checks[c] # {} => db'.checks[c] # {}
                       /\ db.reviews[c] # <<>> => db'.reviews[c] # <<>>

LEMMA GrownRows ==
  ASSUME RowsGrow, NEW j \in Jobs
  PROVE  /\ Supplied(db, j) => Supplied(db, j)'
         /\ Stored(db, j) => Stored(db, j)'
         /\ \A d : Older(d) => Older(d)'
<1>1. j.cycle \in Cycles BY JobParts
<1>2. \A c \in Cycles : SomeFiles(db, c) => SomeFiles(db, c)' BY FilesStayWhole DEF RowsGrow
<1>3. j.type = "REPAIR" => j.cycle + 1 \in Cycles
  <2>1. j.type = "REPAIR" => j.cycle \in 0..MaxRepairs - 1 BY JobParts
  <2> QED BY <2>1, CyclesType
<1>4. Supplied(db, j) => Supplied(db, j)' BY <1>1, <1>2 DEF RowsGrow, Supplied
<1>5. Stored(db, j) => Stored(db, j)' BY <1>1, <1>2, <1>3 DEF RowsGrow, Stored
<1>6. \A d : Older(d) => Older(d)' BY DEF RowsGrow, Older
<1> QED BY <1>4, <1>5, <1>6

\* The orchestrator's units of work.
Orchestrates(w) ==
  \/ PlanCompleted(w) \/ MaybeScheduleTests(w) \/ TestsCompleted(w)
  \/ ReviewCompleted(w) \/ RepairCompleted(w)

\* Only the units of work that store an artifact change what is stored.
LEMMA HandlerRows ==
  ASSUME TypeInv, NEW w \in Workers, Handler(w)
  PROVE  \/ RowsKept
         \/ StorePlan(w) \/ StoreFiles(w) \/ StoreChecks(w) \/ StoreReview(w)
<1>1. UNCHANGED db => RowsKept BY DEF RowsKept
<1>2. ASSUME NEW target, NEW keys, Advances(w, target, keys) PROVE RowsKept
    BY <1>1, <1>2 DEF Advances
<1>3. CASE PlanCompleted(w) BY <1>2, <1>3, PlanCompletedEffect
<1>4. CASE MaybeScheduleTests(w) BY <1>2, <1>4, MaybeScheduleTestsEffect
<1>5. CASE TestsCompleted(w) BY <1>2, <1>5, TestsCompletedEffect
<1>6. CASE ReviewCompleted(w) BY <1>2, <1>6, ReviewCompletedEffect
<1>7. CASE RepairCompleted(w) BY <1>1, <1>7, RepairCompletedEffect
<1>8. CASE ProviderFails(w) BY <1>1, <1>8, ProviderFailsEffect
<1> QED BY <1>1, <1>3, <1>4, <1>5, <1>6, <1>7, <1>8, Starting DEF Handler

LEMMA KeptGrow ==
  ASSUME RowsKept
  PROVE  RowsGrow
BY DEF RowsKept, RowsGrow, FilesStay

LEMMA HandlerGrows ==
  ASSUME TypeInv, NEW w \in Workers, Handler(w)
  PROVE  RowsGrow
<1>1. CASE RowsKept BY <1>1, KeptGrow
<1>2. CASE StorePlan(w)
  <2>1. db.plans \in Nat BY DEF TypeInv, Database
  <2>2. /\ db'.plans = db.plans + 1 /\ db'.files = db.files
        /\ db'.reviews = db.reviews /\ db'.checks = db.checks
      BY <1>2, StorePlanEffect
  <2>3. db'.plans > 0 BY <2>1, <2>2
  <2> QED BY <2>2, <2>3 DEF RowsGrow, FilesStay
<1>3. CASE StoreFiles(w)
  <2>1. /\ db'.files[SlotOf(job[w])] # <<>>
        /\ \A s \in Slots : s # SlotOf(job[w]) => db'.files[s] = db.files[s]
        /\ db'.plans = db.plans /\ db'.reviews = db.reviews /\ db'.checks = db.checks
      BY <1>3, StoreFilesEffect
  <2>2. FilesStay BY <2>1 DEF FilesStay
  <2> QED BY <2>1, <2>2 DEF RowsGrow
<1>4. CASE StoreChecks(w)
  <2>1. PICK passed \in BOOLEAN :
          db'.checks[job[w].cycle] = db.checks[job[w].cycle] \union {passed}
      BY <1>4, StoreChecksEffect
  <2>2. /\ \A k \in Cycles : k # job[w].cycle => db'.checks[k] = db.checks[k]
        /\ db'.plans = db.plans /\ db'.files = db.files /\ db'.reviews = db.reviews
      BY <1>4, StoreChecksEffect
  <2>3. \A k \in Cycles : db.checks[k] # {} => db'.checks[k] # {} BY <2>1, <2>2
  <2> QED BY <2>2, <2>3 DEF RowsGrow, FilesStay
<1>5. CASE StoreReview(w)
  <2>1. PICK approve \in BOOLEAN :
          db'.reviews[job[w].cycle] \in {Append(db.reviews[job[w].cycle], approve),
                                         <<approve>> \o db.reviews[job[w].cycle]}
      BY <1>5, StoreReviewEffect
  <2>2. /\ \A k \in Cycles : k # job[w].cycle => db'.reviews[k] = db.reviews[k]
        /\ db'.plans = db.plans /\ db'.files = db.files /\ db'.checks = db.checks
        /\ job[w].cycle \in Cycles
      BY <1>5, StoreReviewEffect
  <2>3. db.reviews[job[w].cycle] \in Seq(BOOLEAN) BY <2>2 DEF TypeInv, Database
  <2>4. db'.reviews[job[w].cycle] # <<>> BY <2>1, <2>3
  <2>5. \A k \in Cycles : db.reviews[k] # <<>> => db'.reviews[k] # <<>> BY <2>2, <2>4
  <2> QED BY <2>2, <2>5 DEF RowsGrow, FilesStay
<1> QED BY <1>1, <1>2, <1>3, <1>4, <1>5, HandlerRows

\* What was found of a cycle that is under review is changed by its reviewer only.
FindingsStay(w) == \A c \in Cycles :
  (Known(ReviewJob(c)) /\ job[w] # ReviewJob(c)) =>
    db'.checks[c] = db.checks[c] /\ db'.reviews[c] = db.reviews[c]

LEMMA HandlerFindings ==
  ASSUME TypeInv, EarnedInv, Calm, NEW w \in Workers, Handler(w)
  PROVE  FindingsStay(w)
<1>1. CASE db'.checks = db.checks /\ db'.reviews = db.reviews BY <1>1 DEF FindingsStay
<1>2. CASE StoreChecks(w)
  <2>1. /\ Works(w, Jobs, Database, UnitsOfWork)
        /\ \A k \in Cycles : k # job[w].cycle => db'.checks[k] = db.checks[k]
        /\ db'.reviews = db.reviews
      BY <1>2, StoreChecksEffect
  <2>2. Executes(w) /\ job[w].type = "TEST" BY <1>2, <2>1, WorksPast DEF Calm, StoreChecks
  <2>3. ~Known(ReviewJob(job[w].cycle)) BY <2>2, Current DEF Calm, EarnedInv
  <2> QED BY <2>1, <2>3 DEF FindingsStay
<1>3. CASE StoreReview(w) BY <1>3, StoreReviewEffect DEF FindingsStay
<1> QED BY <1>1, <1>2, <1>3, HandlerRows, StorePlanEffect, StoreFilesEffect DEF RowsKept

\* A step of a handler uses up an attempt only by raising.
LEMMA SpentByRaise ==
  ASSUME TypeInv, OwnersWork, NEW w \in Workers, Works(w, Jobs, Database, UnitsOfWork), NEW j \in Jobs
  PROVE  /\ jobs' = jobs /\ Spent(j) \in Int
         /\ pc'[w] # "raised" => Spent(j)' = Spent(j)
         /\ Spent(j)' <= Spent(j) + 1
<1>1. UNCHANGED jobs /\ \A u \in Workers : u # w => pc'[u] = pc[u]
    BY DEF Works, TypeInv, Loop, LoopInv, LoopTyped
<1>2. pc[w] # "raised" BY DEF Works, UnitsOfWork
<1>3. jobs[j].attempt \in Nat /\ (jobs[j].status = "running" => jobs[j].owner \in Workers)
  <2>1. jobs[j] \in JobRow BY DEF TypeInv, Loop, LoopInv, LoopTyped
  <2>2. jobs[j].status = "running" => jobs[j].owner # None BY DEF TypeInv, Loop, LoopInv, LoopOK, LoopTyped
  <2> QED BY <2>1, <2>2, LoopAssumption DEF JobRow
<1>4. Spent(j) \in Int /\ Spent(j)' \in {Spent(j), Spent(j) + 1, jobs[j].attempt - 1, jobs[j].attempt}
    BY <1>1, <1>3 DEF Spent
<1>5. pc'[w] # "raised" => Spent(j)' = Spent(j) BY <1>1, <1>2, <1>3 DEF Spent
<1>6. Spent(j)' <= Spent(j) + 1 BY <1>1, <1>3 DEF Spent
<1> QED BY <1>1, <1>4, <1>5, <1>6

LEMMA SpentStays ==
  ASSUME TypeInv, OwnersWork, NEW w \in Workers, Works(w, Jobs, Database, UnitsOfWork),
         NEW n \in Nat, SpentWithin(n)
  PROVE  /\ pc'[w] # "raised" => SpentWithin(n)'
         /\ SpentWithin(n + 1)'
<1>1. ASSUME NEW j \in Jobs, jobs'[j].status # "done"
      PROVE  /\ pc'[w] # "raised" => Spent(j)' <= n
             /\ Spent(j)' <= n + 1
  <2>1. /\ jobs' = jobs /\ Spent(j) \in Int
        /\ pc'[w] # "raised" => Spent(j)' = Spent(j)
        /\ Spent(j)' <= Spent(j) + 1
      BY SpentByRaise
  <2>2. Spent(j) <= n BY <1>1, <2>1 DEF SpentWithin
  <2>3. Spent(j)' \in Int
    <3>1. jobs[j].attempt \in Int BY LoopAssumption DEF TypeInv, Loop, LoopInv, LoopTyped, JobRow
    <3> QED BY <2>1, <3>1 DEF Spent
  <2> QED BY <2>1, <2>2, <2>3
<1> QED BY <1>1 DEF SpentWithin

\* Where the run stays in its status, the worker's step overtakes nobody.
LEMMA NobodyOvertaken ==
  ASSUME TypeInv, Calm, NEW w \in Workers, Works(w, Jobs, Database, UnitsOfWork),
         db'.status = db.status, ~Overtaken(w)'
  PROVE  \A u \in Workers : Overtaken(u)' => Overtaken(u) /\ u # w /\ job'[u] = job[u]
<1> SUFFICES ASSUME NEW u \in Workers, Overtaken(u)' PROVE Overtaken(u) /\ u # w /\ job'[u] = job[u]
    OBVIOUS
<1>1. u # w BY DEF Overtaken
<1>2. job'[u] = job[u] /\ pc'[u] = pc[u] /\ view'[u] = view[u] /\ (Executes(u)' <=> Executes(u))
    BY <1>1, WorksPast DEF Calm
<1> QED BY <1>1, <1>2 DEF Overtaken, Decides

LEMMA QuietPaid ==
  ASSUME TypeInv, EarnedInv, Calm, OneOvertaken, Paid,
         NEW w \in Workers, Works(w, Jobs, Database, UnitsOfWork),
         db'.status = db.status, ~Overtaken(w)',
         \/ pc'[w] # "raised"
         \/ budget' = [budget EXCEPT !.raises = @ + 1]
  PROVE  OneOvertaken' /\ Paid'
<1>1. \A u \in Workers : Overtaken(u)' => Overtaken(u) /\ u # w /\ job'[u] = job[u]
    BY NobodyOvertaken
<1>2. OneOvertaken' BY <1>1 DEF OneOvertaken
<1>3. OwnersWork BY DEF EarnedInv
<1>4. budget.raises \in Nat /\ budget'.raises \in {budget.raises, budget.raises + 1}
      /\ (pc'[w] = "raised" => budget'.raises = budget.raises + 1)
  <2>1. budget \in [raises : Nat, lapses : Nat, crashes : Nat, lost : SUBSET Jobs]
      BY DEF TypeInv, Loop, LoopInv, LoopTyped
  <2> QED BY <2>1 DEF Works
<1>5. ASSUME NEW n \in {budget.raises, budget.raises + 1}, SpentWithin(n)
      PROVE  \A m \in Nat : m = n + (budget'.raises - budget.raises) => SpentWithin(m)'
  <2> SUFFICES ASSUME NEW m \in Nat, m = n + (budget'.raises - budget.raises) PROVE SpentWithin(m)'
      OBVIOUS
  <2>1. n \in Nat BY <1>4
  <2>2. CASE budget'.raises = budget.raises
    <3>1. m = n /\ pc'[w] # "raised" BY <1>4, <2>1, <2>2
    <3> QED BY <1>3, <1>5, <2>1, <3>1, SpentStays
  <2>3. CASE budget'.raises = budget.raises + 1
    <3>1. m = n + 1 BY <1>4, <2>1, <2>3
    <3> QED BY <1>3, <1>5, <2>1, <3>1, SpentStays
  <2> QED BY <1>4, <2>2, <2>3
<1>6. CASE SpentWithin(budget.raises)
  <2>1. PICK m \in Nat : m = budget'.raises BY <1>4
  <2>2. m = budget.raises + (budget'.raises - budget.raises) BY <1>4, <2>1
  <2>3. SpentWithin(m)' BY <1>5, <1>6, <2>2
  <2> QED BY <1>2, <2>1, <2>3 DEF Paid, SpentWithin
<1>7. CASE /\ SpentWithin(budget.raises + 1)
           /\ \A u \in Workers : ~Overtaken(u)
           /\ db.status \in Underway
  <2>1. PICK m \in Nat : m = budget'.raises + 1 BY <1>4
  <2>2. m = (budget.raises + 1) + (budget'.raises - budget.raises) BY <1>4, <2>1
  <2>3. SpentWithin(m)' BY <1>5, <1>7, <2>2
  <2>4. \A u \in Workers : ~Overtaken(u)' BY <1>1, <1>7
  <2> QED BY <1>2, <1>7, <2>1, <2>3, <2>4 DEF Paid, SpentWithin
<1> QED BY <1>6, <1>7 DEF Paid

\* An update of the status that the state machine allows from what was read
\* raises only if the run has left that status.
LEMMA UpdateMoves ==
  ASSUME TypeInv, NEW w \in Workers, NEW target \in Allowed[view[w].status], NEW keys,
         CommitStatus(w, target, keys)
  PROVE  \/ pc'[w] = "raised" /\ db' = db /\ db.status # view[w].status
         \/ pc'[w] # "raised" /\ db'.status = target
<1>1. CASE Raise(w)
  <2>1. pc'[w] = "raised" /\ db' = db
      BY <1>1 DEF Raise, Return, Goto, TypeInv, Loop, LoopInv, LoopTyped
  <2>2. CASE db.status # view[w].status BY <2>1, <2>2
  <2>3. CASE db.status = view[w].status
    <3>1. \A seen \in {view[w], db} : target \in Allowed[seen.status] BY <2>3
    <3>2. Commit(w, [db EXCEPT !.status = target], ThenEnqueue(keys), keys)
        BY <3>1 DEF CommitStatus
    <3>3. pc'[w] \in {"settle", "enqueue"}
        BY <3>2 DEF Commit, Goto, ThenEnqueue, TypeInv, Loop, LoopInv, LoopTyped
    <3> QED BY <2>1, <3>3
  <2> QED BY <2>2, <2>3
<1>2. CASE Commit(w, [db EXCEPT !.status = target], ThenEnqueue(keys), keys)
  <2>1. pc'[w] \in {"settle", "enqueue"}
      BY <1>2 DEF Commit, Goto, ThenEnqueue, TypeInv, Loop, LoopInv, LoopTyped
  <2>2. db'.status = target BY <1>2 DEF Commit, TypeInv, Database
  <2> QED BY <2>1, <2>2
<1> QED BY <1>1, <1>2 DEF CommitStatus

\* How the orchestrator moves a run, and when it raises.
Moves(w) ==
  \/ job[w].type = "PLAN" /\ view[w].status = "PLANNING" /\ db'.status = "IMPLEMENTING"
  \/ job[w].type = "IMPLEMENT" /\ view[w].status = "IMPLEMENTING" /\ db'.status = "TESTING"
  \/ job[w].type \in {"TEST", "REVIEW", "REPAIR"} /\ db'.status \in Underway

LEMMA Decided ==
  ASSUME TypeInv, EarnedInv, Calm, NEW w \in Workers, Orchestrates(w)
  PROVE  /\ Works(w, Jobs, Database, UnitsOfWork) /\ TypeInv' /\ Decides(w) /\ RowsKept
         /\ view'[w] = None /\ pc'[w] \in {"settle", "raised", "enqueue"}
         /\ pc'[w] = "raised" => db' = db /\ Overtaken(w)
         /\ db'.status = db.status \/ Moves(w)
<1>1. Works(w, Jobs, Database, UnitsOfWork) /\ TypeInv'
    BY HandlerTypes DEF Handler, Orchestrates
<1>2. Decides(w)
  <2>1. Executes(w) BY <1>1, WorksPast DEF Calm
  <2>2. pc[w] \in {"advance", "approve", "reject"} /\ view[w] # None
      BY DEF Orchestrates, PlanCompleted, MaybeScheduleTests, TestsCompleted, ReviewCompleted,
             RepairCompleted, At
  <2> QED BY <2>1, <2>2 DEF Decides
<1>3. RowsKept
  <2>1. db' = db => RowsKept BY DEF RowsKept
  <2>2. ASSUME NEW target, NEW keys, Advances(w, target, keys) PROVE RowsKept
      BY <2>1, <2>2 DEF Advances
  <2> QED BY <2>1, <2>2, PlanCompletedEffect, MaybeScheduleTestsEffect, TestsCompletedEffect,
             ReviewCompletedEffect, RepairCompletedEffect DEF Orchestrates
<1>4. view'[w] = None /\ pc'[w] \in {"settle", "raised", "enqueue"} BY AdvancesLeaves DEF Orchestrates
<1>5. ASSUME NEW where \in {"settle", "enqueue"}, NEW keys, Return(w, where, keys)
      PROVE  pc'[w] # "raised" /\ db' = db
    BY <1>5, SoloReturns
\* A decision on a status that the run still has is carried out.
<1>6. ASSUME pc'[w] = "raised", db' = db, db.status # view[w].status,
             job[w].type = "IMPLEMENT" => view[w].status = "IMPLEMENTING"
      PROVE  Overtaken(w)
    BY <1>2, <1>6 DEF Overtaken
<1>7. (pc'[w] = "raised" => db' = db /\ Overtaken(w)) /\ (db'.status = db.status \/ Moves(w))
  <2>1. CASE PlanCompleted(w)
    <3>1. job[w].type = "PLAN" BY <2>1 DEF PlanCompleted
    <3>2. ASSUME NEW keys, view[w].status = "PLANNING", CommitStatus(w, "IMPLEMENTING", keys)
          PROVE  \/ pc'[w] = "raised" /\ db' = db /\ db.status # view[w].status
                 \/ pc'[w] # "raised" /\ db'.status = "IMPLEMENTING"
      <4>1. "IMPLEMENTING" \in Allowed[view[w].status] BY <3>2 DEF Allowed, EngineeringStatus
      <4> QED BY <3>2, <4>1, UpdateMoves
    <3> QED BY <1>5, <1>6, <2>1, <3>1, <3>2 DEF PlanCompleted, Moves
  <2>2. CASE MaybeScheduleTests(w)
    <3>1. job[w].type = "IMPLEMENT" BY <2>2 DEF MaybeScheduleTests
    <3>2. \A v \in Reads(w) : v.status = view[w].status BY <1>2, ReadsType DEF Decides
    <3>3. CASE view[w].status = "IMPLEMENTING" /\ CommitStatus(w, "TESTING", {TestJob(0)})
      <4>1. "TESTING" \in Allowed[view[w].status] BY <3>3 DEF Allowed, EngineeringStatus
      <4>2. \/ pc'[w] = "raised" /\ db' = db /\ db.status # view[w].status
            \/ pc'[w] # "raised" /\ db'.status = "TESTING"
          BY <3>3, <4>1, UpdateMoves
      <4> QED BY <1>6, <3>1, <3>3, <4>2 DEF Moves
    <3> QED BY <1>5, <2>2, <3>2, <3>3 DEF MaybeScheduleTests
  <2>3. CASE TestsCompleted(w)
    <3>1. job[w].type = "TEST" BY <2>3 DEF TestsCompleted
    <3>2. ASSUME NEW keys, view[w].status = "TESTING", CommitStatus(w, "REVIEWING", keys)
          PROVE  \/ pc'[w] = "raised" /\ db' = db /\ db.status # view[w].status
                 \/ pc'[w] # "raised" /\ db'.status = "REVIEWING"
      <4>1. "REVIEWING" \in Allowed[view[w].status] BY <3>2 DEF Allowed, EngineeringStatus
      <4> QED BY <3>2, <4>1, UpdateMoves
    <3>3. "REVIEWING" \in Underway BY DEF Underway, Early, EngineeringStatus
    <3> QED BY <1>5, <1>6, <2>3, <3>1, <3>2, <3>3 DEF TestsCompleted, Moves
  <2>4. CASE ReviewCompleted(w)
    <3>1. job[w].type = "REVIEW"
        BY <2>4 DEF ReviewCompleted, At, EarnedInv, ApprovesWell
    <3>2. ASSUME NEW keys, NEW target \in {"COMPLETED", "REPAIRING", "FAILED"},
                 view[w].status = "REVIEWING", CommitStatus(w, target, keys)
          PROVE  \/ pc'[w] = "raised" /\ db' = db /\ db.status # view[w].status
                 \/ pc'[w] # "raised" /\ db'.status = target
      <4>1. target \in Allowed[view[w].status] BY <3>2 DEF Allowed, EngineeringStatus
      <4> QED BY <3>2, <4>1, UpdateMoves
    <3>3. {"COMPLETED", "REPAIRING", "FAILED"} \subseteq Underway BY DEF Underway, Early, EngineeringStatus
    <3> QED BY <1>5, <1>6, <2>4, <3>1, <3>2, <3>3 DEF ReviewCompleted, Moves
  <2>5. CASE RepairCompleted(w)
    <3>1. job[w].type = "REPAIR" BY <2>5 DEF RepairCompleted
    <3>2. "TESTING" \in Underway BY DEF Underway, Early, EngineeringStatus
    <3>3. CASE Raise(w) /\ view[w].status = "REPAIRING" /\ "TESTING" \notin Allowed[db.status]
      <4>1. db' = db BY <3>3 DEF Raise, Return
      <4>2. db.status # view[w].status BY <3>3 DEF Allowed, EngineeringStatus
      <4> QED BY <1>6, <3>1, <4>1, <4>2
    <3>4. CASE \E new, keys : Commit(w, new, "enqueue", keys) /\ new.status = "TESTING"
      <4>1. pc'[w] # "raised" /\ db'.status = "TESTING"
          BY <3>4 DEF Commit, Goto, TypeInv, Loop, LoopInv, LoopTyped
      <4> QED BY <3>1, <3>2, <4>1 DEF Moves
    <3>5. \A n : [db EXCEPT !.status = "TESTING", !.repairs = n].status = "TESTING"
        BY DEF TypeInv, Database
    <3> QED BY <1>5, <2>5, <3>3, <3>4, <3>5 DEF RepairCompleted
  <2> QED BY <2>1, <2>2, <2>3, <2>4, <2>5 DEF Orchestrates
<1> QED BY <1>1, <1>2, <1>3, <1>4, <1>7

\* Of the tests, reviews and repairs one is under way at a time.
LEMMA OneStage ==
  ASSUME TypeInv, EarnedInv, Calm, NEW w \in Workers, NEW u \in Workers, Executes(w), Executes(u),
         job[w].type \in {"TEST", "REVIEW", "REPAIR"}, job[u].type \in {"TEST", "REVIEW", "REPAIR"}
  PROVE  u = w
<1>1. CyclesInTurn BY DEF EarnedInv
<1>2. /\ job[w] \in Jobs /\ job[u] \in Jobs /\ Known(job[w]) /\ Known(job[u])
      /\ job[u] = job[w] => u = w
    BY Acting DEF Calm
<1>3. PICK c \in Cycles : c = db.repairs BY DEF TypeInv, Database
<1>4. /\ job[w].cycle = c /\ job[u].cycle = c
      /\ job[w].type = "TEST" => ~Known(ReviewJob(c))
      /\ (job[w].type = "REVIEW" /\ c < MaxRepairs) => ~Known(RepairJob(c))
      /\ job[u].type = "TEST" => ~Known(ReviewJob(c))
      /\ (job[u].type = "REVIEW" /\ c < MaxRepairs) => ~Known(RepairJob(c))
    BY <1>1, <1>3, Current DEF Calm
\* A repair that is known was enqueued by a review that is past.
<1>5. ASSUME NEW j \in Jobs, j.type = "REPAIR", j.cycle = c, Known(j)
      PROVE  c < MaxRepairs /\ j = RepairJob(c) /\ Known(ReviewJob(c))
  <2>1. c \in 0..MaxRepairs - 1 /\ j = RepairJob(c) BY <1>5, JobParts
  <2>2. Past(ReviewJob(c)) BY <1>1, <1>5 DEF CyclesInTurn, InTurn, Prior
  <2>3. MaxRepairs \in Nat BY MaxRepairsAssumption
  <2> QED BY <2>1, <2>2, <2>3 DEF Past, Known
<1>6. /\ job[w].type = "TEST" => job[w] = TestJob(c)
      /\ job[u].type = "TEST" => job[u] = TestJob(c)
      /\ job[w].type = "REVIEW" => job[w] = ReviewJob(c)
      /\ job[u].type = "REVIEW" => job[u] = ReviewJob(c)
      /\ job[w].type = "REPAIR" => c < MaxRepairs /\ job[w] = RepairJob(c) /\ Known(ReviewJob(c))
      /\ job[u].type = "REPAIR" => c < MaxRepairs /\ job[u] = RepairJob(c) /\ Known(ReviewJob(c))
    BY <1>2, <1>4, <1>5, JobParts
<1> QED BY <1>2, <1>4, <1>6

\* What is executed next to a job: the plan runs alone, and the tests, reviews
\* and repairs only after the stage of the implementers.
LEMMA Companions ==
  ASSUME TypeInv, EarnedInv, Calm, \A j \in Jobs : Fits(j),
         NEW w \in Workers, NEW u \in Workers, Executes(w), Executes(u), u # w
  PROVE  /\ job[w] \in Jobs /\ StageOf(job[w]) /\ job[u] \in Jobs /\ StageOf(job[u])
         /\ job[w].type # "PLAN" /\ job[u].type # "PLAN"
         /\ job[w].type = "IMPLEMENT" \/ job[u].type = "IMPLEMENT"
<1>1. /\ job[w] \in Jobs /\ job[u] \in Jobs /\ Known(job[w]) /\ Known(job[u])
      /\ job[u] # job[w]
    BY Acting DEF Calm
<1>2. StageOf(job[w]) /\ StageOf(job[u]) BY <1>1 DEF Fits
<1>3. ~Past(job[w]) /\ ~Past(job[u]) BY DEF Past
<1>4. ASSUME NEW a \in {w, u}, NEW b \in {w, u}, job[a] # job[b], job[a].type = "PLAN" PROVE FALSE
  <2>1. job[a] = PlanJob BY <1>1, <1>4, JobParts
  <2>2. job[b].type # "PLAN" BY <1>1, <1>4, <2>1, JobParts
  <2>3. Past(PlanJob)
    <3>1. job[b].type \in {"IMPLEMENT", "TEST", "REVIEW", "REPAIR"} BY <1>1, <2>2, JobParts
    <3> QED BY <1>2, <3>1 DEF StageOf
  <2> QED BY <1>3, <2>1, <2>3
<1>5. job[w].type # "PLAN" /\ job[u].type # "PLAN" BY <1>1, <1>4
<1>6. job[w].type = "IMPLEMENT" \/ job[u].type = "IMPLEMENT"
  <2> SUFFICES ASSUME job[w].type # "IMPLEMENT", job[u].type # "IMPLEMENT" PROVE FALSE OBVIOUS
  <2>1. job[w].type \in {"TEST", "REVIEW", "REPAIR"} /\ job[u].type \in {"TEST", "REVIEW", "REPAIR"}
      BY <1>1, <1>5, JobParts
  <2> QED BY <2>1, OneStage
<1> QED BY <1>1, <1>2, <1>5, <1>6

\* The two implementers.
LEMMA TwoImplementers ==
  ASSUME TypeInv, Calm, NEW w \in Workers, NEW u \in Workers, NEW x \in Workers,
         Executes(w), Executes(u), Executes(x), u # w, x # w,
         job[w].type = "IMPLEMENT", job[u].type = "IMPLEMENT", job[x].type = "IMPLEMENT"
  PROVE  u = x
<1>1. /\ \A y \in {w, u, x} : job[y] \in Jobs
      /\ job[u] # job[w] /\ job[x] # job[w] /\ (job[u] = job[x] => u = x)
    BY Acting DEF Calm
<1>2. \A y \in {w, u, x} : job[y].role \in IMPLEMENTER_ROLES /\ job[y] = ImplementJob(job[y].role)
    BY <1>1, JobParts
<1> QED BY <1>1, <1>2 DEF IMPLEMENTER_ROLES

\* A decision overtakes at most one other; the one that was overtaken raises,
\* or is carried out and may overtake one in its place.
LEMMA DecisionPaid ==
  ASSUME TypeInv, EarnedInv, Calm, OneOvertaken, Paid, \A j \in Jobs : Fits(j),
         NEW w \in Workers, Orchestrates(w), UNCHANGED budget
  PROVE  OneOvertaken' /\ Paid'
<1>1. /\ Works(w, Jobs, Database, UnitsOfWork) /\ TypeInv' /\ Decides(w)
      /\ view'[w] = None /\ pc'[w] \in {"settle", "raised", "enqueue"}
      /\ pc'[w] = "raised" => db' = db /\ Overtaken(w)
      /\ db'.status = db.status \/ Moves(w)
    BY Decided
<1>2. ~Overtaken(w)' BY <1>1 DEF Overtaken, Decides
<1>3. /\ \A u \in Workers : u # w => pc'[u] = pc[u] /\ view'[u] = view[u] /\ job'[u] = job[u]
      /\ \A u \in Workers : u # w => (Executes(u)' <=> Executes(u))
      /\ Executes(w)
    BY <1>1, WorksPast DEF Calm
<1>4. OwnersWork /\ budget.raises \in Nat BY DEF EarnedInv, TypeInv, Loop, LoopInv, LoopTyped
<1>5. CASE pc'[w] = "raised"
  <2>1. db' = db /\ Overtaken(w) BY <1>1, <1>5
  <2>2. \A u \in Workers : Overtaken(u)' => Overtaken(u) /\ u # w /\ job'[u] = job[u]
      BY <1>1, <1>2, <2>1, NobodyOvertaken
  <2>3. \A u \in Workers : ~Overtaken(u)' BY <2>1, <2>2 DEF OneOvertaken
  <2>4. SpentWithin(budget.raises) BY <2>1 DEF Paid
  <2>5. SpentWithin(budget.raises + 1)' BY <1>1, <1>4, <2>4, SpentStays
  <2>6. db.status \in Underway
    <3>1. job[w] \in Jobs /\ Known(job[w]) BY <1>3, Acting DEF Calm
    <3>2. StageOf(job[w]) /\ job[w].type # "PLAN" BY <2>1, <3>1 DEF Fits, OneOvertaken
    <3>3. CASE job[w].type = "IMPLEMENT"
      <4>1. db.status # "IMPLEMENTING" /\ db.status \notin Early BY <2>1, <3>2, <3>3 DEF Overtaken, StageOf
      <4>2. db.status \in EngineeringStatus BY DEF TypeInv, Database
      <4> QED BY <4>1, <4>2 DEF Underway
    <3>4. CASE job[w].type # "IMPLEMENT"
      <4>1. job[w].type \in {"TEST", "REVIEW", "REPAIR"} BY <3>1, <3>2, <3>4, JobParts
      <4> QED BY <3>2, <4>1 DEF StageOf
    <3> QED BY <3>3, <3>4
  <2>7. OneOvertaken' BY <2>3 DEF OneOvertaken
  <2>8. Paid' BY <2>1, <2>3, <2>5, <2>6 DEF Paid, SpentWithin
  <2> QED BY <2>7, <2>8
<1>6. CASE pc'[w] # "raised" /\ db'.status = db.status
    BY <1>1, <1>2, <1>6, QuietPaid
<1>7. CASE pc'[w] # "raised" /\ db'.status # db.status
  <2>1. Moves(w) BY <1>1, <1>7
  <2>2. \A n \in Nat : SpentWithin(n) => SpentWithin(n)' BY <1>1, <1>4, <1>7, SpentStays
\* Where somebody is overtaken now, no attempt was used up without a failure.
  <2>3. CASE job[w].type = "PLAN"
    <3>1. \A u \in Workers : ~Overtaken(u)'
      <4> SUFFICES ASSUME NEW u \in Workers, Overtaken(u)' PROVE FALSE OBVIOUS
      <4>1. u # w /\ Executes(u) BY <1>2, <1>3 DEF Overtaken, Decides
      <4> QED BY <1>3, <2>3, <4>1, Companions
    <3>2. db.status = "PLANNING"
      <4>1. ~Overtaken(w) BY <2>3 DEF OneOvertaken
      <4>2. view[w].status = "PLANNING" BY <2>1, <2>3 DEF Moves
      <4> QED BY <1>1, <2>3, <4>1, <4>2 DEF Overtaken
    <3>3. SpentWithin(budget.raises) BY <3>2 DEF Paid, Underway, Early
    <3>4. SpentWithin(budget.raises)' BY <1>4, <2>2, <3>3
    <3> QED BY <3>1, <3>4 DEF OneOvertaken, Paid, SpentWithin
  <2>4. CASE job[w].type = "IMPLEMENT"
    <3>1. view[w].status = "IMPLEMENTING" /\ db'.status = "TESTING" BY <2>1, <2>4 DEF Moves
    <3>2. SpentWithin(budget.raises)
      <4>1. CASE db.status = "IMPLEMENTING" BY <4>1 DEF Paid, Underway
      <4>2. CASE db.status # "IMPLEMENTING"
        <5>1. Overtaken(w) BY <1>1, <2>4, <3>1, <4>2 DEF Overtaken
        <5> QED BY <5>1 DEF Paid
      <4> QED BY <4>1, <4>2
    <3>3. SpentWithin(budget.raises)' BY <1>4, <2>2, <3>2
    <3>4. ASSUME NEW u \in Workers, Overtaken(u)'
          PROVE  /\ u # w /\ Executes(u) /\ job'[u] = job[u] /\ job[u].type # "PLAN"
                 /\ db.status = "IMPLEMENTING" <=> job[u].type = "IMPLEMENT"
      <4>1. u # w /\ Executes(u) BY <1>2, <1>3, <3>4 DEF Overtaken, Decides
      <4>2. job[u] \in Jobs /\ StageOf(job[u]) /\ job[u].type # "PLAN" BY <1>3, <4>1, Companions
      <4>3. ASSUME db.status = "IMPLEMENTING" PROVE job[u].type = "IMPLEMENT"
        <5>1. job[u].type \notin {"TEST", "REVIEW", "REPAIR"} BY <4>2, <4>3 DEF StageOf, Underway
        <5> QED BY <4>2, <5>1, JobParts
      <4>4. ASSUME job[u].type = "IMPLEMENT", db.status # "IMPLEMENTING" PROVE FALSE
        <5>1. Overtaken(w) BY <1>1, <2>4, <3>1, <4>4 DEF Overtaken
        <5>2. Overtaken(u) BY <1>3, <3>4, <4>1, <4>4 DEF Overtaken, Decides
        <5> QED BY <4>1, <5>1, <5>2 DEF OneOvertaken
      <4> QED BY <1>3, <4>1, <4>2, <4>3, <4>4
    <3>5. ASSUME NEW u \in Workers, NEW x \in Workers, Overtaken(u)', Overtaken(x)' PROVE u = x
      <4>1. /\ u # w /\ Executes(u) /\ x # w /\ Executes(x)
            /\ job[u].type = "IMPLEMENT" <=> job[x].type = "IMPLEMENT"
          BY <3>4, <3>5
      <4>2. CASE job[u].type = "IMPLEMENT" BY <1>3, <2>4, <4>1, <4>2, TwoImplementers
      <4>3. CASE job[u].type # "IMPLEMENT" BY <4>1, <4>3, Companions
      <4> QED BY <4>2, <4>3
    <3>6. OneOvertaken' BY <3>4, <3>5 DEF OneOvertaken
    <3> QED BY <3>3, <3>6 DEF Paid, SpentWithin
  <2>5. CASE job[w].type \in {"TEST", "REVIEW", "REPAIR"}
    <3>1. db'.status \in Underway BY <2>1, <2>5 DEF Moves
    <3>2. ASSUME NEW u \in Workers, Overtaken(u)'
          PROVE  Overtaken(u) /\ u # w /\ job'[u] = job[u]
      <4>1. u # w /\ Executes(u) BY <1>2, <1>3, <3>2 DEF Overtaken, Decides
      <4>2. job[u].type = "IMPLEMENT" /\ StageOf(job[w]) BY <1>3, <2>5, <4>1, Companions
      <4>3. db.status # "IMPLEMENTING" BY <2>5, <4>2 DEF StageOf, Underway
      <4> QED BY <1>3, <3>2, <4>1, <4>2, <4>3 DEF Overtaken, Decides
    <3>3. OneOvertaken' BY <3>2 DEF OneOvertaken
    <3>4. Paid'
      <4>1. CASE SpentWithin(budget.raises) BY <1>4, <2>2, <4>1 DEF Paid, SpentWithin
      <4>2. CASE SpentWithin(budget.raises + 1) /\ \A u \in Workers : ~Overtaken(u)
        <5>1. SpentWithin(budget.raises + 1)' BY <1>4, <2>2, <4>2
        <5> QED BY <3>1, <3>2, <4>2, <5>1 DEF Paid, SpentWithin
      <4> QED BY <4>1, <4>2 DEF Paid
    <3> QED BY <3>3, <3>4
  <2>6. job[w] \in Jobs BY <1>3, Acting DEF Calm
  <2> QED BY <2>3, <2>4, <2>5, <2>6, JobParts
<1> QED BY <1>5, <1>6, <1>7

\* What the invariant says of the worker whose handler takes a step.
LEMMA CauseOf ==
  ASSUME TypeInv, CauseInv, Frugal, NEW w \in Workers, Works(w, Jobs, Database, UnitsOfWork)
  PROVE  /\ Calm /\ Executes(w) /\ job[w] \in Jobs /\ Known(job[w]) /\ job[w].cycle \in Cycles
         /\ Supplied(db, job[w]) /\ StageOf(job[w])
         /\ OneOvertaken /\ Paid /\ FailedWell /\ HasRead(w) /\ HasStored(w)
         /\ \A j \in Jobs : Fits(j)
<1>1. Calm /\ Executes(w) BY WorksPast DEF Frugal, Calm
<1>2. job[w] \in Jobs /\ Known(job[w]) /\ job[w].cycle \in Cycles BY <1>1, Acting DEF Calm
<1> QED BY <1>1, <1>2 DEF CauseInv, Fits

LEMMA ReadsSupply ==
  ASSUME TypeInv, WholeInv, CauseInv, Frugal, NEW w \in Workers,
         Works(w, Jobs, Database, UnitsOfWork), view[w] # None, NEW v \in Reads(w)
  PROVE  /\ Supplied(v, job[w]) /\ Older(v)
         /\ \A c \in Cycles : SomeFiles(v, c) => SomeFiles(db, c)
<1>1. Executes(w) /\ HasRead(w) /\ Supplied(db, job[w]) BY CauseOf
<1>2. \/ v = view[w]
      \/ v.plans = db.plans /\ v.files = db.files /\ v.reviews = db.reviews /\ v.checks = db.checks
    BY ReadsType
<1>3. \A c \in Cycles : SomeFiles(v, c) => SomeFiles(db, c) BY ReadsAreBehind
<1>4. CASE v = view[w] BY <1>1, <1>3, <1>4 DEF HasRead
<1>5. CASE v.plans = db.plans /\ v.files = db.files /\ v.reviews = db.reviews /\ v.checks = db.checks
  <2>1. Older(v) BY <1>5 DEF Older
  <2>2. Supplied(v, job[w]) BY <1>1, <1>5 DEF Supplied, SomeFiles
  <2> QED BY <1>3, <2>1, <2>2
<1> QED BY <1>2, <1>4, <1>5

\* The only review of a cycle, as it was read, is the one that is there.
LEMMA ReadRejected ==
  ASSUME TypeInv, EarnedInv, OnceInv, Calm, NEW w \in Workers, Executes(w), view[w] # None,
         job[w].type = "REVIEW", NEW v \in Reads(w), NEW c \in Cycles, c = job[w].cycle,
         v.reviews[c] # <<>>, db.reviews[c] # <<>>, ~(Last(v.reviews[c]) /\ AllPassed(v, c))
  PROVE  Rejected(db, c)
<1>1. /\ v.checks[c] = db.checks[c] /\ ToSet(v.reviews[c]) \subseteq ToSet(db.reviews[c])
      /\ v \in Database /\ db \in Database
    BY ReadsType DEF EarnedInv, ReadsWell, TypeInv
<1>2. v.reviews[c] \in Seq(BOOLEAN) /\ db.reviews[c] \in Seq(BOOLEAN) BY <1>1 DEF Database
<1>3. Len(db.reviews[c]) <= 1 BY DEF OnceInv, StoredOnce, Calm
<1>4. ToSet(db.reviews[c]) = {Last(db.reviews[c])} BY <1>2, <1>3, OnlyReview
<1>5. Last(v.reviews[c]) \in ToSet(v.reviews[c]) BY <1>2, LastIsIn
<1>6. Last(v.reviews[c]) = Last(db.reviews[c]) BY <1>1, <1>4, <1>5
<1> QED BY <1>1, <1>6 DEF Rejected, AllPassed

\* A handler that starts finds what it needs.
LEMMA StartCause ==
  ASSUME TypeInv, WholeInv, EarnedInv, OnceInv, CauseInv, Frugal, NEW w \in Workers,
         \/ StartPlan(w) \/ StartImplement(w) \/ StartTest(w) \/ StartReview(w) \/ StartRepair(w)
  PROVE  pc'[w] \notin {"raised", "enqueue"} /\ HasRead(w)' /\ HasStored(w)' /\ ~Overtaken(w)'
<1>1. UNCHANGED <<db, job>> /\ Works(w, Jobs, Database, UnitsOfWork) BY Starting
<1>2. view[w] # None /\ job[w] \in Jobs /\ Executes(w) /\ Calm BY <1>1, StartLeaves, CauseOf
<1>3. PICK c \in Cycles : c = job[w].cycle BY <1>2, JobParts
<1>4. \A v \in Reads(w) : /\ Supplied(v, job[w]) /\ Older(v)
                          /\ \A k \in Cycles : SomeFiles(v, k) => SomeFiles(db, k)
    BY <1>1, <1>2, ReadsSupply
<1>5. ASSUME NEW where \in {"settle", "advance", "approve", "reject"}, Return(w, where, {})
      PROVE  pc'[w] = where /\ view'[w] = None
    BY <1>5 DEF Return, Goto, TypeInv, Loop, LoopInv, LoopTyped
<1>6. ASSUME Return(w, "settle", {})
      PROVE  pc'[w] \notin {"raised", "enqueue"} /\ HasRead(w)' /\ HasStored(w)' /\ ~Overtaken(w)'
    BY <1>5, <1>6 DEF HasRead, HasStored, Overtaken, Decides
<1>7. ASSUME Return(w, "advance", {}), Stored(db, job[w])
      PROVE  pc'[w] \notin {"raised", "enqueue"} /\ HasRead(w)' /\ HasStored(w)' /\ ~Overtaken(w)'
  <2>1. pc'[w] = "advance" /\ view'[w] = None BY <1>5, <1>7
  <2>2. Stored(db, job[w])' BY <1>1, <1>7 DEF Stored, SomeFiles
  <2> QED BY <2>1, <2>2 DEF HasRead, HasStored, Overtaken, Decides
<1>8. ASSUME NEW v \in Reads(w), NEW where \in {"calling", "store"}, Hold(w, where, v)
      PROVE  pc'[w] \notin {"raised", "enqueue"} /\ HasRead(w)' /\ HasStored(w)' /\ ~Overtaken(w)'
  <2>1. pc'[w] = where /\ view'[w] = v BY <1>8 DEF Hold, TypeInv, Loop, LoopInv, LoopTyped
  <2>2. Older(v)' BY <1>1, <1>4 DEF Older
  <2>3. HasRead(w)' BY <1>1, <1>4, <2>1, <2>2 DEF HasRead
  <2> QED BY <2>1, <2>3 DEF HasStored, Overtaken, Decides
<1>9. CASE StartPlan(w)
  <2>1. \A v \in Reads(w) : v.plans > 0 => Stored(db, job[w])
      BY <1>4, <1>9 DEF StartPlan, Older, Stored
  <2> QED BY <1>6, <1>7, <1>8, <1>9, <2>1 DEF StartPlan
<1>10. CASE StartImplement(w)
  <2>1. Stored(db, job[w]) BY <1>10 DEF StartImplement, Stored
  <2>2. \A v \in Reads(w) : v.plans # 0 BY <1>4, <1>10 DEF StartImplement, Supplied
  <2> QED BY <1>6, <1>7, <1>8, <1>10, <2>1, <2>2 DEF StartImplement
<1>11. CASE StartTest(w)
  <2>1. \A v \in Reads(w) : v.checks[c] # {} => Stored(db, job[w])
      BY <1>3, <1>4, <1>11 DEF StartTest, Older, Stored
  <2>2. \A v \in Reads(w) : SomeFiles(v, c) BY <1>3, <1>4, <1>11 DEF StartTest, Supplied
  <2> QED BY <1>3, <1>6, <1>7, <1>8, <1>11, <2>1, <2>2 DEF StartTest
<1>12. CASE StartReview(w)
  <2>1. \A v \in Reads(w) : SomeFiles(v, c) /\ v.checks[c] # {}
      BY <1>3, <1>4, <1>12 DEF StartReview, Supplied
  <2>2. PICK v \in Reads(w) :
          \/ Return(w, "settle", {})
          \/ /\ v.reviews[c] # <<>>
             /\ Return(w, Verdict(Last(v.reviews[c]), v, c), {})
          \/ Hold(w, "calling", v)
      BY <1>3, <1>12, <2>1 DEF StartReview
  <2>3. ASSUME v.reviews[c] # <<>>, Return(w, Verdict(Last(v.reviews[c]), v, c), {})
        PROVE  pc'[w] \notin {"raised", "enqueue"} /\ HasRead(w)' /\ HasStored(w)' /\ ~Overtaken(w)'
    <3>1. PICK where \in {"approve", "reject"} : where = Verdict(Last(v.reviews[c]), v, c)
        BY DEF Verdict
    <3>2. pc'[w] = where /\ view'[w] = None BY <1>5, <2>3, <3>1
    <3>3. db.reviews[c] # <<>> BY <1>4, <2>3 DEF Older
    <3>4. job[w].type = "REVIEW" BY <1>12 DEF StartReview
    <3>5. where = "reject" => Rejected(db, c)
      <4>1. where = "reject" => ~(Last(v.reviews[c]) /\ AllPassed(v, c)) BY <3>1 DEF Verdict
      <4> QED BY <1>2, <1>3, <2>3, <3>3, <3>4, <4>1, ReadRejected
    <3>6. HasStored(w)' BY <1>1, <1>3, <3>2, <3>3, <3>5 DEF HasStored, Rejected, AllPassed
    <3> QED BY <3>2, <3>6 DEF HasRead, Overtaken, Decides
  <2> QED BY <1>6, <1>8, <2>2, <2>3
<1>13. CASE StartRepair(w)
  <2>1. \A v \in Reads(w) : SomeFiles(v, c + 1) => Stored(db, job[w])
    <3>1. job[w].type = "REPAIR" BY <1>13 DEF StartRepair
    <3>2. c + 1 \in Cycles BY <1>2, <1>3, <3>1, JobParts, CyclesType
    <3> QED BY <1>3, <1>4, <3>1, <3>2 DEF Stored
  <2>2. \A v \in Reads(w) : SomeFiles(v, c) /\ v.checks[c] # {} /\ v.reviews[c] # <<>>
      BY <1>3, <1>4, <1>13 DEF StartRepair, Supplied
  <2> QED BY <1>3, <1>6, <1>7, <1>8, <1>13, <2>1, <2>2 DEF StartRepair
<1> QED BY <1>9, <1>10, <1>11, <1>12, <1>13

\* A handler that stores an artifact leaves it behind.
LEMMA StoreCause ==
  ASSUME TypeInv, EarnedInv, OnceInv', CauseInv, Frugal, NEW w \in Workers,
         StorePlan(w) \/ StoreFiles(w) \/ StoreChecks(w) \/ StoreReview(w)
  PROVE  /\ pc'[w] \notin {"raised", "enqueue"} /\ view'[w] = None /\ HasStored(w)'
         /\ db'.status = db.status /\ db'.repairs = db.repairs
<1>1. Works(w, Jobs, Database, UnitsOfWork) /\ Handler(w)
    BY HandlerTypes DEF Handler
<1>2. job[w] \in Jobs /\ Executes(w) /\ Calm /\ UNCHANGED job BY <1>1, CauseOf, WorksPast DEF Calm
<1>3. PICK c \in Cycles : c = job[w].cycle BY <1>2, JobParts
<1>4. CASE StorePlan(w)
  <2>1. /\ job[w] = PlanJob /\ db'.plans = db.plans + 1 /\ pc'[w] = "advance" /\ view'[w] = None
        /\ db'.status = db.status /\ db'.repairs = db.repairs
      BY <1>4, StorePlanEffect
  <2>2. db.plans \in Nat BY DEF TypeInv, Database
  <2>3. Stored(db, job[w])' BY <1>2, <2>1, <2>2, JobTypes DEF Stored
  <2> QED BY <2>1, <2>3 DEF HasStored
<1>5. CASE StoreFiles(w)
  <2>1. /\ db'.files[SlotOf(job[w])] # <<>> /\ pc'[w] = "advance" /\ view'[w] = None
        /\ db'.status = db.status /\ db'.repairs = db.repairs
      BY <1>5, StoreFilesEffect
  <2>2. job[w].type \in {"IMPLEMENT", "REPAIR"} BY <1>5 DEF StoreFiles
  <2>3. job[w].type = "REPAIR" => RolesOf(c + 1) = {"repair_engineer"}
    <3>1. c \in Nat /\ c + 1 # 0 BY CyclesType
    <3> QED BY <3>1 DEF RolesOf
  <2>4. Stored(db, job[w])' BY <1>2, <1>3, <2>1, <2>2, <2>3 DEF Stored, SomeFiles, SlotOf
  <2> QED BY <2>1, <2>4 DEF HasStored
<1>6. CASE StoreChecks(w)
  <2>1. PICK passed \in BOOLEAN : db'.checks[c] = db.checks[c] \union {passed}
      BY <1>3, <1>6, StoreChecksEffect
  <2>2. /\ pc'[w] = "advance" /\ view'[w] = None
        /\ db'.status = db.status /\ db'.repairs = db.repairs /\ job[w].type = "TEST"
      BY <1>6, StoreChecksEffect DEF StoreChecks
  <2>3. Stored(db, job[w])' BY <1>2, <1>3, <2>1, <2>2 DEF Stored
  <2> QED BY <2>2, <2>3 DEF HasStored
<1>7. CASE StoreReview(w)
  <2>1. PICK approve \in BOOLEAN :
          /\ db'.reviews[c] \in {Append(db.reviews[c], approve), <<approve>> \o db.reviews[c]}
          /\ pc'[w] = Verdict(approve, view[w], c)
      BY <1>3, <1>7, StoreReviewEffect
  <2>2. /\ view'[w] = None /\ db'.status = db.status /\ db'.repairs = db.repairs
        /\ db'.checks = db.checks /\ TypeInv'
      BY <1>7, StoreReviewEffect
  <2>3. view[w].checks[c] = db.checks[c]
    <3>1. job[w].type = "REVIEW" /\ view[w] # None BY <1>7 DEF StoreReview, TypeInv
    <3> QED BY <1>2, <1>3, <3>1 DEF EarnedInv, ReadsWell
  <2>4. db.reviews[c] \in Seq(BOOLEAN) /\ db'.reviews[c] \in Seq(BOOLEAN)
      BY <2>2 DEF TypeInv, Database
  <2>5. approve \in ToSet(db'.reviews[c]) BY <2>1, <2>4, ApprovalIsIn
  <2>6. Len(db'.reviews[c]) <= 1
    <3>1. Calm' BY <1>1, <1>2, CalmStays
    <3> QED BY <3>1 DEF OnceInv, StoredOnce, Calm
  <2>7. db'.reviews[c] # <<>> BY <2>1, <2>4
  <2>8. Last(db'.reviews[c]) = approve BY <2>4, <2>5, <2>6, <2>7, OnlyReview
  <2>9. pc'[w] = "reject" => Rejected(db', c)
      BY <2>1, <2>2, <2>3, <2>7, <2>8 DEF Verdict, Rejected, AllPassed
  <2>10. pc'[w] \in {"approve", "reject"} BY <2>1 DEF Verdict
  <2> QED BY <1>2, <1>3, <2>2, <2>7, <2>9, <2>10 DEF HasStored, Rejected, AllPassed
<1> QED BY <1>4, <1>5, <1>6, <1>7

\* What the orchestrator enqueues has what it needs, and comes in its stage.
LEMMA EnqueuesFit ==
  ASSUME TypeInv, WholeInv, EarnedInv, CauseInv, Frugal, NEW w \in Workers, Orchestrates(w),
         NEW j \in todo'[w]
  PROVE  (Supplied(db, j) /\ StageOf(j))'
<1>1. /\ Works(w, Jobs, Database, UnitsOfWork) /\ TypeInv' /\ Decides(w) /\ RowsKept
      /\ db'.status = db.status \/ Moves(w)
    BY Decided DEF Frugal
<1>2. /\ Calm /\ Executes(w) /\ job[w] \in Jobs /\ Supplied(db, job[w]) /\ StageOf(job[w])
      /\ OneOvertaken /\ HasStored(w) /\ UNCHANGED job
    BY <1>1, CauseOf, WorksPast DEF Calm
<1>3. PICK c \in Cycles : c = job[w].cycle BY <1>2, JobParts
<1>4. pc'[w] = "enqueue" BY <1>1 DEF TypeInv, Loop, LoopInv, LoopOK
<1>5. Past(job[w])' /\ (Past(PlanJob) => Past(PlanJob)')
    BY <1>1, <1>2, <1>4, JobsAre, WorksPast DEF Calm
<1>6. ASSUME NEW i \in Jobs, Supplied(db, i) PROVE Supplied(db, i)'
    BY <1>1, <1>6 DEF RowsKept, Supplied, SomeFiles
\* The stages after the implementers'.
<1>7. ASSUME job[w].type \in {"TEST", "REVIEW", "REPAIR"}
      PROVE  db'.status \in Underway /\ Past(PlanJob)'
    BY <1>1, <1>2, <1>5, <1>7 DEF StageOf, Moves
<1>8. view[w] # None /\ c \in Nat BY <1>1, CyclesType DEF Decides
<1>9. CASE PlanCompleted(w)
  <2>1. job[w].type = "PLAN" /\ pc[w] = "advance" BY <1>9 DEF PlanCompleted, At
  <2>2. view[w].status = db.status BY <1>1, <1>2, <2>1 DEF OneOvertaken, Overtaken
  <2>3. j.type = "IMPLEMENT"
    <3>1. todo'[w] \in {{}, {ImplementJob(r) : r \in IMPLEMENTER_ROLES}}
        BY <1>9, PlanCompletedEffect DEF Advances
    <3> QED BY <3>1, JobTypes
  <2>4. db'.status = "IMPLEMENTING"
    <3>1. ASSUME NEW keys, view[w].status = "PLANNING", CommitStatus(w, "IMPLEMENTING", keys)
          PROVE  db'.status = "IMPLEMENTING"
      <4>1. "IMPLEMENTING" \in Allowed[view[w].status] BY <3>1 DEF Allowed, EngineeringStatus
      <4> QED BY <1>4, <3>1, <4>1, UpdateMoves
    <3>2. ASSUME Return(w, "settle", {}) PROVE FALSE BY <1>4, <3>2, SoloReturns
    <3>3. ASSUME NEW keys, view[w].status = "IMPLEMENTING", Return(w, "enqueue", keys)
          PROVE  db'.status = "IMPLEMENTING"
        BY <2>2, <3>3, SoloReturns
    <3> QED BY <1>9, <3>1, <3>2, <3>3 DEF PlanCompleted
  <2>5. db.plans > 0 /\ db'.plans = db.plans BY <1>1, <1>2, <2>1 DEF HasStored, Stored, RowsKept
  <2>6. Past(PlanJob)' BY <1>2, <1>5, <2>1, JobParts
  <2> QED BY <2>3, <2>4, <2>5, <2>6 DEF Supplied, StageOf, Early
<1>10. CASE MaybeScheduleTests(w)
  <2>1. job[w].type = "IMPLEMENT" BY <1>10 DEF MaybeScheduleTests
  <2>2. /\ todo'[w] \in {{}, {TestJob(0)}}
        /\ \E v \in Reads(w) : AllRoles(v)
      BY <1>10, MaybeScheduleTestsEffect DEF Advances
  <2>3. j = TestJob(0) /\ AllRoles(db) BY <1>8, <2>2, ReadsAreBehind
  <2>4. j.type = "TEST" /\ j.cycle = 0 BY <2>3, JobTypes
  <2>5. SomeFiles(db, 0) BY <2>3 DEF AllRoles, SomeFiles, RolesOf, IMPLEMENTER_ROLES
  <2>6. db'.status \in Underway
    <3>1. \A v \in Reads(w) : v.status = view[w].status BY <1>8, ReadsType
    <3>2. view[w].status = "IMPLEMENTING" /\ CommitStatus(w, "TESTING", {TestJob(0)})
      <4>1. ASSUME Return(w, "settle", {}) PROVE FALSE BY <1>4, <4>1, SoloReturns
      <4> QED BY <1>10, <3>1, <4>1 DEF MaybeScheduleTests
    <3>3. "TESTING" \in Allowed[view[w].status] BY <3>2 DEF Allowed, EngineeringStatus
    <3>4. db'.status = "TESTING" BY <1>4, <3>2, <3>3, UpdateMoves
    <3> QED BY <3>4 DEF Underway, Early, EngineeringStatus
  <2>7. Past(PlanJob)' BY <1>2, <1>5, <2>1 DEF StageOf
  <2>8. SomeFiles(db, 0)' BY <1>1, <2>5 DEF RowsKept, SomeFiles
  <2> QED BY <2>4, <2>6, <2>7, <2>8 DEF Supplied, StageOf
<1>11. CASE TestsCompleted(w)
  <2>1. job[w].type = "TEST" /\ pc[w] = "advance" BY <1>11 DEF TestsCompleted, At
  <2>2. view[w].repairs = c BY <1>1, <1>2, <1>3, <1>8, <2>1, ReadsCurrent
  <2>3. j = ReviewJob(c) BY <1>11, <2>2, TestsCompletedEffect DEF Advances
  <2>4. j.type = "REVIEW" /\ j.cycle = c /\ j \in Jobs BY <1>8, <2>3, JobTypes, JobsAre
  <2>5. Supplied(db, j)
    <3>1. SomeFiles(db, c) /\ db.checks[c] # {} BY <1>2, <1>3, <2>1 DEF Supplied, HasStored, Stored
    <3> QED BY <2>4, <3>1 DEF Supplied
  <2> QED BY <1>6, <1>7, <2>1, <2>4, <2>5 DEF StageOf
<1>12. CASE ReviewCompleted(w)
  <2>1. job[w].type = "REVIEW" /\ pc[w] \in {"approve", "reject"}
      BY <1>2, <1>12 DEF ReviewCompleted, At, EarnedInv, ApprovesWell
  <2>2. view[w].repairs = c BY <1>1, <1>2, <1>3, <1>8, <2>1, ReadsCurrent
  <2>3. j = RepairJob(c) /\ c \in 0..MaxRepairs - 1
      BY <1>12, <2>2, ReviewCompletedEffect DEF Advances
  <2>4. j.type = "REPAIR" /\ j.cycle = c /\ j \in Jobs BY <1>8, <2>3, JobTypes, JobsAre
  <2>5. Supplied(db, j)
    <3>1. SomeFiles(db, c) /\ db.checks[c] # {} /\ db.reviews[c] # <<>>
        BY <1>2, <1>3, <2>1 DEF Supplied, HasStored
    <3> QED BY <2>4, <3>1 DEF Supplied
  <2> QED BY <1>6, <1>7, <2>1, <2>4, <2>5 DEF StageOf
<1>13. CASE RepairCompleted(w)
  <2>1. job[w].type = "REPAIR" /\ pc[w] = "advance" BY <1>13 DEF RepairCompleted, At
  <2>2. view[w].repairs = c /\ db.repairs = c BY <1>1, <1>2, <1>3, <1>8, <2>1, ReadsCurrent
  <2>3. j = TestJob(c + 1) BY <1>13, <2>2, RepairCompletedEffect
  <2>4. c + 1 \in Cycles BY <1>2, <1>3, <2>1, JobParts, CyclesType
  <2>5. j.type = "TEST" /\ j.cycle = c + 1 /\ j \in Jobs BY <2>3, <2>4, JobTypes, JobsAre, CyclesType
  <2>6. Supplied(db, j)
    <3>1. SomeFiles(db, c + 1) BY <1>2, <1>3, <2>1 DEF HasStored, Stored
    <3> QED BY <2>5, <3>1 DEF Supplied
  <2> QED BY <1>6, <1>7, <2>1, <2>5, <2>6 DEF StageOf
<1> QED BY <1>9, <1>10, <1>11, <1>12, <1>13 DEF Orchestrates

\* Only the orchestrator moves the run and has jobs enqueued.
LEMMA HandlerMoves ==
  ASSUME TypeInv, NEW w \in Workers, Handler(w), ~Orchestrates(w)
  PROVE  db'.status = db.status /\ db'.repairs = db.repairs /\ todo'[w] = {}
<1>1. CASE ProviderFails(w) BY <1>1, ProviderFailsEffect
<1>2. CASE StorePlan(w) BY <1>2, StorePlanEffect
<1>3. CASE StoreFiles(w) BY <1>3, StoreFilesEffect
<1>4. CASE StoreChecks(w) BY <1>4, StoreChecksEffect
<1>5. CASE StoreReview(w) BY <1>5, StoreReviewEffect
<1> QED BY <1>1, <1>2, <1>3, <1>4, <1>5, Starting DEF Handler, Orchestrates

\* A run that has failed for cause stays as it is.
LEMMA FailureStays ==
  ASSUME TypeInv, EarnedInv, Calm, FailedWell, NEW w \in Workers, Handler(w), db.status = "FAILED"
  PROVE  FailedWell'
<1>1. Works(w, Jobs, Database, UnitsOfWork) BY HandlerTypes
<1>2. PICK c \in Cycles : c = MaxRepairs BY MaxRepairsAssumption, CyclesType DEF Cycles
<1>3. db.repairs = c /\ Past(ReviewJob(c)) /\ Rejected(db, c) BY <1>2 DEF FailedWell
<1>4. ReviewJob(c) \in Jobs BY JobsAre
<1>5. Past(ReviewJob(c))' /\ Executes(w) BY <1>1, <1>3, <1>4, WorksPast DEF Calm
<1>6. job[w] # ReviewJob(c) /\ Known(ReviewJob(c)) BY <1>3, <1>5 DEF Past, Known
<1>7. db'.checks[c] = db.checks[c] /\ db'.reviews[c] = db.reviews[c]
    BY <1>6, HandlerFindings DEF FindingsStay
<1>8. db'.repairs = db.repairs
  <2>1. CASE RepairCompleted(w) BY <2>1, RepairCompletedEffect
  <2>2. ASSUME NEW target, NEW keys, Advances(w, target, keys) PROVE db'.repairs = db.repairs
      BY <2>2 DEF Advances
  <2>3. CASE Orchestrates(w) /\ ~RepairCompleted(w)
      BY <2>2, <2>3, PlanCompletedEffect, MaybeScheduleTestsEffect, TestsCompletedEffect,
         ReviewCompletedEffect DEF Orchestrates
  <2> QED BY <2>1, <2>3, HandlerMoves
<1> QED BY <1>2, <1>3, <1>5, <1>7, <1>8 DEF FailedWell, Rejected, AllPassed

\* Only a review fails a run: the last one, which has rejected it.
LEMMA ReviewFails ==
  ASSUME TypeInv, EarnedInv, CauseInv, Frugal, NEW w \in Workers, Orchestrates(w),
         db.status # "FAILED", db'.status = "FAILED"
  PROVE  FailedWell'
<1>1. /\ Works(w, Jobs, Database, UnitsOfWork) /\ TypeInv' /\ Decides(w) /\ RowsKept
      /\ view[w] # None
    BY Decided DEF Frugal, Decides
<1>2. Calm /\ Executes(w) /\ job[w] \in Jobs /\ HasStored(w) BY <1>1, CauseOf
<1>3. ReviewCompleted(w) /\ pc'[w] # "raised" /\ pc[w] = "reject" /\ ~RepairsLeft(view[w])
  <2>1. ASSUME NEW target, NEW keys, Advances(w, target, keys), target # "FAILED" PROVE FALSE
      BY <2>1 DEF Advances
  <2>2. ReviewCompleted(w)
      BY <2>1, PlanCompletedEffect, MaybeScheduleTestsEffect, TestsCompletedEffect,
         RepairCompletedEffect DEF Orchestrates
  <2>3. ASSUME NEW target \in EngineeringStatus, NEW keys \in SUBSET Jobs,
               CommitStatus(w, target, keys), target # "FAILED"
        PROVE  FALSE
    <3>1. pc[w] \in {"advance", "approve", "reject"} BY <1>1 DEF Decides
    <3>2. Advances(w, target, keys) BY <1>1, <2>3, <3>1, CommitAdvances
    <3> QED BY <2>1, <2>3, <3>2
  <2>4. ASSUME Return(w, "settle", {}) PROVE FALSE BY <2>4, SoloReturns
  <2>5. pc[w] \in {"approve", "reject"} BY <2>2 DEF ReviewCompleted, At
  <2>6. "COMPLETED" \in EngineeringStatus /\ "REPAIRING" \in EngineeringStatus /\ {} \in SUBSET Jobs
      BY DEF EngineeringStatus
  <2>7. pc[w] # "approve" BY <2>2, <2>3, <2>4, <2>6 DEF ReviewCompleted
  <2>8. ~RepairsLeft(view[w])
    <3> SUFFICES ASSUME RepairsLeft(view[w]) PROVE FALSE OBVIOUS
    <3>1. CommitStatus(w, "REPAIRING", {RepairJob(view[w].repairs)})
        BY <2>2, <2>4, <2>7 DEF ReviewCompleted
    <3>2. view[w].repairs \in 0..MaxRepairs - 1
      <4>1. view[w].repairs \in Nat /\ MaxRepairs \in Nat
        <5>1. view[w] \in Database BY <1>1 DEF TypeInv, Loop, LoopInv, LoopTyped
        <5>2. view[w].repairs \in Nat BY <5>1, CyclesType DEF Database
        <5>3. MaxRepairs \in Nat BY MaxRepairsAssumption
        <5> QED BY <5>2, <5>3
      <4> QED BY <4>1 DEF RepairsLeft
    <3>3. {RepairJob(view[w].repairs)} \in SUBSET Jobs BY <3>2, JobsAre
    <3> QED BY <2>3, <2>6, <3>1, <3>3
  <2>9. pc'[w] # "raised" BY Decided DEF Frugal
  <2> QED BY <2>2, <2>5, <2>7, <2>8, <2>9
<1>4. job[w].type = "REVIEW" BY <1>2, <1>3 DEF EarnedInv, ApprovesWell
<1>5. PICK c \in Cycles : c = job[w].cycle /\ view[w].repairs = c /\ db.repairs = c
    BY <1>1, <1>2, <1>4, ReadsCurrent
<1>6. c = MaxRepairs
  <2>1. db.repairs <= MaxRepairs BY <1>2 DEF EarnedInv, CyclesInTurn
  <2>2. c \in Nat /\ MaxRepairs \in Nat BY CyclesType, MaxRepairsAssumption
  <2>3. ~(c < MaxRepairs) BY <1>3, <1>5 DEF RepairsLeft
  <2> QED BY <1>5, <2>1, <2>2, <2>3
<1>7. job[w] = ReviewJob(c) /\ ReviewJob(c) \in Jobs BY <1>2, <1>4, <1>5, JobParts, JobsAre
<1>8. Rejected(db, c) BY <1>3, <1>5, <1>2 DEF HasStored
<1>9. pc'[w] \in {"settle", "enqueue"} BY <1>3, AdvancesLeaves
<1>10. Past(ReviewJob(c))' BY <1>1, <1>2, <1>7, <1>9, WorksPast DEF Calm
<1>11. db'.repairs = c
  <2>1. ASSUME NEW target, NEW keys, Advances(w, target, keys) PROVE db'.repairs = db.repairs
      BY <2>1 DEF Advances
  <2> QED BY <1>3, <1>5, <2>1, ReviewCompletedEffect
<1>12. Rejected(db', c) BY <1>1, <1>8 DEF RowsKept, Rejected, AllPassed
<1> QED BY <1>6, <1>10, <1>11, <1>12 DEF FailedWell, Rejected, AllPassed

LEMMA FailureEarned ==
  ASSUME TypeInv, EarnedInv, CauseInv, Frugal, NEW w \in Workers, Handler(w)
  PROVE  FailedWell'
<1>1. CASE db'.status # "FAILED" BY <1>1 DEF FailedWell
<1>2. CASE db.status = "FAILED" BY <1>2, FailureStays DEF CauseInv, Frugal
<1>3. CASE db.status # "FAILED" /\ db'.status = "FAILED" BY <1>3, HandlerMoves, ReviewFails
<1> QED BY <1>1, <1>2, <1>3

LEMMA HandlerLeaves ==
  ASSUME NEW w \in Workers, Handler(w)
  PROVE  api' = api /\ (Orchestrates(w) => UNCHANGED budget)
<1>1. ASSUME NEW target, NEW keys, CommitStatus(w, target, keys) PROVE UNCHANGED <<api, budget>>
    BY <1>1 DEF CommitStatus, Commit, Raise, Return
<1>2. ASSUME Orchestrates(w) PROVE UNCHANGED <<api, budget>>
    BY <1>1, <1>2 DEF Orchestrates, PlanCompleted, MaybeScheduleTests, TestsCompleted,
       ReviewCompleted, RepairCompleted, Commit, Raise, Return
<1>3. CASE StorePlan(w) \/ StoreFiles(w) \/ StoreChecks(w) \/ StoreReview(w)
    BY <1>3 DEF StorePlan, StoreFiles, StoreChecks, StoreReview, Commit
<1>4. CASE StartPlan(w) \/ StartImplement(w) \/ StartTest(w) \/ StartReview(w) \/ StartRepair(w)
    BY <1>4 DEF StartPlan, StartImplement, StartTest, StartReview, StartRepair, Return, Raise, Hold
<1>5. CASE ProviderAnswers(w) \/ ProviderFails(w)
    BY <1>2, <1>5 DEF ProviderAnswers, ProviderFails, Hold
<1> QED BY <1>2, <1>3, <1>4, <1>5 DEF Handler, Orchestrates

\* A provider that fails now has not failed before.
LEMMA FrugalBefore ==
  ASSUME TypeInv, NEW w \in Workers, Works(w, Jobs, Database, UnitsOfWork), Frugal'
  PROVE  Frugal
<1>1. budget \in [raises : Nat, lapses : Nat, crashes : Nat, lost : SUBSET Jobs]
    BY DEF TypeInv, Loop, LoopInv, LoopTyped
<1>2. budget'.raises \in {budget.raises, budget.raises + 1} BY <1>1 DEF Works
<1>3. Calm BY CalmStays DEF Frugal
<1>4. budget'.raises < MaxAttempts - 1 /\ MaxAttempts \in Nat BY LoopAssumption DEF Frugal
<1>5. budget.raises \in Nat BY <1>1
<1>6. budget.raises < MaxAttempts - 1 BY <1>2, <1>4, <1>5
<1> QED BY <1>3, <1>6 DEF Frugal

\* The worker whose handler takes a step.
LEMMA WorkerCause ==
  ASSUME TypeInv, WholeInv, EarnedInv, OnceInv, OnceInv', CauseInv, Frugal,
         NEW w \in Workers, Handler(w)
  PROVE  HasRead(w)' /\ HasStored(w)' /\ OneOvertaken' /\ Paid'
<1>1. Works(w, Jobs, Database, UnitsOfWork) BY HandlerTypes
<1>2. /\ Calm /\ Executes(w) /\ HasRead(w) /\ OneOvertaken /\ Paid /\ \A j \in Jobs : Fits(j)
    BY <1>1, CauseOf
<1>3. CASE Orchestrates(w)
  <2>1. view'[w] = None /\ pc'[w] \in {"settle", "raised", "enqueue"} BY <1>2, <1>3, Decided
  <2>2. HasRead(w)' /\ HasStored(w)' BY <2>1 DEF HasRead, HasStored
  <2>3. UNCHANGED budget BY <1>3, HandlerLeaves
  <2> QED BY <1>2, <1>3, <2>2, <2>3, DecisionPaid
<1>4. CASE StartPlan(w) \/ StartImplement(w) \/ StartTest(w) \/ StartReview(w) \/ StartRepair(w)
  <2>1. pc'[w] \notin {"raised", "enqueue"} /\ HasRead(w)' /\ HasStored(w)' /\ ~Overtaken(w)'
      BY <1>4, StartCause
  <2>2. db'.status = db.status BY <1>4, Starting
  <2> QED BY <1>1, <1>2, <2>1, <2>2, QuietPaid
<1>5. CASE ProviderAnswers(w)
  <2>1. UNCHANGED <<db, job>> BY <1>5, Starting
  <2>2. pc'[w] = "store" /\ view'[w] = view[w]
      BY <1>5 DEF ProviderAnswers, Hold, TypeInv, Loop, LoopInv, LoopTyped
  <2>3. HasRead(w)'
    <3>1. (view[w] # None => Older(view[w]) /\ Supplied(view[w], job[w])) BY <1>2 DEF HasRead
    <3>2. PICK v : v = view[w] OBVIOUS
    <3>3. v # None => Older(v)' BY <2>1, <3>1, <3>2 DEF Older
    <3> QED BY <2>1, <2>2, <3>1, <3>2, <3>3 DEF HasRead
  <2>4. HasStored(w)' /\ ~Overtaken(w)' BY <2>2 DEF HasStored, Overtaken, Decides
  <2>5. OneOvertaken' /\ Paid' BY <1>1, <1>2, <2>1, <2>2, <2>4, QuietPaid
  <2> QED BY <2>3, <2>4, <2>5
<1>6. CASE ProviderFails(w)
  <2>1. UNCHANGED db /\ pc'[w] = "raised" /\ view'[w] = None BY <1>6, ProviderFailsEffect
  <2>2. budget' = [budget EXCEPT !.raises = @ + 1] BY <1>6 DEF ProviderFails
  <2>3. HasRead(w)' /\ HasStored(w)' /\ ~Overtaken(w)'
      BY <2>1 DEF HasRead, HasStored, Overtaken, Decides
  <2>4. OneOvertaken' /\ Paid' BY <1>1, <1>2, <2>1, <2>2, <2>3, QuietPaid
  <2> QED BY <2>3, <2>4
<1>7. CASE StorePlan(w) \/ StoreFiles(w) \/ StoreChecks(w) \/ StoreReview(w)
  <2>1. /\ pc'[w] \notin {"raised", "enqueue"} /\ view'[w] = None /\ HasStored(w)'
        /\ db'.status = db.status
      BY <1>7, StoreCause
  <2>2. HasRead(w)' /\ ~Overtaken(w)' BY <2>1 DEF HasRead, Overtaken, Decides
  <2>3. OneOvertaken' /\ Paid' BY <1>1, <1>2, <2>1, <2>2, QuietPaid
  <2> QED BY <2>1, <2>2, <2>3
<1> QED BY <1>3, <1>4, <1>5, <1>6, <1>7 DEF Handler, Orchestrates

\* The other workers.
LEMMA OthersCause ==
  ASSUME TypeInv, EarnedInv, CauseInv, Frugal, NEW w \in Workers, Handler(w),
         NEW u \in Workers, u # w
  PROVE  HasRead(u)' /\ HasStored(u)'
<1>1. Works(w, Jobs, Database, UnitsOfWork) /\ RowsGrow BY HandlerTypes, HandlerGrows
<1>2. Calm /\ HasRead(u) /\ HasStored(u) BY DEF Frugal, CauseInv
<1>3. /\ job'[u] = job[u] /\ pc'[u] = pc[u] /\ view'[u] = view[u]
      /\ Executes(u)' <=> Executes(u)
    BY <1>1, <1>2, WorksPast DEF Calm
<1>4. PICK v : v = view[u] OBVIOUS
<1>5. HasRead(u)'
  <2> SUFFICES ASSUME Executes(u), v # None PROVE (Older(v) /\ Supplied(v, job[u]))'
      BY <1>3, <1>4 DEF HasRead
  <2>1. Older(v) /\ Supplied(v, job[u]) BY <1>2, <1>4 DEF HasRead
  <2>2. \A d : Older(d) => Older(d)' BY <1>1, JobsAre, GrownRows
  <2> QED BY <1>3, <2>1, <2>2
<1>6. CASE pc[u] \notin {"advance", "approve", "reject"} BY <1>3, <1>5, <1>6 DEF HasStored
<1>7. CASE pc[u] \in {"advance", "approve", "reject"}
  <2>1. Executes(u) BY <1>7 DEF Executes, TypeInv, Loop, LoopInv, LoopOK
  <2>2. PICK j \in Jobs : j = job[u] BY <1>2, <2>1, Acting DEF Calm
  <2>3. PICK c \in Cycles : c = j.cycle BY JobParts
  <2>4. Known(j) /\ job[w] # j BY <1>2, <2>1, <2>2, Acting DEF Calm
  <2>5. Stored(db, j) => Stored(db, j)' BY <1>1, GrownRows
  <2>6. db.reviews[c] # <<>> => db'.reviews[c] # <<>> BY <1>1 DEF RowsGrow
  <2>7. ASSUME pc[u] = "reject" PROVE db'.checks[c] = db.checks[c] /\ db'.reviews[c] = db.reviews[c]
    <3>1. j.type = "REVIEW" BY <1>2, <2>2, <2>7 DEF EarnedInv, ApprovesWell
    <3>2. j = ReviewJob(c) BY <2>3, <3>1, JobParts
    <3> QED BY <1>2, <2>4, <3>2, HandlerFindings DEF FindingsStay
  <2>8. pc[u] = "reject" => Rejected(db, c) /\ Rejected(db, c)'
      BY <1>2, <2>2, <2>3, <2>7 DEF HasStored, Rejected, AllPassed
  <2>9. (pc[u] = "advance" => Stored(db, j)) /\ (pc[u] \in {"approve", "reject"} => db.reviews[c] # <<>>)
      BY <1>2, <2>2, <2>3 DEF HasStored
  <2>10. job'[u] = j /\ job'[u].cycle = c BY <1>3, <2>2, <2>3
  <2> QED BY <1>3, <1>5, <2>5, <2>6, <2>8, <2>9, <2>10 DEF HasStored
<1> QED BY <1>5, <1>6, <1>7

\* What was known fits as well as before; what is new fits.
LEMMA HandlerFits ==
  ASSUME TypeInv, WholeInv, EarnedInv, CauseInv, Frugal, NEW w \in Workers, Handler(w), NEW j \in Jobs
  PROVE  Fits(j)'
<1> SUFFICES ASSUME Known(j)' PROVE (Supplied(db, j) /\ StageOf(j))' BY DEF Fits
<1>1. Works(w, Jobs, Database, UnitsOfWork) /\ RowsGrow BY HandlerTypes, HandlerGrows
<1>2. Calm /\ Executes(w) /\ job[w] \in Jobs /\ Fits(j) BY <1>1, CauseOf
<1>3. Known(j) \/ j \in todo'[w] BY <1>1, <1>2, WorksPast DEF Calm
<1>4. CASE j \in todo'[w] BY <1>4, HandlerMoves, EnqueuesFit
<1>5. CASE Known(j)
  <2>1. Supplied(db, j) /\ StageOf(j) BY <1>2, <1>5 DEF Fits
  <2>2. Supplied(db, j)' BY <1>1, <2>1, GrownRows
  <2>3. Past(PlanJob) => Past(PlanJob)' /\ job[w].type # "PLAN"
    <3>1. Past(PlanJob) => Past(PlanJob)' BY <1>1, <1>2, JobsAre, WorksPast DEF Calm
    <3>2. job[w].type = "PLAN" => job[w] = PlanJob BY <1>2, JobParts
    <3> QED BY <1>2, <3>1, <3>2 DEF Past
  <2>4. db'.status = db.status \/ Moves(w) BY <1>2, HandlerMoves, Decided
  <2>5. db'.status = db.status \/ (Past(PlanJob) => db'.status \in Underway)
    <3>1. "TESTING" \in Underway BY DEF Underway, Early, EngineeringStatus
    <3> QED BY <2>3, <2>4, <3>1 DEF Moves
  <2>6. StageOf(j)' BY <2>1, <2>3, <2>5 DEF StageOf, Underway
  <2> QED BY <2>2, <2>6
<1> QED BY <1>3, <1>4, <1>5

LEMMA HandlerCause ==
  ASSUME TypeInv, WholeInv, EarnedInv, OnceInv, OnceInv', CauseInv, NEW w \in Workers, Handler(w)
  PROVE  CauseInv'
<1> SUFFICES ASSUME Frugal' PROVE CauseInv' BY DEF CauseInv
<1>1. Works(w, Jobs, Database, UnitsOfWork) BY HandlerTypes
<1>2. Frugal BY <1>1, FrugalBefore
<1>3. /\ HasRead(w)' /\ HasStored(w)' /\ OneOvertaken' /\ Paid' /\ FailedWell'
      /\ \A j \in Jobs : Fits(j)'
    BY <1>2, WorkerCause, FailureEarned, HandlerFits
<1>4. \A u \in Workers : HasRead(u)' /\ HasStored(u)' BY <1>2, <1>3, OthersCause
<1>5. api' \notin {"new", "committed", "planning"}
  <2>1. job[w] \in Jobs /\ Known(job[w]) BY <1>1, <1>2, CauseOf
  <2> QED BY <1>2, <2>1, HandlerLeaves DEF CauseInv
<1> QED BY <1>3, <1>4, <1>5 DEF CauseInv

\* Where nobody is killed or loses a lease, the loop takes no other step.
CalmLoop ==
  \/ \E w \in Workers : Settle(w) \/ Fail(w) \/ Restart(w) \/ ReportFailure(w)
  \/ \E w \in Workers, j \in Jobs : Claim(w, j)
  \/ \E w \in Workers : Begin(w) \/ EnqueueNext(w)
  \/ CreateRun \/ Start \/ EnqueuePlan

LEMMA CalmSteps ==
  ASSUME TypeInv, EarnedInv, LoopStep, Calm'
  PROVE  CalmLoop /\ budget' = budget
<1>1. budget \in [raises : Nat, lapses : Nat, crashes : Nat, lost : SUBSET Jobs] /\ Calm /\ OwnersWork
  <2>1. Calm BY LoopStepFrame
  <2> QED BY <2>1 DEF TypeInv, Loop, LoopInv, LoopTyped, EarnedInv
<1>2. ASSUME NEW w \in Workers, CrashWorker(w) PROVE FALSE BY <1>1, <1>2 DEF CrashWorker, Calm
<1>3. ASSUME CrashApi PROVE FALSE BY <1>1, <1>3 DEF CrashApi, Calm
<1>4. ASSUME NEW j \in Jobs, Lapse(j) PROVE FALSE
  <2>1. job[jobs[j].owner] = j /\ jobs[j].owner # None
      BY <1>1, <1>4 DEF Lapse, OwnersWork, TypeInv, Loop, LoopInv, LoopTyped, LoopOK
  <2>2. budget'.lapses = budget.lapses + 1 BY <1>1, <1>4, <2>1 DEF Lapse
  <2> QED BY <1>1, <2>2 DEF Calm
<1>5. CalmLoop BY <1>2, <1>3, <1>4 DEF LoopStep, CalmLoop
<1>6. budget' = budget
    BY <1>5 DEF CalmLoop, Settle, Fail, Restart, ReportFailure, Claim, ClaimFor, Begin, BeginAt,
       EnqueueNext, EnqueueOne, CreateRun, Start, EnqueuePlan
<1> QED BY <1>5, <1>6

\* The step of a worker uses up nothing of a job that is another's.
LEMMA SpentKept ==
  ASSUME TypeInv, OwnersWork, NEW w \in Workers, NEW j \in Jobs, jobs'[j] = jobs[j],
         \A u \in Workers : u # w => pc'[u] = pc[u],
         \/ job[w] # j
         \/ pc[w] # "raised" /\ pc'[w] # "raised"
  PROVE  Spent(j)' = Spent(j)
<1>1. ASSUME jobs[j].status = "running"
      PROVE  jobs[j].owner \in Workers /\ job[jobs[j].owner] = j
    BY <1>1 DEF OwnersWork, TypeInv, Loop, LoopInv, LoopTyped, LoopOK, JobRow
<1> QED BY <1>1 DEF Spent

\* A job that waits has used up its attempts but the one it waits for.
LEMMA LoopSpends ==
  ASSUME TypeInv, OwnersWork, Calm, CalmLoop, NEW j \in Jobs, jobs'[j].status # "done"
  PROVE  jobs[j].status # "done" /\ Spent(j)' = Spent(j)
<1> USE DEF TypeInv, Loop, LoopInv, LoopTyped
<1>1. ASSUME NEW w \in Workers, Settle(w) \/ Fail(w)
      PROVE  jobs[j].status # "done" /\ Spent(j)' = Spent(j)
  <2>1. job[w] \in Jobs /\ Owns(w) /\ pc[w] \in {"settle", "raised"}
      BY <1>1, NoneAssumption DEF Settle, Fail, LoopOK, Exclusive, Calm
  <2>2. PICK status \in {"done", "queued", "failed"} :
          /\ jobs' = Released(job[w], status)
          /\ status # "done" => pc[w] = "raised"
      BY <1>1, <2>1 DEF Settle, Fail
  <2>3. \A u \in Workers : u # w => pc'[u] = pc[u] BY <1>1 DEF Settle, Fail, Drop, Goto
  <2>4. CASE j = job[w]
    <3>1. /\ jobs'[j].status = status /\ jobs'[j].attempt = jobs[j].attempt
          /\ jobs[j].status = "running" /\ jobs[j].owner = w
        BY <2>1, <2>2, <2>4 DEF Released, Owns, JobRow
    <3> QED BY <2>2, <3>1 DEF Spent
  <2>5. CASE j # job[w]
    <3>1. jobs'[j] = jobs[j] BY <2>1, <2>2, <2>5 DEF Released
    <3>2. Spent(j)' = Spent(j) BY <2>3, <2>5, <3>1, SpentKept
    <3> QED BY <3>1, <3>2
  <2> QED BY <2>4, <2>5
<1>2. ASSUME NEW w \in Workers, Restart(w) \/ ReportFailure(w)
      PROVE  jobs[j].status # "done" /\ Spent(j)' = Spent(j)
  <2>1. /\ jobs' = jobs /\ pc[w] \in {"dead", "terminal"} /\ pc'[w] # "raised"
        /\ \A u \in Workers : u # w => pc'[u] = pc[u]
      BY <1>2 DEF Restart, ReportFailure, At, Drop, Goto
  <2>2. Spent(j)' = Spent(j) BY <2>1, SpentKept
  <2> QED BY <2>1, <2>2
<1>3. ASSUME NEW w \in Workers, NEW k \in Jobs, Claim(w, k)
      PROVE  jobs[j].status # "done" /\ Spent(j)' = Spent(j)
  <2>1. /\ jobs[k].status = "queued" /\ jobs[k].attempt \in Int /\ pc[w] = "idle" /\ pc'[w] = "start"
        /\ \A u \in Workers : u # w => pc'[u] = pc[u]
        /\ \A i \in Jobs : i # k => jobs'[i] = jobs[i]
        /\ jobs'[k] = [status |-> "running", attempt |-> jobs[k].attempt + 1, owner |-> w]
    <3>1. jobs[k] \in JobRow OBVIOUS
    <3>2. jobs[k].attempt \in Int BY <3>1, LoopAssumption DEF JobRow
    <3> QED BY <1>3, <3>2 DEF Claim, ClaimFor
  <2>2. CASE j = k
    <3>1. Spent(j) = jobs[k].attempt BY <2>1, <2>2 DEF Spent
    <3>2. Spent(j)' = (jobs[k].attempt + 1) - 1 BY <2>1, <2>2 DEF Spent
    <3> QED BY <2>1, <2>2, <3>1, <3>2
  <2>3. CASE j # k
    <3>1. jobs'[j] = jobs[j] BY <2>1, <2>3
    <3>2. Spent(j)' = Spent(j) BY <2>1, <3>1, SpentKept
    <3> QED BY <3>1, <3>2
  <2> QED BY <2>2, <2>3
<1>4. ASSUME NEW keys, jobs' = Enqueued(jobs, keys),
             \A u \in Workers : pc'[u] = "raised" <=> pc[u] = "raised"
      PROVE  jobs[j].status # "done" /\ Spent(j)' = Spent(j)
  <2>1. \/ jobs'[j] = jobs[j]
        \/ /\ jobs[j].status = "absent" /\ jobs'[j].status = "queued"
           /\ jobs'[j].attempt = jobs[j].attempt
      BY <1>4 DEF Enqueued, JobRow
  <2>2. jobs[j].status = "running" => jobs[j].owner \in Workers BY DEF LoopOK, JobRow
  <2> QED BY <1>4, <2>1, <2>2 DEF Spent
<1>5. ASSUME NEW w \in Workers, EnqueueNext(w)
      PROVE  jobs[j].status # "done" /\ Spent(j)' = Spent(j)
  <2>1. PICK k \in todo[w] : EnqueueOne(w, k) BY <1>5 DEF EnqueueNext
  <2> QED BY <1>4, <2>1 DEF EnqueueOne, Goto
<1>6. CASE UNCHANGED <<jobs, pc>> BY <1>6 DEF Spent
<1>7. CASE CreateRun \/ Start \/ \E w \in Workers : Begin(w)
    BY <1>6, <1>7 DEF CreateRun, Start, Begin, BeginAt, workerVars
<1>8. CASE EnqueuePlan BY <1>4, <1>8 DEF EnqueuePlan, workerVars
<1> QED BY <1>1, <1>2, <1>3, <1>5, <1>7, <1>8 DEF CalmLoop

\* Before the API has enqueued the plan nothing can have gone wrong.
LEMMA NothingKnown ==
  TypeInv /\ (\A j \in Jobs : ~Known(j)) /\ db.status # "FAILED" => CauseInv
<1> SUFFICES ASSUME TypeInv, \A j \in Jobs : ~Known(j), db.status # "FAILED", Frugal PROVE CauseInv
    BY DEF CauseInv
<1>1. \A u \in Workers : job[u] = None /\ pc[u] \in {"idle", "dead"}
  <2> SUFFICES ASSUME NEW u \in Workers, job[u] # None PROVE FALSE
      BY DEF TypeInv, Loop, LoopInv, LoopOK
  <2>1. job[u] \in Jobs /\ jobs[job[u]].status # "absent"
      BY DEF TypeInv, Loop, LoopInv, LoopTyped, HoldsRow
  <2> QED BY <2>1 DEF Known
<1>2. SpentWithin(budget.raises)
  <2> SUFFICES ASSUME NEW j \in Jobs PROVE Spent(j) <= budget.raises BY DEF SpentWithin
  <2>1. jobs[j].status = "absent" BY DEF Known
  <2>2. jobs[j].attempt = 0 /\ budget.raises \in Nat
      BY <2>1 DEF TypeInv, Loop, LoopInv, LoopTyped, RowsOK, AttemptsLeft
  <2> QED BY <2>1, <2>2 DEF Spent
<1>3. \A u \in Workers : ~Executes(u) /\ HasStored(u) BY <1>1 DEF Executes, HasStored
<1> QED BY <1>2, <1>3 DEF CauseInv, OneOvertaken, Overtaken, Decides, Paid, FailedWell, Fits, HasRead

LEMMA NothingKnownNext ==
  TypeInv' /\ (\A j \in Jobs : ~Known(j))' /\ (db.status # "FAILED")' => CauseInv'
BY NothingKnown, PTL

\* No job fails for good, so nobody reports one.
LEMMA NobodyReports ==
  ASSUME TypeInv, CauseInv, Frugal, NEW w \in Workers, ReportFailure(w)
  PROVE  FALSE
<1>1. job[w] \in Jobs /\ pc[w] = "terminal" BY DEF ReportFailure, At, TypeInv, Loop, LoopInv, LoopTyped, LoopOK
<1>2. jobs[job[w]].status = "failed"
    BY <1>1, NoneAssumption DEF TypeInv, Loop, LoopInv, Exclusive, Frugal, Calm
<1>3. Spent(job[w]) = MaxAttempts
    BY <1>1, <1>2 DEF Spent, TypeInv, Loop, LoopInv, RowsOK, AttemptsLeft
<1>4. Spent(job[w]) <= budget.raises \/ Spent(job[w]) <= budget.raises + 1
    BY <1>1, <1>2 DEF CauseInv, Paid, SpentWithin
<1>5. budget.raises \in Nat /\ budget.raises < MaxAttempts - 1 /\ MaxAttempts \in Nat
    BY LoopAssumption DEF TypeInv, Loop, LoopInv, LoopTyped, Frugal
<1> QED BY <1>3, <1>4, <1>5

\* A step of the loop that leaves the rows alone.
LEMMA LoopCause ==
  ASSUME TypeInv, TypeInv', CauseInv, Frugal, LoopFrame, db' = db, budget' = budget,
         api' \in {api, "done", "dead"},
         \A j \in Jobs : jobs'[j].status # "done" => jobs[j].status # "done" /\ Spent(j)' = Spent(j)
  PROVE  CauseInv'
<1> USE DEF LoopFrame
<1>1. /\ Calm /\ OneOvertaken /\ Paid /\ FailedWell /\ \A j \in Jobs : Fits(j)
      /\ \A u \in Workers : HasRead(u) /\ HasStored(u)
    BY DEF Frugal, CauseInv
<1>2. \A j : (Supplied(db, j)' <=> Supplied(db, j)) /\ (Stored(db, j)' <=> Stored(db, j))
    BY DEF Supplied, Stored, SomeFiles
<1>3. \A u \in Workers : Executes(u)' =>
        \/ pc'[u] = "start" /\ view'[u] = None
        \/ Executes(u) /\ job'[u] = job[u] /\ pc'[u] = pc[u] /\ view'[u] \in {view[u], db}
    BY DEF Executes
<1>4. ASSUME NEW u \in Workers, Overtaken(u)' PROVE Overtaken(u) /\ job'[u] = job[u]
  <2>1. Executes(u) /\ job'[u] = job[u] /\ pc'[u] = pc[u] /\ view'[u] \in {view[u], db}
      BY <1>3, <1>4 DEF Overtaken, Decides
  <2>2. view'[u] = view[u] BY <1>4, <2>1 DEF Overtaken
  <2> QED BY <1>4, <2>1, <2>2 DEF Overtaken, Decides
<1>5. OneOvertaken' BY <1>1, <1>4 DEF OneOvertaken
<1>6. \A n : SpentWithin(n) => SpentWithin(n)' BY DEF SpentWithin
<1>7. Paid'
  <2>1. CASE SpentWithin(budget.raises) BY <1>6, <2>1 DEF Paid, SpentWithin
  <2>2. CASE /\ SpentWithin(budget.raises + 1)
             /\ \A u \in Workers : ~Overtaken(u)
             /\ db.status \in Underway
      BY <1>4, <1>6, <2>2 DEF Paid, SpentWithin
  <2> QED BY <1>1, <2>1, <2>2 DEF Paid
<1>8. FailedWell'
  <2>1. PICK c \in Cycles : c = MaxRepairs BY MaxRepairsAssumption, CyclesType DEF Cycles
  <2>2. Past(ReviewJob(c)) => Past(ReviewJob(c))' BY JobsAre
  <2> QED BY <1>1, <2>1, <2>2 DEF FailedWell, Rejected, AllPassed
<1>9. ASSUME NEW j \in Jobs PROVE Fits(j)'
  <2> SUFFICES ASSUME Known(j)' PROVE (Supplied(db, j) /\ StageOf(j))' BY DEF Fits
  <2>1. CASE Known(j)
    <3>1. Supplied(db, j) /\ StageOf(j) BY <1>1, <2>1 DEF Fits
    <3>2. Past(PlanJob) => Past(PlanJob)' BY JobsAre
    <3> QED BY <1>2, <3>1, <3>2 DEF StageOf
  <2>2. CASE j = PlanJob BY <2>2, JobTypes DEF Supplied, StageOf
  <2> QED BY <2>1, <2>2
<1>10. api' \in {"new", "committed", "planning"} => \A j \in Jobs : ~Known(j)' BY DEF CauseInv
<1>11. ASSUME NEW u \in Workers PROVE HasRead(u)' /\ HasStored(u)'
  <2>1. pc'[u] \in {"advance", "approve", "reject"} => Executes(u)'
      BY DEF Executes, TypeInv, Loop, LoopInv, LoopOK
  <2>2. CASE pc'[u] = "start" /\ view'[u] = None BY <2>2 DEF HasRead, HasStored
  <2>3. CASE ~Executes(u)' BY <2>1, <2>3 DEF HasRead, HasStored
  <2>4. CASE Executes(u) /\ job'[u] = job[u] /\ pc'[u] = pc[u] /\ view'[u] \in {view[u], db}
    <3>1. job[u] \in Jobs /\ Known(job[u]) BY <1>1, <2>4, Acting DEF Calm
    <3>2. PICK v : v = view'[u] OBVIOUS
    <3>3. v # None => Older(v) /\ Supplied(v, job[u])
      <4>1. CASE v = db BY <1>1, <3>1, <4>1 DEF Fits, Older
      <4>2. CASE v = view[u] BY <1>1, <2>4, <4>2 DEF HasRead
      <4> QED BY <2>4, <3>2, <4>1, <4>2
    <3>4. Older(v)' <=> Older(v) BY DEF Older
    <3>5. HasRead(u)' BY <2>4, <3>2, <3>3, <3>4 DEF HasRead
    <3>6. HasStored(u)' BY <1>1, <1>2, <2>4 DEF HasStored, Rejected, AllPassed
    <3> QED BY <3>5, <3>6
  <2> QED BY <1>3, <2>2, <2>3, <2>4
<1> QED BY <1>5, <1>7, <1>8, <1>9, <1>10, <1>11 DEF CauseInv

LEMMA LoopStepCause ==
  ASSUME TypeInv, EarnedInv, CauseInv, LoopStep
  PROVE  CauseInv'
<1> SUFFICES ASSUME Frugal' PROVE CauseInv' BY DEF CauseInv
<1>1. Calm /\ LoopFrame /\ CalmLoop /\ budget' = budget BY LoopStepFrame, CalmSteps DEF Frugal
<1>2. TypeInv' /\ Frugal BY <1>1, LoopStepTypes DEF Frugal
<1>3. CASE CreateRun \/ Start
  <2>1. /\ api \in {"new", "committed"} /\ UNCHANGED <<jobs, workerVars>>
        /\ \E target \in {"CREATED", "PLANNING"} : db' = [db EXCEPT !.status = target]
      BY <1>3 DEF CreateRun, Start
  <2>2. db'.status # "FAILED" BY <2>1 DEF TypeInv, Database
  <2>3. (\A j \in Jobs : ~Known(j))' BY <1>2, <2>1 DEF CauseInv, Known, workerVars
  <2> QED BY <1>2, <2>2, <2>3, NothingKnownNext
<1>4. CASE ~(CreateRun \/ Start)
  <2>1. db' = db /\ api' \in {api, "done", "dead"}
      BY <1>1, <1>2, <1>4, NobodyReports DEF CalmLoop, Settle, Fail, Restart, Claim, ClaimFor,
         Begin, BeginAt, EnqueueNext, EnqueueOne, EnqueuePlan
  <2>2. \A j \in Jobs : jobs'[j].status # "done" => jobs[j].status # "done" /\ Spent(j)' = Spent(j)
      BY <1>1, LoopSpends DEF EarnedInv
  <2> QED BY <1>1, <1>2, <2>1, <2>2, LoopCause
<1> QED BY <1>3, <1>4

LEMMA CauseIsInvariant == Spec => [](TypeInv /\ CauseInv)
<1>1. Init => CauseInv
  <2> SUFFICES ASSUME Init PROVE CauseInv OBVIOUS
  <2>1. \A j \in Jobs : ~Known(j) BY DEF Init, LoopInit, NoJob, Known
  <2>2. db.status # "FAILED" BY DEF Init
  <2> QED BY <2>1, <2>2, InitTypes, NothingKnown
<1>2. TypeInv /\ WholeInv /\ EarnedInv /\ OnceInv /\ OnceInv' /\ CauseInv /\ [Next]_vars => CauseInv'
  <2> SUFFICES ASSUME TypeInv, WholeInv, EarnedInv, OnceInv, OnceInv', CauseInv, [Next]_vars
               PROVE  CauseInv'
      OBVIOUS
  <2>1. CASE UNCHANGED vars
    <3> SUFFICES ASSUME Frugal' PROVE CauseInv' BY DEF CauseInv
    <3>1. UNCHANGED <<db, jobs, api, pc, job, view, todo, budget>> BY <2>1 DEF vars
    <3>2. TypeInv' /\ Frugal BY <3>1, TypesAreKept DEF Frugal, Calm
    <3>3. OwnersWork' BY <3>1, <3>2 DEF Frugal, EarnedInv, OwnersWork
    <3>4. \A j \in Jobs : (Past(j)' <=> Past(j)) /\ (Known(j)' <=> Known(j))
        BY <3>1 DEF Past, Executes, Known
    <3>5. LoopFrame BY <3>1, <3>3, <3>4 DEF LoopFrame
    <3>6. \A j : Spent(j)' = Spent(j) BY <3>1 DEF Spent
    <3> QED BY <3>1, <3>2, <3>5, <3>6, LoopCause
  <2> QED BY <2>1, Steps, LoopStepCause, HandlerCause
<1> QED BY <1>1, <1>2, InitTypes, WholeIsInvariant, EarnedIsInvariant, OnceIsInvariant, PTL DEF Spec

\* However many workers race for its jobs and however late what they read: a
\* run whose workers are neither killed nor lose a lease fails only if its last
\* review rejected it, or if providers failed as often as a job is attempted,
\* but for one time.
THEOREM FailsForCause == Spec => []FailsOnlyForCause
<1>1. TypeInv /\ CauseInv => FailsOnlyForCause
  <2> SUFFICES ASSUME TypeInv, CauseInv, db.status = "FAILED", Calm, ~(budget.raises >= MaxAttempts - 1)
               PROVE  db.repairs = MaxRepairs /\ Rejected(db, MaxRepairs)
      BY DEF FailsOnlyForCause, Calm, Rejected
  <2>1. budget.raises \in Nat /\ MaxAttempts \in Nat
      BY LoopAssumption DEF TypeInv, Loop, LoopInv, LoopTyped
  <2>2. Frugal BY <2>1 DEF Frugal
  <2> QED BY <2>2 DEF CauseInv, FailedWell
<1> QED BY <1>1, CauseIsInvariant, PTL

-----------------------------------------------------------------------------
(* A run is left only by an implementer that overtakes it. Where nobody is    *)
(* killed or slow and no job fails, every status but the last has a job that  *)
(* is still to be executed and will not return before it has moved the run:   *)
(* the plan, an implementer that sees the files of both, the tests or the     *)
(* repair of the current cycle. Only a review may find the run in a status    *)
(* that is not its own, and come to nothing.                                  *)

\* The implementer will return, or may, without setting off the tests.
GivesUp(j) ==
  \/ Past(j)
  \/ \E w \in Workers : job[w] = j /\ pc[w] = "advance" /\ view[w] # None /\ ~AllRoles(view[w])

\* A handler finds the run in its stage, and its files where it has stored them.
ReadsStage(w) == (Executes(w) /\ view[w] # None) =>
  /\ job[w].type = "PLAN" => view[w].status = "PLANNING"
  /\ job[w].type = "IMPLEMENT" => (db.status = "IMPLEMENTING" => view[w].status = "IMPLEMENTING")
  /\ job[w].type = "TEST" => view[w].status = "TESTING"
  /\ job[w].type = "REPAIR" => (db.status = "REPAIRING" => view[w].status = "REPAIRING")
HasWritten(w) == (pc[w] = "advance" /\ job[w].type = "IMPLEMENT") => Written(db, job[w].role)

PlanLeads ==
  /\ api = "planning" => db.status = "PLANNING"
  /\ api = "done" => Known(PlanJob)
  /\ Due(PlanJob) => db.status = "PLANNING"
  /\ Past(PlanJob) <=> db.status \notin Early
ImplementersLead == db.status = "IMPLEMENTING" =>
  /\ \A r \in IMPLEMENTER_ROLES : /\ Known(ImplementJob(r))
                                  /\ Past(ImplementJob(r)) => Written(db, r)
  /\ \E r \in IMPLEMENTER_ROLES : ~GivesUp(ImplementJob(r))
CycleLeads == \A c \in Cycles : c = db.repairs =>
  /\ db.status = "TESTING" => Due(TestJob(c)) \/ Known(ReviewJob(c))
  /\ db.status \in {"REVIEWING", "REPAIRING"} \union Over => Known(ReviewJob(c))
  /\ db.status = "REPAIRING" => c < MaxRepairs /\ Due(RepairJob(c))
  /\ Due(TestJob(c)) => db.status = "TESTING"

Led ==
  /\ PlanLeads /\ ImplementersLead /\ CycleLeads
  /\ \A w \in Workers : ReadsStage(w) /\ HasWritten(w)
LeftInv == Frugal => Led

\* What a step of a handler makes known, and what it leaves behind.
LEMMA WorksFrame ==
  ASSUME TypeInv, Calm, NEW w \in Workers, Works(w, Jobs, Database, UnitsOfWork)
  PROVE  /\ Executes(w) /\ UNCHANGED <<jobs, job>> /\ job[w] \in Jobs /\ Known(job[w])
         /\ \A u \in Workers : u # w => /\ pc'[u] = pc[u] /\ view'[u] = view[u]
                                        /\ Executes(u)' <=> Executes(u)
         /\ \A j \in Jobs : /\ Known(j)' <=> Known(j) \/ j \in todo'[w]
                            /\ Past(j) => Past(j)'
                            /\ Past(j)' => \/ Past(j)
                                           \/ j = job[w] /\ pc'[w] \in {"enqueue", "settle"}
                            /\ Past(j) => j # job[w]
<1>1. /\ Executes(w) /\ UNCHANGED <<jobs, job>>
      /\ \A u \in Workers : u # w => pc'[u] = pc[u] /\ view'[u] = view[u] /\ todo'[u] = todo[u]
      /\ \A u \in Workers : u # w => (Executes(u)' <=> Executes(u))
      /\ \A j \in Jobs : Past(j) => Past(j)'
      /\ \A j \in Jobs : Known(j)' => Known(j) \/ j \in todo'[w]
    BY WorksPast DEF Calm
<1>2. job[w] \in Jobs /\ Known(job[w]) BY <1>1, Acting DEF Calm
<1>3. todo[w] = {}
  <2>1. pc[w] # "enqueue" BY DEF Works, UnitsOfWork
  <2> QED BY <2>1 DEF TypeInv, Loop, LoopInv, LoopOK
<1>4. ASSUME NEW j \in Jobs, Known(j) \/ j \in todo'[w] PROVE Known(j)'
  <2>1. CASE jobs[j].status # "absent" BY <1>1, <2>1 DEF Known
  <2>2. CASE j \in todo'[w] BY <2>2 DEF Known
  <2>3. ASSUME NEW u \in Workers, j \in todo[u] PROVE Known(j)'
    <3>1. u # w BY <1>3, <2>3
    <3>2. j \in todo'[u] BY <1>1, <2>3, <3>1
    <3> QED BY <3>2 DEF Known
  <2> QED BY <1>4, <2>1, <2>2, <2>3 DEF Known
<1>5. pc'[w] \notin {"enqueue", "settle"} => Executes(w)'
  <2>1. pc'[w] # "terminal" BY DEF Works, TypeInv, Loop, LoopInv, LoopTyped
  <2> QED BY <1>1, <2>1 DEF Executes
<1>6. ASSUME NEW j \in Jobs, Past(j)' PROVE Past(j) \/ (j = job[w] /\ pc'[w] \in {"enqueue", "settle"})
  <2>1. CASE j = job[w] BY <1>1, <1>5, <1>6, <2>1 DEF Past
  <2>2. CASE j # job[w] BY <1>1, <1>6, <2>2 DEF Past
  <2> QED BY <2>1, <2>2
<1>7. \A j \in Jobs : Past(j) => j # job[w] BY <1>1 DEF Past
<1> QED BY <1>1, <1>2, <1>4, <1>6, <1>7

\* Who executes a job next to the worker that takes a step.
LEMMA OthersLed ==
  ASSUME TypeInv, EarnedInv, CauseInv, Led, Frugal, NEW w \in Workers, Handler(w),
         NEW u \in Workers, u # w
  PROVE  ReadsStage(u)' /\ HasWritten(u)'
<1>1. Works(w, Jobs, Database, UnitsOfWork) /\ RowsGrow BY HandlerTypes, HandlerGrows
<1>2. Calm /\ Executes(w) /\ job[w] \in Jobs /\ \A j \in Jobs : Fits(j) BY <1>1, CauseOf
<1>3. /\ job'[u] = job[u] /\ pc'[u] = pc[u] /\ view'[u] = view[u]
      /\ Executes(u)' <=> Executes(u)
    BY <1>1, <1>2, WorksFrame
<1>4. ReadsStage(u) /\ HasWritten(u) BY DEF Led
<1>5. HasWritten(u)'
  <2> SUFFICES ASSUME pc[u] = "advance", job[u].type = "IMPLEMENT" PROVE Written(db, job[u].role)'
      BY <1>3 DEF HasWritten
  <2>1. job[u] \in Jobs BY DEF TypeInv, Loop, LoopInv, LoopTyped, LoopOK
  <2>2. <<job[u].role, 0>> \in Slots BY <2>1, JobParts, SlotsOf
  <2> QED BY <1>1, <1>3, <1>4, <2>2 DEF HasWritten, Written, RowsGrow, FilesStay
<1>6. ReadsStage(u)'
  <2> SUFFICES ASSUME Executes(u), view[u] # None PROVE ReadsStage(u)' BY <1>3 DEF ReadsStage
  <2>1. db'.status = db.status \/ Moves(w) BY <1>2, HandlerMoves, Decided
  <2>2. CASE db'.status = db.status BY <1>3, <1>4, <2>2 DEF ReadsStage
  <2>3. CASE Moves(w)
    <3>1. job[w].type # "PLAN" BY <1>2, Companions
    <3>2. db'.status \in Underway
      <4>1. "TESTING" \in Underway BY DEF Underway, Early, EngineeringStatus
      <4> QED BY <2>3, <3>1, <4>1 DEF Moves
    <3>3. ASSUME job[u].type = "REPAIR" PROVE db'.status # "REPAIRING"
      <4>1. job[w].type \notin {"TEST", "REVIEW", "REPAIR"} BY <1>2, <3>3, OneStage
      <4>2. db'.status = "TESTING" BY <2>3, <3>1, <4>1 DEF Moves
      <4> QED BY <4>2
    <3> QED BY <1>3, <1>4, <3>2, <3>3 DEF ReadsStage, Underway
  <2> QED BY <2>1, <2>2, <2>3
<1> QED BY <1>5, <1>6

\* An implementer that goes on, or waits for another attempt, gives nothing up.
LEMMA GivesUpStays ==
  ASSUME TypeInv, Calm, NEW w \in Workers, Works(w, Jobs, Database, UnitsOfWork),
         ~(pc'[w] = "advance" /\ view'[w] # None), NEW j \in Jobs, ~GivesUp(j),
         j # job[w] \/ pc'[w] \notin {"enqueue", "settle"}
  PROVE  ~GivesUp(j)'
<1>1. /\ UNCHANGED job /\ (Past(j)' => Past(j))
      /\ \A u \in Workers : u # w => pc'[u] = pc[u] /\ view'[u] = view[u]
    BY WorksFrame
<1>2. ~Past(j)' BY <1>1 DEF GivesUp
<1>3. ASSUME NEW u \in Workers, job'[u] = j, pc'[u] = "advance", view'[u] # None, ~AllRoles(view[u])'
      PROVE  FALSE
  <2>1. u # w BY <1>3
  <2>2. job[u] = j /\ pc[u] = "advance" /\ view'[u] = view[u] BY <1>1, <1>3, <2>1
  <2>3. ~AllRoles(view[u]) BY <1>3, <2>2 DEF AllRoles
  <2> QED BY <1>3, <2>2, <2>3 DEF GivesUp
<1> QED BY <1>2, <1>3 DEF GivesUp

\* A step that leaves the run in its status and cycle.
EndsWell(w) ==
  /\ job[w].type \notin {"PLAN", "TEST"}
  /\ job[w].type = "REPAIR" => db.status # "REPAIRING"
  /\ (job[w].type = "IMPLEMENT" /\ db.status = "IMPLEMENTING") =>
       /\ Written(db, job[w].role)
       /\ \E r \in IMPLEMENTER_ROLES : ImplementJob(r) # job[w] /\ ~GivesUp(ImplementJob(r))

LEMMA StaysLed ==
  ASSUME TypeInv, EarnedInv, CauseInv, Led, Frugal, NEW w \in Workers, Handler(w),
         db'.status = db.status, db'.repairs = db.repairs, todo'[w] = {},
         ~(pc'[w] = "advance" /\ view'[w] # None), ReadsStage(w)', HasWritten(w)',
         pc'[w] \in {"enqueue", "settle"} => EndsWell(w)
  PROVE  Led'
<1>1. /\ Works(w, Jobs, Database, UnitsOfWork) /\ RowsGrow /\ Calm /\ api' = api
    BY HandlerTypes, HandlerGrows, HandlerLeaves DEF Frugal
<1>2. /\ UNCHANGED <<jobs, job>> /\ job[w] \in Jobs
      /\ \A j \in Jobs : /\ Known(j)' <=> Known(j)
                         /\ Past(j) => Past(j)'
                         /\ Past(j)' => Past(j) \/ (j = job[w] /\ EndsWell(w))
    BY <1>1, WorksFrame
<1>3. ASSUME NEW j \in Jobs, j.type \in {"PLAN", "TEST"} PROVE Past(j)' <=> Past(j)
    BY <1>2, <1>3 DEF EndsWell
<1>4. PlanLeads'
  <2>1. PlanJob \in Jobs /\ PlanJob.type = "PLAN" BY JobsAre, JobTypes
  <2>2. (Known(PlanJob)' <=> Known(PlanJob)) /\ (Past(PlanJob)' <=> Past(PlanJob)) BY <1>2, <1>3, <2>1
  <2> QED BY <1>1, <2>2 DEF Led, PlanLeads, Due
<1>5. ImplementersLead'
  <2> SUFFICES ASSUME db.status = "IMPLEMENTING" PROVE ImplementersLead' BY DEF ImplementersLead
  <2>1. ASSUME NEW r \in IMPLEMENTER_ROLES
        PROVE  Known(ImplementJob(r))' /\ (Past(ImplementJob(r))' => Written(db, r)')
    <3>1. ImplementJob(r) \in Jobs /\ <<r, 0>> \in Slots BY JobsAre, SlotsOf
    <3>2. Known(ImplementJob(r)) /\ (Past(ImplementJob(r)) => Written(db, r)) BY DEF Led, ImplementersLead
    <3>3. Written(db, r) => Written(db, r)' BY <1>1, <3>1 DEF Written, RowsGrow, FilesStay
    <3>4. ASSUME ImplementJob(r) = job[w], EndsWell(w) PROVE Written(db, r)
      <4>1. job[w].type = "IMPLEMENT" /\ job[w].role = r BY <3>4, JobTypes
      <4> QED BY <3>4, <4>1 DEF EndsWell
    <3> QED BY <1>2, <3>1, <3>2, <3>3, <3>4
  <2>2. \E r \in IMPLEMENTER_ROLES : ~GivesUp(ImplementJob(r))'
    <3>1. CASE pc'[w] \notin {"enqueue", "settle"} \/ job[w].type # "IMPLEMENT"
      <4>1. PICK r \in IMPLEMENTER_ROLES : ~GivesUp(ImplementJob(r)) BY DEF Led, ImplementersLead
      <4>2. ImplementJob(r) \in Jobs /\ ImplementJob(r).type = "IMPLEMENT" BY JobsAre, JobTypes
      <4> QED BY <1>1, <3>1, <4>1, <4>2, GivesUpStays
    <3>2. CASE pc'[w] \in {"enqueue", "settle"} /\ job[w].type = "IMPLEMENT"
      <4>1. PICK r \in IMPLEMENTER_ROLES : ImplementJob(r) # job[w] /\ ~GivesUp(ImplementJob(r))
          BY <3>2 DEF EndsWell
      <4> QED BY <1>1, <4>1, JobsAre, GivesUpStays
    <3> QED BY <3>1, <3>2
  <2> QED BY <2>1, <2>2 DEF ImplementersLead
<1>6. CycleLeads'
  <2> SUFFICES ASSUME NEW c \in Cycles, c = db.repairs
               PROVE  /\ db.status = "TESTING" => Due(TestJob(c))' \/ Known(ReviewJob(c))'
                      /\ db.status \in {"REVIEWING", "REPAIRING"} \union Over => Known(ReviewJob(c))'
                      /\ db.status = "REPAIRING" => c < MaxRepairs /\ Due(RepairJob(c))'
                      /\ Due(TestJob(c))' => db.status = "TESTING"
      BY DEF CycleLeads
  <2>1. /\ db.status = "TESTING" => Due(TestJob(c)) \/ Known(ReviewJob(c))
        /\ db.status \in {"REVIEWING", "REPAIRING"} \union Over => Known(ReviewJob(c))
        /\ db.status = "REPAIRING" => c < MaxRepairs /\ Due(RepairJob(c))
        /\ Due(TestJob(c)) => db.status = "TESTING"
      BY DEF Led, CycleLeads
  <2>2. TestJob(c) \in Jobs /\ ReviewJob(c) \in Jobs /\ TestJob(c).type = "TEST"
      BY JobsAre, JobTypes, CyclesType
  <2>3. (Due(TestJob(c))' <=> Due(TestJob(c))) /\ (Known(ReviewJob(c))' <=> Known(ReviewJob(c)))
      BY <1>2, <1>3, <2>2 DEF Due
  <2>4. ASSUME db.status = "REPAIRING" PROVE Due(RepairJob(c))'
    <3>1. c < MaxRepairs /\ Due(RepairJob(c)) BY <2>1, <2>4
    <3>2. c \in 0..MaxRepairs - 1 BY <3>1, CyclesType, MaxRepairsAssumption DEF Cycles
    <3>3. RepairJob(c) \in Jobs /\ RepairJob(c).type = "REPAIR" BY <3>2, JobsAre, JobTypes
    <3> QED BY <1>2, <2>4, <3>1, <3>3 DEF Due, EndsWell
  <2> QED BY <2>1, <2>3, <2>4
<1>7. \A u \in Workers : ReadsStage(u)' /\ HasWritten(u)' BY OthersLed
<1> QED BY <1>4, <1>5, <1>6, <1>7 DEF Led

\* A handler returns at once only if the run it has read is over; an implementer
\* that has written its files goes on.
LEMMA StartReturns ==
  ASSUME TypeInv, WholeInv, NEW w \in Workers,
         \/ StartPlan(w) \/ StartImplement(w) \/ StartTest(w) \/ StartReview(w) \/ StartRepair(w)
  PROVE  /\ pc'[w] = "settle" => view[w].status \in Over
         /\ (pc'[w] = "advance" /\ job[w].type = "IMPLEMENT") => Written(db, job[w].role)
<1>1. view[w] # None /\ job[w] \in Jobs BY StartLeaves
<1>2. \A v \in Reads(w) : v.status = view[w].status /\ Behind(v) BY <1>1, ReadsType, ReadsAreBehind
<1>3. ASSUME NEW where, Return(w, where, {}) PROVE pc'[w] = where
    BY <1>3 DEF Return, Goto, TypeInv, Loop, LoopInv, LoopTyped
<1>4. ASSUME NEW where, NEW v, Hold(w, where, v) PROVE pc'[w] = where
    BY <1>4 DEF Hold, TypeInv, Loop, LoopInv, LoopTyped
<1>5. CASE StartPlan(w) BY <1>2, <1>3, <1>4, <1>5 DEF StartPlan
<1>6. CASE StartImplement(w)
  <2>1. <<job[w].role, 0>> \in Slots BY <1>1, <1>6, JobParts, SlotsOf DEF StartImplement
  <2>2. \A v \in Reads(w) : Written(v, job[w].role) => Written(db, job[w].role)
      BY <1>2, <2>1 DEF Written, Behind
  <2>3. PICK v \in Reads(w) :
          \/ v.status \in Over /\ Return(w, "settle", {})
          \/ Written(v, job[w].role) /\ Return(w, "advance", {})
          \/ Return(w, "raised", {})
          \/ Hold(w, "calling", v)
      BY <1>6 DEF StartImplement, Raise
  <2> QED BY <1>2, <1>3, <1>4, <2>2, <2>3
<1>7. CASE StartTest(w) BY <1>2, <1>3, <1>4, <1>7 DEF StartTest, Raise
<1>8. CASE StartReview(w) BY <1>2, <1>3, <1>4, <1>8 DEF StartReview, Raise, Verdict
<1>9. CASE StartRepair(w) BY <1>2, <1>3, <1>4, <1>9 DEF StartRepair, Raise
<1> QED BY <1>5, <1>6, <1>7, <1>8, <1>9

\* Until the orchestrator is called nothing moves.
LEMMA QuietLed ==
  ASSUME TypeInv, WholeInv, EarnedInv, OnceInv, OnceInv', CauseInv, Led, Frugal,
         NEW w \in Workers, Handler(w), ~Orchestrates(w)
  PROVE  Led'
<1>1. Works(w, Jobs, Database, UnitsOfWork) /\ Calm BY HandlerTypes DEF Frugal
<1>2. db'.status = db.status /\ db'.repairs = db.repairs /\ todo'[w] = {} BY HandlerMoves
<1>3. Executes(w) /\ job' = job /\ ReadsStage(w) /\ HasWritten(w) BY <1>1, WorksFrame DEF Led
<1>4. ASSUME view'[w] = None PROVE ReadsStage(w)' BY <1>4 DEF ReadsStage
<1>5. CASE StartPlan(w) \/ StartImplement(w) \/ StartTest(w) \/ StartReview(w) \/ StartRepair(w)
  <2>1. UNCHANGED db /\ view[w] # None BY <1>5, Starting, StartLeaves
  <2>2. pc'[w] # "enqueue" BY <1>5, StartCause
  <2>3. \/ pc'[w] \notin {"calling", "store"} /\ view'[w] = None
        \/ pc'[w] \in {"calling", "store"} /\ view'[w] \in Reads(w)
      BY <1>5, StartLeaves
  <2>4. /\ pc'[w] = "settle" => view[w].status \in Over
        /\ (pc'[w] = "advance" /\ job[w].type = "IMPLEMENT") => Written(db, job[w].role)
      BY <1>5, StartReturns
  <2>5. HasWritten(w)' BY <1>3, <2>1, <2>4 DEF HasWritten, Written
  <2>6. ReadsStage(w)'
    <3>1. \A v \in Reads(w) : v.status = view[w].status BY <2>1, ReadsType
    <3>2. ASSUME NEW v \in Reads(w), view'[w] = v PROVE ReadsStage(w)'
        BY <1>3, <2>1, <3>1, <3>2 DEF ReadsStage
    <3> QED BY <1>4, <2>3, <3>2
  <2>7. pc'[w] \in {"enqueue", "settle"} => EndsWell(w)
      BY <1>3, <2>1, <2>2, <2>4 DEF ReadsStage, EndsWell, Over
  <2> QED BY <1>2, <2>3, <2>5, <2>6, <2>7, StaysLed
<1>6. CASE ProviderAnswers(w)
  <2>1. /\ UNCHANGED db /\ pc'[w] = "store" /\ view'[w] = view[w]
      BY <1>6, Starting DEF ProviderAnswers, Hold, TypeInv, Loop, LoopInv, LoopTyped
  <2>2. ReadsStage(w)' /\ HasWritten(w)' BY <1>3, <2>1 DEF ReadsStage, HasWritten
  <2> QED BY <1>2, <2>1, <2>2, StaysLed
<1>7. CASE ProviderFails(w)
  <2>1. pc'[w] = "raised" /\ view'[w] = None BY <1>7, ProviderFailsEffect
  <2>2. HasWritten(w)' BY <2>1 DEF HasWritten
  <2> QED BY <1>2, <1>4, <2>1, <2>2, StaysLed
<1>8. CASE StorePlan(w) \/ StoreFiles(w) \/ StoreChecks(w) \/ StoreReview(w)
  <2>1. pc'[w] \in {"advance", "approve", "reject"} /\ view'[w] = None
    <3>1. CASE StorePlan(w) BY <3>1, StorePlanEffect
    <3>2. CASE StoreFiles(w) BY <3>2, StoreFilesEffect
    <3>3. CASE StoreChecks(w) BY <3>3, StoreChecksEffect
    <3>4. CASE StoreReview(w) BY <3>4, StoreReviewEffect DEF Verdict
    <3> QED BY <1>8, <3>1, <3>2, <3>3, <3>4
  <2>2. HasWritten(w)'
    <3> SUFFICES ASSUME pc'[w] = "advance", job[w].type = "IMPLEMENT" PROVE Written(db, job[w].role)'
        BY <1>3 DEF HasWritten
    <3>1. StoreFiles(w)
      <4>1. CASE StorePlan(w) BY <4>1 DEF StorePlan
      <4>2. CASE StoreChecks(w) BY <4>2 DEF StoreChecks
      <4>3. CASE StoreReview(w) BY <4>3 DEF StoreReview
      <4> QED BY <1>8, <4>1, <4>2, <4>3
    <3>2. db'.files[<<job[w].role, 0>>] # <<>> BY <3>1, StoreFilesEffect DEF SlotOf
    <3> QED BY <1>3, <3>2 DEF Written
  <2> QED BY <1>2, <1>4, <2>1, <2>2, StaysLed
<1> QED BY <1>5, <1>6, <1>7, <1>8 DEF Handler, Orchestrates

\* The orchestrator closes its unit of work: what remains is what it makes of
\* the run.
LEMMA OrchestratorStays ==
  ASSUME TypeInv, EarnedInv, CauseInv, Led, Frugal, NEW w \in Workers, Orchestrates(w),
         db'.status = db.status, db'.repairs = db.repairs, todo'[w] = {},
         pc'[w] \in {"enqueue", "settle"} => EndsWell(w)
  PROVE  Led'
<1>1. Handler(w) BY DEF Handler, Orchestrates
<1>2. view'[w] = None /\ pc'[w] \in {"settle", "raised", "enqueue"} BY Decided DEF Frugal
<1>3. ReadsStage(w)' /\ HasWritten(w)' BY <1>2 DEF ReadsStage, HasWritten
<1> QED BY <1>1, <1>2, <1>3, StaysLed

LEMMA OrchestratorMoves ==
  ASSUME TypeInv, EarnedInv, CauseInv, Led, Frugal, NEW w \in Workers, Orchestrates(w),
         job[w].type # "PLAN", db'.status \in Underway, CycleLeads'
  PROVE  Led'
<1>1. Handler(w) BY DEF Handler, Orchestrates
<1>2. /\ Works(w, Jobs, Database, UnitsOfWork) /\ Calm /\ api' = api
      /\ view'[w] = None /\ pc'[w] \in {"settle", "raised", "enqueue"}
    BY <1>1, Decided, HandlerLeaves DEF Frugal
<1>3. ReadsStage(w)' /\ HasWritten(w)' BY <1>2 DEF ReadsStage, HasWritten
<1>4. \A u \in Workers : ReadsStage(u)' /\ HasWritten(u)' BY <1>1, <1>3, OthersLed
<1>5. ImplementersLead' BY DEF ImplementersLead, Underway
<1>6. PlanLeads'
  <2>1. job[w] \in Jobs /\ Known(job[w]) /\ StageOf(job[w]) BY <1>2, CauseOf
  <2>2. Past(PlanJob) BY <2>1, JobParts DEF StageOf
  <2>3. PlanJob \in Jobs BY JobsAre
  <2>4. Past(PlanJob)' /\ (Known(PlanJob) => Known(PlanJob)') BY <1>2, <2>2, <2>3, WorksFrame
  <2>5. api # "planning" BY <2>1 DEF CauseInv
  <2> QED BY <1>2, <2>4, <2>5 DEF Led, PlanLeads, Due, Underway
<1> QED BY <1>4, <1>5, <1>6 DEF Led

\* An update of the status that the run allows, and allowed when it was read.
LEMMA UpdateIsMade ==
  ASSUME TypeInv, NEW w \in Workers, NEW target \in EngineeringStatus, NEW keys,
         CommitStatus(w, target, keys), target \in Allowed[view[w].status], pc'[w] # "raised"
  PROVE  /\ db'.status = target /\ db'.repairs = db.repairs
         /\ todo'[w] = keys /\ pc'[w] = ThenEnqueue(keys)
<1>1. ~Raise(w) BY DEF Raise, Return, Goto, TypeInv, Loop, LoopInv, LoopTyped
<1>2. Commit(w, [db EXCEPT !.status = target], ThenEnqueue(keys), keys) BY <1>1 DEF CommitStatus
<1>3. db \in Database /\ db' = [db EXCEPT !.status = target] BY <1>2 DEF Commit, TypeInv
<1>4. db'.status = target /\ db'.repairs = db.repairs BY <1>3, StatusCommit
<1>5. todo'[w] = keys /\ pc'[w] = ThenEnqueue(keys)
    BY <1>2 DEF Commit, Goto, TypeInv, Loop, LoopInv, LoopTyped
<1> QED BY <1>4, <1>5

LEMMA RaiseLeaves ==
  ASSUME TypeInv, NEW w \in Workers, NEW target \in EngineeringStatus, NEW keys,
         CommitStatus(w, target, keys), pc'[w] = "raised"
  PROVE  db' = db /\ todo'[w] = {}
<1>1. ~Commit(w, [db EXCEPT !.status = target], ThenEnqueue(keys), keys)
    BY DEF Commit, ThenEnqueue, Goto, TypeInv, Loop, LoopInv, LoopTyped
<1>2. Raise(w) BY <1>1 DEF CommitStatus
<1> QED BY <1>2 DEF Raise, Return, Goto, TypeInv, Loop, LoopInv, LoopTyped

\* The plan leaves the run to the implementers: none of them was known before.
LEMMA PlanCompletedLed ==
  ASSUME TypeInv, EarnedInv, CauseInv, Led, Frugal, NEW w \in Workers, PlanCompleted(w)
  PROVE  Led'
<1> DEFINE keys == {ImplementJob(r) : r \in IMPLEMENTER_ROLES}
<1>1. Handler(w) /\ Orchestrates(w) BY DEF Handler, Orchestrates
<1>2. /\ Works(w, Jobs, Database, UnitsOfWork) /\ Calm /\ api' = api /\ Decides(w)
      /\ view'[w] = None /\ pc'[w] \in {"settle", "raised", "enqueue"}
      /\ pc'[w] = "raised" => Overtaken(w)
    BY <1>1, Decided, HandlerLeaves DEF Frugal
<1>3. /\ Executes(w) /\ job[w] \in Jobs /\ Known(job[w]) /\ OneOvertaken
      /\ \A j \in Jobs : Fits(j)
    BY <1>2, CauseOf
<1>4. job[w].type = "PLAN" /\ job[w] = PlanJob BY <1>3, JobParts DEF PlanCompleted
<1>5. view[w].status = "PLANNING" BY <1>2, <1>3, <1>4 DEF Led, ReadsStage, Decides
<1>6. pc'[w] # "raised" /\ db.status = "PLANNING"
    BY <1>2, <1>3, <1>4, <1>5 DEF OneOvertaken, Overtaken
<1>7. db'.status = "IMPLEMENTING" /\ db'.repairs = db.repairs /\ todo'[w] = keys /\ pc'[w] = "enqueue"
  <2>1. CommitStatus(w, "IMPLEMENTING", keys) BY <1>5 DEF PlanCompleted
  <2>2. "IMPLEMENTING" \in EngineeringStatus /\ "IMPLEMENTING" \in Allowed[view[w].status]
      BY <1>5 DEF Allowed, EngineeringStatus
  <2>3. keys # {} BY DEF IMPLEMENTER_ROLES
  <2> HIDE DEF keys
  <2> QED BY <1>6, <2>1, <2>2, <2>3, UpdateIsMade DEF ThenEnqueue
<1>8. /\ \A j \in Jobs : /\ Known(j)' <=> Known(j) \/ j \in todo'[w]
                         /\ Past(j)' => Past(j) \/ j = job[w]
      /\ job' = job
    BY <1>2, WorksFrame
<1>9. PlanLeads'
  <2>1. Past(PlanJob)' BY <1>2, <1>4, <1>7, JobsAre, WorksPast DEF Calm
  <2>2. Known(PlanJob)' BY <2>1 DEF Past, Known
  <2>3. api # "planning" BY <1>3 DEF CauseInv
  <2> QED BY <1>2, <1>7, <2>1, <2>2, <2>3 DEF PlanLeads, Due, Early
<1>10. ASSUME NEW r \in IMPLEMENTER_ROLES
       PROVE  Known(ImplementJob(r))' /\ ~Past(ImplementJob(r))' /\ ~GivesUp(ImplementJob(r))'
  <2>1. ImplementJob(r) \in Jobs /\ ImplementJob(r).type = "IMPLEMENT" BY JobsAre, JobTypes
  <2>2. ~Known(ImplementJob(r)) BY <1>3, <1>6, <2>1 DEF Fits, StageOf, Early
  <2>3. \A u \in Workers : job[u] # ImplementJob(r)
      BY <2>1, <2>2, NoneAssumption DEF Known, TypeInv, Loop, LoopInv, HoldsRow
  <2>4. ~Past(ImplementJob(r))' BY <1>4, <1>8, <2>1, <2>2 DEF Past, Known
  <2>5. Known(ImplementJob(r))' BY <1>7, <1>8, <2>1
  <2> QED BY <1>8, <2>3, <2>4, <2>5 DEF GivesUp
<1>11. ImplementersLead'
  <2>1. "primary" \in IMPLEMENTER_ROLES BY DEF IMPLEMENTER_ROLES
  <2> QED BY <1>10, <2>1 DEF ImplementersLead
<1>12. CycleLeads'
  <2> SUFFICES ASSUME NEW c \in Cycles, c = db.repairs PROVE ~Due(TestJob(c))'
      BY <1>7 DEF CycleLeads, Over
  <2>1. TestJob(c) \in Jobs /\ TestJob(c).type = "TEST" BY JobsAre, JobTypes, CyclesType
  <2>2. ~Known(TestJob(c)) BY <1>3, <1>6, <2>1 DEF Fits, StageOf, Underway, Early
  <2>3. TestJob(c) \notin todo'[w] BY <1>7, <2>1, JobTypes
  <2> QED BY <1>8, <2>1, <2>2, <2>3 DEF Due
<1>13. ReadsStage(w)' /\ HasWritten(w)' BY <1>2 DEF ReadsStage, HasWritten
<1>14. \A u \in Workers : ReadsStage(u)' /\ HasWritten(u)' BY <1>1, <1>13, OthersLed
<1> QED BY <1>9, <1>11, <1>12, <1>14 DEF Led

\* What the orchestrator has to show of the worker and its job.
LEMMA OrchestratorActs ==
  ASSUME TypeInv, EarnedInv, CauseInv, Led, Frugal, NEW w \in Workers, Orchestrates(w)
  PROVE  /\ Calm /\ Works(w, Jobs, Database, UnitsOfWork) /\ Decides(w) /\ Executes(w) /\ view[w] # None
         /\ job[w] \in Jobs /\ Due(job[w]) /\ StageOf(job[w]) /\ ReadsStage(w) /\ HasWritten(w)
         /\ pc'[w] \in {"settle", "raised", "enqueue"}
         /\ pc'[w] = "raised" => Overtaken(w)
         /\ \A j \in Jobs : /\ Known(j)' <=> Known(j) \/ j \in todo'[w]
                            /\ Past(j) => Past(j)'
                            /\ (j # job[w] /\ ~Past(j)) => ~Past(j)'
<1>1. /\ Calm /\ Works(w, Jobs, Database, UnitsOfWork) /\ Decides(w)
      /\ pc'[w] \in {"settle", "raised", "enqueue"}
      /\ pc'[w] = "raised" => Overtaken(w)
    BY Decided DEF Frugal
<1>2. Executes(w) /\ job[w] \in Jobs /\ Known(job[w]) /\ StageOf(job[w]) BY <1>1, CauseOf
<1>3. \A j \in Jobs : /\ Known(j)' <=> Known(j) \/ j \in todo'[w]
                      /\ Past(j) => Past(j)'
                      /\ (j # job[w] /\ ~Past(j)) => ~Past(j)'
    BY <1>1, WorksFrame
<1>4. ~Past(job[w]) BY <1>2 DEF Past
<1> QED BY <1>1, <1>2, <1>3, <1>4 DEF Led, Due, Decides

\* Where the run is with the implementers no later job is known.
LEMMA NothingLater ==
  ASSUME TypeInv, EarnedInv, CauseInv, Frugal, db.status = "IMPLEMENTING"
  PROVE  db.repairs = 0 /\ ~Known(TestJob(0))
<1>1. /\ CyclesInTurn /\ \A j \in Jobs : Fits(j) BY DEF Frugal, EarnedInv, CauseInv
<1>2. ASSUME NEW j \in Jobs, j.type \in {"TEST", "REPAIR"} PROVE ~Known(j)
    BY <1>1, <1>2 DEF Fits, StageOf, Underway
<1>3. TestJob(0) \in Jobs /\ TestJob(0).type = "TEST" BY JobsAre, JobTypes, CyclesType
<1>4. db.repairs \in Nat /\ MaxRepairs \in Nat /\ db.repairs <= MaxRepairs
  <2>1. db.repairs \in Nat BY CyclesType DEF TypeInv, Database
  <2>2. MaxRepairs \in Nat BY MaxRepairsAssumption
  <2> QED BY <1>1, <2>1, <2>2 DEF CyclesInTurn
<1>5. ASSUME db.repairs > 0 PROVE FALSE
  <2>1. 0 \in 0..MaxRepairs - 1 BY <1>4, <1>5
  <2>2. Past(RepairJob(0)) BY <1>1, <1>4, <1>5, <2>1 DEF CyclesInTurn
  <2>3. RepairJob(0) \in Jobs /\ RepairJob(0).type = "REPAIR" BY <2>1, JobsAre, JobTypes
  <2> QED BY <1>2, <2>2, <2>3 DEF Past, Known
<1> QED BY <1>2, <1>3, <1>4, <1>5

LEMMA MaybeScheduleTestsLed ==
  ASSUME TypeInv, WholeInv, EarnedInv, CauseInv, Led, Frugal, NEW w \in Workers, MaybeScheduleTests(w)
  PROVE  Led'
<1>1. Orchestrates(w) BY DEF Orchestrates
<1>2. /\ job[w] \in Jobs /\ view[w] # None /\ ReadsStage(w) /\ HasWritten(w) /\ StageOf(job[w])
      /\ Executes(w) /\ pc'[w] \in {"settle", "raised", "enqueue"}
      /\ \A j \in Jobs : /\ Known(j)' <=> Known(j) \/ j \in todo'[w]
                         /\ (j # job[w] /\ ~Past(j)) => ~Past(j)'
    BY <1>1, OrchestratorActs
<1>3. job[w].type = "IMPLEMENT" /\ pc[w] = "advance" BY DEF MaybeScheduleTests, At
<1>4. PICK v \in Reads(w) :
        \/ ~(v.status = "IMPLEMENTING" /\ AllRoles(v)) /\ Return(w, "settle", {})
        \/ v.status = "IMPLEMENTING" /\ CommitStatus(w, "TESTING", {TestJob(0)})
    BY DEF MaybeScheduleTests
<1>5. v.status = view[w].status /\ (v = view[w] \/ v.files = db.files) BY <1>2, ReadsType
<1>6. CASE ~(v.status = "IMPLEMENTING" /\ AllRoles(v)) /\ Return(w, "settle", {})
  <2>1. UNCHANGED db /\ todo'[w] = {} BY <1>6, SoloReturns
  <2>2. ASSUME db.status = "IMPLEMENTING"
        PROVE  /\ Written(db, job[w].role)
               /\ \E r \in IMPLEMENTER_ROLES : ImplementJob(r) # job[w] /\ ~GivesUp(ImplementJob(r))
    <3>1. Written(db, job[w].role) BY <1>2, <1>3 DEF HasWritten
    <3>2. PICK r \in IMPLEMENTER_ROLES : ~GivesUp(ImplementJob(r))
        BY <2>2 DEF Led, ImplementersLead
    <3>3. ASSUME ImplementJob(r) = job[w] PROVE FALSE
      <4>1. AllRoles(view[w]) BY <1>2, <1>3, <3>2, <3>3 DEF GivesUp
      <4>2. view[w] \in Reads(w) BY DEF Reads
      <4>3. AllRoles(db) BY <1>2, <4>1, <4>2, ReadsAreBehind
      <4>4. AllRoles(v) BY <1>5, <4>1, <4>3 DEF AllRoles
      <4>5. v.status = "IMPLEMENTING" BY <1>2, <1>3, <1>5, <2>2 DEF ReadsStage
      <4> QED BY <1>6, <4>4, <4>5
    <3> QED BY <3>1, <3>2, <3>3
  <2>3. EndsWell(w) BY <1>3, <2>2 DEF EndsWell
  <2> QED BY <1>1, <2>1, <2>3, OrchestratorStays
<1>7. CASE v.status = "IMPLEMENTING" /\ CommitStatus(w, "TESTING", {TestJob(0)})
  <2>1. "TESTING" \in EngineeringStatus /\ "TESTING" \in Allowed[view[w].status]
      BY <1>5, <1>7 DEF Allowed, EngineeringStatus
  <2>2. CASE pc'[w] = "raised"
    <3>1. db' = db /\ todo'[w] = {} BY <1>7, <2>1, <2>2, RaiseLeaves
    <3> QED BY <1>1, <2>2, <3>1, OrchestratorStays
  <2>3. CASE pc'[w] # "raised"
    <3>1. db'.status = "TESTING" /\ db'.repairs = db.repairs /\ todo'[w] = {TestJob(0)}
        BY <1>7, <2>1, <2>3, UpdateIsMade
    <3>2. "TESTING" \in Underway BY DEF Underway, Early, EngineeringStatus
    <3>3. CycleLeads'
      <4> SUFFICES ASSUME NEW c \in Cycles, c = db.repairs PROVE Due(TestJob(c))' \/ Known(ReviewJob(c))'
          BY <3>1 DEF CycleLeads, Over
      <4>1. /\ TestJob(c) \in Jobs /\ ReviewJob(c) \in Jobs /\ TestJob(c).type = "TEST"
          BY JobsAre, JobTypes, CyclesType
      <4>2. CASE db.status = "IMPLEMENTING"
        <5>1. c = 0 /\ ~Known(TestJob(c)) BY <4>2, NothingLater
        <5>2. ~Past(TestJob(c)) /\ TestJob(c) \in todo'[w] BY <3>1, <5>1 DEF Past, Known
        <5> QED BY <1>2, <1>3, <4>1, <5>2 DEF Due
      <4>3. CASE db.status # "IMPLEMENTING"
        <5>1. db.status \in {"TESTING", "REVIEWING", "REPAIRING"} \union Over
          <6>1. db.status \in EngineeringStatus BY DEF TypeInv, Database
          <6>2. db.status \notin Early BY <1>2, <1>3 DEF StageOf
          <6> QED BY <4>3, <6>1, <6>2 DEF EngineeringStatus, Early, Over
        <5>2. Due(TestJob(c)) \/ Known(ReviewJob(c)) BY <5>1 DEF Led, CycleLeads
        <5> QED BY <1>2, <1>3, <4>1, <5>2 DEF Due
      <4> QED BY <4>2, <4>3
    <3> QED BY <1>1, <1>3, <3>1, <3>2, <3>3, OrchestratorMoves
  <2> QED BY <2>2, <2>3
<1> QED BY <1>4, <1>6, <1>7

\* Nobody is faster than the tests: their run is TESTING until they have moved it.
LEMMA TestsCompletedLed ==
  ASSUME TypeInv, EarnedInv, CauseInv, Led, Frugal, NEW w \in Workers, TestsCompleted(w)
  PROVE  Led'
<1>1. Orchestrates(w) BY DEF Orchestrates
<1>2. /\ Calm /\ Works(w, Jobs, Database, UnitsOfWork) /\ job[w] \in Jobs /\ view[w] # None
      /\ ReadsStage(w) /\ Due(job[w]) /\ Executes(w)
      /\ pc'[w] = "raised" => Overtaken(w)
      /\ \A j \in Jobs : Known(j)' <=> Known(j) \/ j \in todo'[w]
    BY <1>1, OrchestratorActs
<1>3. job[w].type = "TEST" BY DEF TestsCompleted
<1>4. PICK c \in Cycles : c = job[w].cycle /\ view[w].repairs = c /\ db.repairs = c
    BY <1>2, <1>3, ReadsCurrent
<1>5. job[w] = TestJob(c) /\ ReviewJob(c) \in Jobs BY <1>2, <1>3, <1>4, JobParts, JobsAre
<1>6. view[w].status = "TESTING" /\ db.status = "TESTING"
    BY <1>2, <1>3, <1>4, <1>5 DEF ReadsStage, Led, CycleLeads
<1>7. pc'[w] # "raised" BY <1>2, <1>3, <1>6 DEF Overtaken
<1>8. /\ db'.status = "REVIEWING" /\ db'.repairs = db.repairs /\ todo'[w] = {ReviewJob(c)}
      /\ pc'[w] = "enqueue"
  <2>1. CommitStatus(w, "REVIEWING", {ReviewJob(c)}) BY <1>4, <1>6 DEF TestsCompleted
  <2>2. "REVIEWING" \in EngineeringStatus /\ "REVIEWING" \in Allowed[view[w].status]
      BY <1>6 DEF Allowed, EngineeringStatus
  <2>3. ThenEnqueue({ReviewJob(c)}) = "enqueue" BY DEF ThenEnqueue
  <2> QED BY <1>7, <2>1, <2>2, <2>3, UpdateIsMade
<1>9. Known(ReviewJob(c))' /\ ~Due(TestJob(c))'
  <2>1. Known(ReviewJob(c))' BY <1>2, <1>5, <1>8
  <2>2. Past(TestJob(c))' BY <1>2, <1>5, <1>8, WorksPast DEF Calm
  <2> QED BY <2>1, <2>2 DEF Due
<1>10. CycleLeads' BY <1>4, <1>8, <1>9 DEF CycleLeads
<1>11. "REVIEWING" \in Underway BY DEF Underway, Early, EngineeringStatus
<1> QED BY <1>1, <1>3, <1>8, <1>10, <1>11, OrchestratorMoves

LEMMA ReviewCompletedLed ==
  ASSUME TypeInv, EarnedInv, CauseInv, Led, Frugal, NEW w \in Workers, ReviewCompleted(w)
  PROVE  Led'
<1>1. Orchestrates(w) BY DEF Orchestrates
<1>2. /\ Calm /\ Works(w, Jobs, Database, UnitsOfWork) /\ job[w] \in Jobs /\ view[w] # None
      /\ Due(job[w]) /\ Executes(w)
      /\ \A j \in Jobs : /\ Known(j)' <=> Known(j) \/ j \in todo'[w]
                         /\ Past(j) => Past(j)'
                         /\ (j # job[w] /\ ~Past(j)) => ~Past(j)'
    BY <1>1, OrchestratorActs
<1>3. job[w].type = "REVIEW" BY <1>2 DEF ReviewCompleted, At, EarnedInv, ApprovesWell
<1>4. PICK c \in Cycles : c = job[w].cycle /\ view[w].repairs = c /\ db.repairs = c
    BY <1>2, <1>3, ReadsCurrent
<1>5. job[w] = ReviewJob(c) /\ TestJob(c) \in Jobs /\ CyclesInTurn
    BY <1>2, <1>3, <1>4, JobParts, JobsAre DEF EarnedInv
<1>6. EndsWell(w) BY <1>3 DEF EndsWell
<1>7. Known(ReviewJob(c))' /\ ~Due(TestJob(c))'
  <2>1. Known(ReviewJob(c)) BY <1>2, <1>5 DEF Due
  <2>2. Past(TestJob(c)) BY <1>2, <1>3, <1>4, <1>5, <2>1 DEF CyclesInTurn, InTurn, Prior
  <2> QED BY <1>2, <1>5, <2>1, <2>2 DEF Due
<1>8. ASSUME NEW target \in {"COMPLETED", "REPAIRING", "FAILED"}, NEW keys,
             CommitStatus(w, target, keys), view[w].status = "REVIEWING",
             target = "REPAIRING" => keys = {RepairJob(c)} /\ c < MaxRepairs
      PROVE  Led'
  <2>1. target \in EngineeringStatus /\ target \in Allowed[view[w].status] /\ target \in Underway
      BY <1>8 DEF Allowed, EngineeringStatus, Underway, Early
  <2>2. CASE pc'[w] = "raised"
    <3>1. db' = db /\ todo'[w] = {} BY <1>8, <2>1, <2>2, RaiseLeaves
    <3> QED BY <1>1, <1>6, <3>1, OrchestratorStays
  <2>3. CASE pc'[w] # "raised"
    <3>1. db'.status = target /\ db'.repairs = db.repairs /\ todo'[w] = keys
        BY <1>8, <2>1, <2>3, UpdateIsMade
    <3>2. ASSUME target = "REPAIRING" PROVE c < MaxRepairs /\ Due(RepairJob(c))'
      <4>1. keys = {RepairJob(c)} /\ c < MaxRepairs BY <1>8, <3>2
      <4>2. c \in 0..MaxRepairs - 1 BY <4>1, MaxRepairsAssumption DEF Cycles
      <4>3. RepairJob(c) \in Jobs /\ RepairJob(c).type = "REPAIR" BY <4>2, JobsAre, JobTypes
      <4>4. ~Known(RepairJob(c)) BY <1>2, <1>3, <1>4, <1>5, <4>1, Current DEF Calm
      <4>5. ~Past(RepairJob(c)) BY <4>4 DEF Past, Known
      <4> QED BY <1>2, <1>3, <3>1, <4>1, <4>3, <4>5 DEF Due
    <3>3. CycleLeads' BY <1>4, <1>7, <1>8, <3>1, <3>2 DEF CycleLeads
    <3> QED BY <1>1, <1>3, <2>1, <3>1, <3>3, OrchestratorMoves
  <2> QED BY <2>2, <2>3
<1>9. CASE Return(w, "settle", {})
  <2>1. UNCHANGED db /\ todo'[w] = {} BY <1>9, SoloReturns
  <2> QED BY <1>1, <1>6, <2>1, OrchestratorStays
<1>10. CASE view[w].status = "REVIEWING" /\ ~Return(w, "settle", {})
  <2>1. CASE CommitStatus(w, "COMPLETED", {}) BY <1>8, <1>10, <2>1
  <2>2. CASE CommitStatus(w, "FAILED", {}) BY <1>8, <1>10, <2>2
  <2>3. CASE RepairsLeft(view[w]) /\ CommitStatus(w, "REPAIRING", {RepairJob(c)})
      BY <1>4, <1>8, <1>10, <2>3 DEF RepairsLeft
  <2> QED BY <1>4, <1>10, <2>1, <2>2, <2>3 DEF ReviewCompleted
<1> QED BY <1>9, <1>10 DEF ReviewCompleted

LEMMA RepairCompletedLed ==
  ASSUME TypeInv, EarnedInv, CauseInv, Led, Frugal, NEW w \in Workers, RepairCompleted(w)
  PROVE  Led'
<1>1. Orchestrates(w) BY DEF Orchestrates
<1>2. /\ Calm /\ Works(w, Jobs, Database, UnitsOfWork) /\ job[w] \in Jobs /\ view[w] # None
      /\ ReadsStage(w) /\ Executes(w) /\ pc'[w] \in {"settle", "raised", "enqueue"}
      /\ \A j \in Jobs : /\ Known(j)' <=> Known(j) \/ j \in todo'[w]
                         /\ (j # job[w] /\ ~Past(j)) => ~Past(j)'
    BY <1>1, OrchestratorActs
<1>3. job[w].type = "REPAIR" BY DEF RepairCompleted
<1>4. PICK c \in Cycles : c = job[w].cycle /\ view[w].repairs = c /\ db.repairs = c
    BY <1>2, <1>3, ReadsCurrent
<1>5. TypeInv' /\ (todo'[w] # {} <=> pc'[w] = "enqueue")
  <2>1. TypeInv' BY RepairCompletedEffect
  <2> QED BY <2>1 DEF TypeInv, Loop, LoopInv, LoopOK
<1>6. CASE todo'[w] = {}
  <2>1. UNCHANGED db BY <1>6, RepairCompletedEffect
  <2>2. ASSUME pc'[w] = "settle" PROVE view[w].status # "REPAIRING"
    <3>1. ASSUME NEW new, NEW keys, Commit(w, new, "enqueue", keys) PROVE pc'[w] = "enqueue"
        BY <3>1 DEF Commit, Goto, TypeInv, Loop, LoopInv, LoopTyped
    <3>2. ASSUME Raise(w) PROVE pc'[w] = "raised"
        BY <3>2 DEF Raise, Return, Goto, TypeInv, Loop, LoopInv, LoopTyped
    <3> QED BY <2>2, <3>1, <3>2 DEF RepairCompleted
  <2>3. pc'[w] = "settle" => EndsWell(w) BY <1>2, <1>3, <2>2 DEF EndsWell, ReadsStage
  <2> QED BY <1>1, <1>2, <1>5, <1>6, <2>1, <2>3, OrchestratorStays
<1>7. CASE todo'[w] # {}
  <2>1. /\ c + 1 \in Cycles /\ db'.status = "TESTING" /\ db'.repairs = c + 1
        /\ todo'[w] = {TestJob(c + 1)}
      BY <1>4, <1>7, RepairCompletedEffect
  <2>2. /\ TestJob(c + 1) \in Jobs /\ TestJob(c + 1).type = "TEST" /\ TestJob(c + 1).cycle = c + 1
      BY <2>1, JobsAre, JobTypes, CyclesType
  <2>3. ~Known(TestJob(c + 1))
    <3>1. Known(TestJob(c + 1)) => c + 1 <= c
        BY <1>2, <1>4, <2>2 DEF EarnedInv, CyclesInTurn, InTurn
    <3>2. c \in Nat BY CyclesType
    <3> QED BY <3>1, <3>2
  <2>4. Due(TestJob(c + 1))'
    <3>1. ~Past(TestJob(c + 1)) BY <2>3 DEF Past, Known
    <3> QED BY <1>2, <1>3, <2>1, <2>2, <3>1 DEF Due
  <2>5. CycleLeads' BY <2>1, <2>4 DEF CycleLeads, Over
  <2>6. "TESTING" \in Underway BY DEF Underway, Early, EngineeringStatus
  <2> QED BY <1>1, <1>3, <2>1, <2>5, <2>6, OrchestratorMoves
<1> QED BY <1>6, <1>7

LEMMA HandlerLed ==
  ASSUME TypeInv, WholeInv, EarnedInv, OnceInv, OnceInv', CauseInv, LeftInv, NEW w \in Workers, Handler(w)
  PROVE  LeftInv'
<1> SUFFICES ASSUME Frugal' PROVE Led' BY DEF LeftInv
<1>1. Works(w, Jobs, Database, UnitsOfWork) BY HandlerTypes
<1>2. Frugal /\ Led BY <1>1, FrugalBefore DEF LeftInv
<1>3. CASE Orchestrates(w)
    BY <1>2, <1>3, PlanCompletedLed, MaybeScheduleTestsLed, TestsCompletedLed, ReviewCompletedLed,
       RepairCompletedLed DEF Orchestrates
<1>4. CASE ~Orchestrates(w) BY <1>2, <1>4, QuietLed
<1> QED BY <1>3, <1>4

\* The loop lets go of a job only once its handler is done with it.
LEMMA NoNewPast ==
  ASSUME TypeInv, CauseInv, Frugal, CalmLoop, NEW j \in Jobs, Past(j)'
  PROVE  Past(j)
<1> USE DEF TypeInv, Loop, LoopInv, LoopTyped
<1>1. ASSUME jobs'[j].status \notin {"absent", "queued"} => jobs[j].status \notin {"absent", "queued"},
             \A u \in Workers : (job[u] = j /\ Executes(u)) => (job'[u] = j /\ Executes(u)')
      PROVE  Past(j)
    BY <1>1 DEF Past
<1>2. ASSUME NEW w \in Workers, \A u \in Workers : u # w => job'[u] = job[u] /\ pc'[u] = pc[u],
             job[w] # j \/ ~Executes(w),
             jobs'[j].status \notin {"absent", "queued"} => jobs[j].status \notin {"absent", "queued"}
      PROVE  Past(j)
    BY <1>1, <1>2 DEF Executes
<1>3. ASSUME NEW w \in Workers, Settle(w) \/ Fail(w) PROVE Past(j)
  <2>1. job[w] \in Jobs /\ Owns(w) /\ pc[w] \in {"settle", "raised"}
      BY <1>3, NoneAssumption DEF Settle, Fail, LoopOK, Exclusive, Frugal, Calm
  <2>2. \A u \in Workers : u # w => job'[u] = job[u] /\ pc'[u] = pc[u]
      BY <1>3 DEF Settle, Fail, Drop, Goto
  <2>3. CASE Settle(w)
    <3>1. jobs' = Released(job[w], "done") /\ pc[w] = "settle" BY <2>1, <2>3 DEF Settle
    <3>2. ~Executes(w) BY <3>1 DEF Executes
    <3>3. j = job[w] \/ jobs'[j] = jobs[j] BY <2>1, <3>1 DEF Released
    <3> QED BY <1>2, <2>1, <2>2, <3>2, <3>3 DEF Owns
  <2>4. CASE Fail(w)
    <3>1. Spent(job[w]) = jobs[job[w]].attempt BY <2>1, <2>4 DEF Spent, Owns, Fail
    <3>2. Spent(job[w]) <= budget.raises \/ Spent(job[w]) <= budget.raises + 1
        BY <2>1 DEF CauseInv, Paid, SpentWithin, Owns
    <3>3. /\ budget.raises \in Nat /\ budget.raises < MaxAttempts - 1 /\ MaxAttempts \in Nat
          /\ jobs[job[w]].attempt \in Nat
      <4>1. jobs[job[w]] \in JobRow BY <2>1
      <4>2. MaxAttempts \in Nat BY LoopAssumption
      <4> QED BY <4>1, <4>2 DEF Frugal, JobRow
    <3>4. ~Exhausted(job[w])
      <4>1. ~(jobs[job[w]].attempt >= MaxAttempts) BY <3>1, <3>2, <3>3
      <4> QED BY <4>1 DEF Exhausted
    <3>5. jobs' = Released(job[w], "queued") BY <2>1, <2>4, <3>4 DEF Fail
    <3>6. jobs'[job[w]].status = "queued" /\ (j # job[w] => jobs'[j] = jobs[j])
        BY <2>1, <3>5 DEF Released
    <3>7. j # job[w] BY <3>6 DEF Past
    <3> QED BY <1>2, <2>2, <3>6, <3>7
  <2> QED BY <1>3, <2>3, <2>4
<1>4. ASSUME NEW w \in Workers, Restart(w) PROVE Past(j)
  <2>1. job[w] = None BY <1>4 DEF Restart, LoopOK
  <2> QED BY <1>2, <1>4, <2>1 DEF Restart, Drop, Goto, Executes
<1>5. ASSUME NEW w \in Workers, NEW k \in Jobs, Claim(w, k) PROVE Past(j)
  <2>1. job[w] = None /\ job'[w] = k /\ pc'[w] = "start" BY <1>5 DEF Claim, ClaimFor, LoopOK
  <2>2. j # k BY <2>1, NoneAssumption DEF Past, Executes
  <2>3. jobs'[j] = jobs[j] BY <1>5, <2>2 DEF Claim, ClaimFor
  <2> QED BY <1>2, <1>5, <2>1, <2>3 DEF Claim, ClaimFor, Executes
<1>6. ASSUME NEW keys, jobs' = Enqueued(jobs, keys), NEW w \in Workers, ~Executes(w),
             \A u \in Workers : u # w => job'[u] = job[u] /\ pc'[u] = pc[u]
      PROVE  Past(j)
  <2>1. jobs'[j].status \notin {"absent", "queued"} => jobs[j].status \notin {"absent", "queued"}
      BY <1>6 DEF Enqueued, JobRow
  <2> QED BY <1>2, <1>6, <2>1
<1>7. ASSUME NEW w \in Workers, EnqueueNext(w) PROVE Past(j)
  <2>1. PICK k \in todo[w] : EnqueueOne(w, k) BY <1>7 DEF EnqueueNext
  <2>2. ~Executes(w) BY <2>1 DEF EnqueueOne, Executes
  <2> QED BY <1>6, <2>1, <2>2 DEF EnqueueOne, Goto
<1>8. CASE UNCHANGED <<pc, job>> /\ \E keys : jobs' = Enqueued(jobs, keys)
  <2>1. PICK keys : jobs' = Enqueued(jobs, keys) BY <1>8
  <2>2. jobs'[j].status \notin {"absent", "queued"} => jobs[j].status \notin {"absent", "queued"}
      BY <2>1 DEF Enqueued, JobRow
  <2> QED BY <1>1, <1>8, <2>2 DEF Executes
<1>9. CASE UNCHANGED <<pc, job, jobs>> BY <1>1, <1>9 DEF Executes
<1>10. CASE CreateRun \/ Start \/ \E w \in Workers : Begin(w)
    BY <1>9, <1>10 DEF CreateRun, Start, Begin, BeginAt, workerVars
<1>11. CASE EnqueuePlan BY <1>8, <1>11 DEF EnqueuePlan, workerVars
<1> QED BY <1>3, <1>4, <1>5, <1>7, <1>10, <1>11, NobodyReports DEF CalmLoop

LEMMA StaysKnown ==
  ASSUME TypeInv, LoopFrame, CalmLoop, NEW j \in Jobs, Known(j)
  PROVE  Known(j)'
<1> USE DEF TypeInv, Loop, LoopInv, LoopTyped
<1>1. CASE jobs[j].status # "absent" BY <1>1 DEF LoopFrame, Known
<1>2. ASSUME NEW u \in Workers, j \in todo[u] PROVE Known(j)'
  <2>1. pc[u] = "enqueue" /\ job[u] # None BY <1>2 DEF LoopOK
  <2>2. CASE todo'[u] = todo[u] BY <1>2, <2>2 DEF Known
  <2>3. ASSUME NEW w \in Workers, u = w \/ todo'[u] = todo[u], pc[w] # "enqueue" PROVE Known(j)'
      BY <2>1, <2>2, <2>3
  <2>4. ASSUME NEW w \in Workers, Settle(w) \/ Fail(w) \/ Restart(w) \/ ReportFailure(w)
        PROVE  Known(j)'
    <3>1. u = w \/ todo'[u] = todo[u] BY <2>4 DEF Settle, Fail, Restart, ReportFailure, Drop, Goto
    <3>2. pc[w] # "enqueue" BY <2>4 DEF Settle, Fail, Restart, ReportFailure, At
    <3> QED BY <2>3, <3>1, <3>2
  <2>5. ASSUME NEW w \in Workers, EnqueueNext(w) PROVE Known(j)'
    <3>1. PICK k \in todo[w] : EnqueueOne(w, k) BY <2>5 DEF EnqueueNext
    <3>2. CASE u # w BY <2>2, <3>1, <3>2 DEF EnqueueOne, Goto
    <3>3. CASE u = w /\ j # k
      <4>1. j \in todo'[u] BY <1>2, <3>1, <3>3 DEF EnqueueOne, Goto
      <4> QED BY <4>1 DEF Known
    <3>4. CASE j = k
      <4>1. jobs'[j].status # "absent" BY <3>1, <3>4 DEF EnqueueOne, Enqueued
      <4> QED BY <4>1 DEF Known
    <3> QED BY <3>2, <3>3, <3>4
  <2>6. CASE todo' = todo BY <2>2, <2>6
  <2> QED BY <2>4, <2>5, <2>6 DEF CalmLoop, Claim, ClaimFor, Begin, BeginAt, CreateRun, Start,
        EnqueuePlan, workerVars
<1> QED BY <1>1, <1>2 DEF Known

\* Before the API has enqueued the plan there is nothing to lead.
LEMMA NothingKnownLed ==
  /\ TypeInv /\ (\A j \in Jobs : ~Known(j)) /\ db.status \in Early
  /\ (api = "planning" => db.status = "PLANNING") /\ api # "done"
  => Led
<1> SUFFICES ASSUME TypeInv, \A j \in Jobs : ~Known(j), db.status \in Early,
                    api = "planning" => db.status = "PLANNING", api # "done"
             PROVE  Led
    OBVIOUS
<1>1. \A u \in Workers : job[u] = None /\ pc[u] \in {"idle", "dead"}
  <2> SUFFICES ASSUME NEW u \in Workers, job[u] # None PROVE FALSE
      BY DEF TypeInv, Loop, LoopInv, LoopOK
  <2>1. job[u] \in Jobs /\ jobs[job[u]].status # "absent"
      BY DEF TypeInv, Loop, LoopInv, LoopTyped, HoldsRow
  <2> QED BY <2>1 DEF Known
<1>2. PlanLeads
  <2>1. ~Known(PlanJob) /\ ~Past(PlanJob) BY JobsAre DEF Past, Known
  <2> QED BY <2>1 DEF PlanLeads, Due
<1>3. ImplementersLead BY DEF ImplementersLead, Early
<1>4. CycleLeads
  <2>1. \A c \in Cycles : ~Due(TestJob(c)) BY JobsAre DEF Due
  <2> QED BY <2>1 DEF CycleLeads, Early, Over
<1>5. \A u \in Workers : ReadsStage(u) /\ HasWritten(u) BY <1>1 DEF ReadsStage, HasWritten, Executes
<1> QED BY <1>2, <1>3, <1>4, <1>5 DEF Led

LEMMA NothingKnownLedNext ==
  /\ TypeInv' /\ (\A j \in Jobs : ~Known(j))' /\ (db.status \in Early)'
  /\ (api = "planning" => db.status = "PLANNING")' /\ (api # "done")'
  => Led'
BY NothingKnownLed, PTL

\* A step of the loop that leaves the rows alone.
LEMMA LoopLed ==
  ASSUME TypeInv, TypeInv', EarnedInv, CauseInv, Frugal, Led, LoopFrame, db' = db,
         api' = api \/ (api = "planning" /\ api' = "done" /\ Known(PlanJob)'),
         \A j \in Jobs : (Known(j) => Known(j)') /\ (Past(j)' <=> Past(j))
  PROVE  Led'
<1>1. \A j \in Jobs : Known(j)' => Known(j) \/ (j = PlanJob /\ api = "planning" /\ api' = "done")
    BY DEF LoopFrame
<1>2. \A u \in Workers : Executes(u)' =>
        \/ pc'[u] = "start" /\ view'[u] = None
        \/ Executes(u) /\ job'[u] = job[u] /\ pc'[u] = pc[u] /\ view'[u] \in {view[u], db}
    BY DEF LoopFrame, Executes
<1>3. Calm /\ CyclesInTurn /\ PlanLeads /\ ImplementersLead /\ CycleLeads
      /\ \A u \in Workers : ReadsStage(u) /\ HasWritten(u)
    BY DEF Frugal, EarnedInv, Led
<1>4. \A u \in Workers : (job'[u] # None /\ pc'[u] = "advance") => Executes(u)' BY DEF Executes
<1>5. PlanLeads'
  <2>1. PlanJob \in Jobs BY JobsAre
  <2> QED BY <1>1, <1>3, <2>1 DEF PlanLeads, Due
<1>6. CycleLeads'
  <2> SUFFICES ASSUME NEW c \in Cycles, c = db.repairs
               PROVE  /\ db.status = "TESTING" => Due(TestJob(c))' \/ Known(ReviewJob(c))'
                      /\ db.status \in {"REVIEWING", "REPAIRING"} \union Over => Known(ReviewJob(c))'
                      /\ db.status = "REPAIRING" => c < MaxRepairs /\ Due(RepairJob(c))'
                      /\ Due(TestJob(c))' => db.status = "TESTING"
      BY DEF CycleLeads
  <2>1. /\ db.status = "TESTING" => Due(TestJob(c)) \/ Known(ReviewJob(c))
        /\ db.status \in {"REVIEWING", "REPAIRING"} \union Over => Known(ReviewJob(c))
        /\ db.status = "REPAIRING" => c < MaxRepairs /\ Due(RepairJob(c))
        /\ Due(TestJob(c)) => db.status = "TESTING"
      BY <1>3 DEF CycleLeads
  <2>2. TestJob(c) \in Jobs /\ ReviewJob(c) \in Jobs /\ TestJob(c) # PlanJob
      BY JobsAre, JobTypes, CyclesType
  <2>3. Due(TestJob(c))' <=> Due(TestJob(c)) BY <1>1, <2>2 DEF Due
  <2>4. c < MaxRepairs => (Due(RepairJob(c)) => Due(RepairJob(c))')
    <3> SUFFICES ASSUME c < MaxRepairs PROVE RepairJob(c) \in Jobs BY DEF Due
    <3>1. c \in 0..MaxRepairs - 1 BY CyclesType, MaxRepairsAssumption DEF Cycles
    <3> QED BY <3>1, JobsAre
  <2> QED BY <2>1, <2>2, <2>3, <2>4
<1>7. ASSUME NEW u \in Workers PROVE HasWritten(u)'
  <2> SUFFICES ASSUME pc'[u] = "advance", job'[u].type = "IMPLEMENT" PROVE Written(db, job'[u].role)
      BY DEF HasWritten, Written
  <2>1. job'[u] # None BY DEF TypeInv, Loop, LoopInv, LoopOK
  <2>2. job'[u] = job[u] /\ pc[u] = "advance" BY <1>2, <1>4, <2>1
  <2> QED BY <1>3, <2>2 DEF HasWritten
<1>8. ASSUME NEW u \in Workers PROVE ReadsStage(u)'
  <2> SUFFICES ASSUME Executes(u)', view'[u] # None PROVE ReadsStage(u)' BY DEF ReadsStage
  <2>1. Executes(u) /\ job'[u] = job[u] /\ view'[u] \in {view[u], db} BY <1>2
  <2>2. CASE view'[u] = view[u] BY <1>3, <2>1, <2>2 DEF ReadsStage
  <2>3. CASE view'[u] = db
    <3>1. job[u] \in Jobs /\ Known(job[u]) /\ ~Past(job[u]) /\ job[u].cycle \in Cycles
        BY <1>3, <2>1, Acting DEF Calm, Past
    <3>2. job[u].type = "PLAN" => db.status = "PLANNING"
        BY <1>3, <3>1, JobParts DEF PlanLeads, Due
    <3>3. ASSUME job[u].type = "TEST" PROVE db.status = "TESTING"
      <4>1. db.repairs = job[u].cycle BY <1>3, <2>1, <3>3, Current DEF Calm
      <4>2. job[u] = TestJob(job[u].cycle) BY <3>1, <3>3, JobParts
      <4> QED BY <1>3, <3>1, <4>1, <4>2 DEF CycleLeads, Due
    <3> QED BY <2>1, <2>3, <3>2, <3>3 DEF ReadsStage
  <2> QED BY <2>1, <2>2, <2>3
\* Where one implementer reads that the files of the other are not there, that
\* one is still to come.
<1>9. ImplementersLead'
  <2> SUFFICES ASSUME db.status = "IMPLEMENTING" PROVE ImplementersLead' BY DEF ImplementersLead
  <2>1. \A r \in IMPLEMENTER_ROLES : ImplementJob(r) \in Jobs BY JobsAre
  <2>2. \A r \in IMPLEMENTER_ROLES : /\ Known(ImplementJob(r))'
                                     /\ Past(ImplementJob(r))' => Written(db, r)
      BY <1>3, <2>1 DEF ImplementersLead
  <2>3. \E r \in IMPLEMENTER_ROLES : ~GivesUp(ImplementJob(r))'
    <3>1. PICK r \in IMPLEMENTER_ROLES : ~GivesUp(ImplementJob(r)) BY <1>3 DEF ImplementersLead
    <3>2. ~Past(ImplementJob(r))' BY <2>1, <3>1 DEF GivesUp
    <3>3. CASE AllRoles(db)
      <4> SUFFICES ASSUME NEW u \in Workers, job'[u] = ImplementJob(r), pc'[u] = "advance",
                          view'[u] # None, ~AllRoles(view[u])'
                   PROVE  FALSE
          BY <3>1, <3>2 DEF GivesUp
      <4>1. job'[u] # None BY <2>1, NoneAssumption
      <4>2. job[u] = ImplementJob(r) /\ pc[u] = "advance" /\ view'[u] \in {view[u], db}
          BY <1>2, <1>4, <4>1
      <4>3. view'[u] # db BY <3>3 DEF AllRoles
      <4>4. view'[u] = view[u] BY <4>2, <4>3
      <4> QED BY <3>1, <4>2, <4>4 DEF GivesUp, AllRoles
    <3>4. CASE ~AllRoles(db)
      <4>1. PICK q \in IMPLEMENTER_ROLES : ~Written(db, q) BY <3>4 DEF AllRoles, Written
      <4>2. ~Past(ImplementJob(q))' BY <2>2, <4>1
      <4>3. ASSUME NEW u \in Workers, job'[u] = ImplementJob(q), pc'[u] = "advance" PROVE FALSE
        <5>1. job'[u].type = "IMPLEMENT" /\ job'[u].role = q BY <4>3, JobTypes
        <5>2. Written(db, q) BY <1>7, <4>3, <5>1 DEF HasWritten, Written
        <5> QED BY <4>1, <5>2
      <4> QED BY <4>2, <4>3 DEF GivesUp
    <3> QED BY <3>3, <3>4
  <2> QED BY <2>2, <2>3 DEF ImplementersLead, Written
<1> QED BY <1>5, <1>6, <1>7, <1>8, <1>9 DEF Led

LEMMA LoopStepLed ==
  ASSUME TypeInv, EarnedInv, CauseInv, LeftInv, LoopStep
  PROVE  LeftInv'
<1> SUFFICES ASSUME Frugal' PROVE Led' BY DEF LeftInv
<1>1. Calm /\ LoopFrame /\ CalmLoop /\ budget' = budget BY LoopStepFrame, CalmSteps DEF Frugal
<1>2. TypeInv' /\ Frugal BY <1>1, LoopStepTypes DEF Frugal
<1>3. Led BY <1>2 DEF LeftInv
<1>4. CASE CreateRun \/ Start
  <2>1. /\ api \in {"new", "committed"} /\ UNCHANGED <<jobs, workerVars>>
        /\ \/ api' = "committed" /\ db' = [db EXCEPT !.status = "CREATED"]
           \/ api' = "planning" /\ db' = [db EXCEPT !.status = "PLANNING"]
      BY <1>4 DEF CreateRun, Start
  <2>2. /\ (db.status \in Early)' /\ (api = "planning" => db.status = "PLANNING")'
        /\ (api # "done")'
      BY <2>1 DEF TypeInv, Database, Early
  <2>3. (\A j \in Jobs : ~Known(j))' BY <1>2, <2>1 DEF CauseInv, Known, workerVars
  <2> QED BY <1>2, <2>2, <2>3, NothingKnownLedNext
<1>5. CASE ~(CreateRun \/ Start)
  <2>1. db' = db /\ (api' = api \/ EnqueuePlan)
      BY <1>1, <1>2, <1>5, NobodyReports DEF CalmLoop, Settle, Fail, Restart, Claim, ClaimFor,
         Begin, BeginAt, EnqueueNext, EnqueueOne, EnqueuePlan
  <2>2. ASSUME EnqueuePlan PROVE api = "planning" /\ api' = "done" /\ Known(PlanJob)'
    <3>1. api = "planning" /\ api' = "done" /\ jobs' = Enqueued(jobs, {PlanJob})
        BY <2>2 DEF EnqueuePlan
    <3>2. PlanJob \in Jobs /\ jobs \in [Jobs -> JobRow] BY JobsAre DEF TypeInv, Loop, LoopInv, LoopTyped
    <3>3. jobs'[PlanJob].status # "absent" BY <3>1, <3>2 DEF Enqueued
    <3> QED BY <3>1, <3>3 DEF Known
  <2>3. \A j \in Jobs : Known(j) => Known(j)' BY <1>1, StaysKnown
  <2>4. \A j \in Jobs : Past(j)' <=> Past(j)
    <3>1. \A j \in Jobs : Past(j) => Past(j)' BY <1>1 DEF LoopFrame
    <3>2. \A j \in Jobs : Past(j)' => Past(j) BY <1>1, <1>2, NoNewPast
    <3> QED BY <3>1, <3>2
  <2> QED BY <1>1, <1>2, <1>3, <2>1, <2>2, <2>3, <2>4, LoopLed
<1> QED BY <1>4, <1>5

LEMMA LeftIsInvariant == Spec => [](TypeInv /\ CauseInv /\ LeftInv)
<1>1. Init => LeftInv
  <2> SUFFICES ASSUME Init PROVE Led BY DEF LeftInv
  <2>1. \A j \in Jobs : ~Known(j) BY DEF Init, LoopInit, NoJob, Known
  <2>2. db.status \in Early /\ api = "new" BY DEF Init, Early
  <2> QED BY <2>1, <2>2, InitTypes, NothingKnownLed
<1>2. TypeInv /\ WholeInv /\ EarnedInv /\ OnceInv /\ OnceInv' /\ CauseInv /\ LeftInv /\ [Next]_vars
      => LeftInv'
  <2> SUFFICES ASSUME TypeInv, WholeInv, EarnedInv, OnceInv, OnceInv', CauseInv, LeftInv, [Next]_vars
               PROVE  LeftInv'
      OBVIOUS
  <2>1. CASE UNCHANGED vars
    <3> SUFFICES ASSUME Frugal' PROVE Led' BY DEF LeftInv
    <3>1. UNCHANGED <<db, jobs, api, pc, job, view, todo, budget>> BY <2>1 DEF vars
    <3>2. TypeInv' /\ Frugal /\ Led BY <3>1, TypesAreKept DEF Frugal, Calm, LeftInv
    <3>3. OwnersWork' BY <3>1, <3>2 DEF Frugal, EarnedInv, OwnersWork
    <3>4. \A j \in Jobs : (Past(j)' <=> Past(j)) /\ (Known(j)' <=> Known(j))
        BY <3>1 DEF Past, Executes, Known
    <3>5. LoopFrame BY <3>1, <3>3, <3>4 DEF LoopFrame
    <3> QED BY <3>1, <3>2, <3>4, <3>5, LoopLed
  <2> QED BY <2>1, Steps, LoopStepLed, HandlerLed
<1> QED BY <1>1, <1>2, InitTypes, WholeIsInvariant, EarnedIsInvariant, OnceIsInvariant,
           CauseIsInvariant, PTL DEF Spec

\* However many workers race for its jobs and whatever they have read: where
\* none is killed or loses a lease and providers fail less often than a job is
\* attempted, a run that nobody is at work on is over, or an implementer that
\* came late with its update set it back to TESTING (or a review then found it
\* there) and the review of its cycle has come to nothing.
THEOREM LeftOnlyByOvertaking ==
  Spec => [](Frugal => StrandedForCause)
<1>1. TypeInv /\ CauseInv /\ LeftInv => (Frugal => StrandedForCause)
  <2> SUFFICES ASSUME TypeInv, CauseInv, LeftInv, Frugal, Quiet, api = "done", db.status \notin Over
               PROVE  db.status \in {"TESTING", "REVIEWING"} /\ jobs[ReviewJob(db.repairs)].status = "done"
      BY DEF StrandedForCause
  <2> USE DEF TypeInv, Loop, LoopInv, LoopTyped
  <2>1. Led /\ Calm BY DEF LeftInv, Frugal
  <2>2. \A u \in Workers : job[u] = None /\ pc[u] \in {"idle", "dead"} /\ todo[u] = {}
      BY DEF Quiet, LoopOK
  <2>3. \A j \in Jobs : jobs[j].status \in {"absent", "done", "failed"} BY DEF Quiet, JobRow
  <2>4. ASSUME NEW j \in Jobs, jobs[j].status = "failed" PROVE FALSE
    <3>1. Spent(j) = MaxAttempts BY <2>4 DEF Spent, RowsOK, AttemptsLeft
    <3>2. Spent(j) <= budget.raises \/ Spent(j) <= budget.raises + 1
        BY <2>4 DEF CauseInv, Paid, SpentWithin
    <3>3. budget.raises \in Nat /\ budget.raises < MaxAttempts - 1 /\ MaxAttempts \in Nat
        BY LoopAssumption DEF Frugal
    <3> QED BY <3>1, <3>2, <3>3
  <2>5. ASSUME NEW j \in Jobs, Known(j) PROVE jobs[j].status = "done" /\ Past(j)
    <3>1. jobs[j].status = "done" BY <2>2, <2>3, <2>4, <2>5 DEF Known
    <3> QED BY <2>2, <3>1, NoneAssumption DEF Past
  <2>6. db.status \notin Early
    <3>1. Known(PlanJob) /\ PlanJob \in Jobs BY <2>1, JobsAre DEF Led, PlanLeads
    <3> QED BY <2>1, <2>5, <3>1 DEF Led, PlanLeads
  <2>7. db.status # "IMPLEMENTING"
    <3> SUFFICES ASSUME db.status = "IMPLEMENTING" PROVE FALSE OBVIOUS
    <3>1. PICK r \in IMPLEMENTER_ROLES : ~GivesUp(ImplementJob(r)) BY <2>1 DEF Led, ImplementersLead
    <3>2. Known(ImplementJob(r)) /\ ImplementJob(r) \in Jobs BY <2>1, JobsAre DEF Led, ImplementersLead
    <3> QED BY <2>5, <3>1, <3>2 DEF GivesUp
  <2>8. PICK c \in Cycles : c = db.repairs BY DEF Database
  <2>9. TestJob(c) \in Jobs /\ ReviewJob(c) \in Jobs /\ ~Due(TestJob(c)) BY <2>5, JobsAre DEF Due
  <2>10. db.status # "REPAIRING"
    <3> SUFFICES ASSUME db.status = "REPAIRING" PROVE FALSE OBVIOUS
    <3>1. c < MaxRepairs /\ Due(RepairJob(c)) BY <2>1, <2>8 DEF Led, CycleLeads
    <3>2. c \in 0..MaxRepairs - 1 BY <3>1, CyclesType, MaxRepairsAssumption DEF Cycles
    <3> QED BY <2>5, <3>1, <3>2, JobsAre DEF Due
  <2>11. db.status \in {"TESTING", "REVIEWING"}
    <3>1. db.status \in EngineeringStatus BY DEF Database
    <3> QED BY <2>6, <2>7, <2>10, <3>1 DEF EngineeringStatus, Early, Over
  <2>12. Known(ReviewJob(c)) BY <2>1, <2>8, <2>9, <2>11 DEF Led, CycleLeads
  <2> QED BY <2>5, <2>8, <2>9, <2>11, <2>12
<1> QED BY <1>1, LeftIsInvariant, PTL

=============================================================================
