------------------------- MODULE EngineeringWorkflow -------------------------
(***************************************************************************)
(* What an engineering run promises to whoever created it, with no jobs,   *)
(* workers or retries: the stages follow each other one by one, each       *)
(* repair cycle is tested and reviewed before the next begins, there are   *)
(* at most MaxRepairs of them, and the run completes only by an approving  *)
(* review of the current cycle, whose deterministic checks all passed.     *)
(***************************************************************************)
EXTENDS Naturals

CONSTANT MaxRepairs   \* max_repairs of the run

VARIABLES stage,      \* engineering_runs.status, "NONE" before it exists
          cycle,      \* engineering_runs.repair_count
          passed,     \* the cycles whose checks have passed
          approved    \* the cycles a reviewer has approved

vars == <<stage, cycle, passed, approved>>

Over == {"COMPLETED", "FAILED"}

Init == stage = "NONE" /\ cycle = 0 /\ passed = {} /\ approved = {}

Move(from, to) == stage = from /\ stage' = to
Keep == UNCHANGED <<cycle, passed, approved>>

Create == Move("NONE", "CREATED") /\ Keep
Start == Move("CREATED", "PLANNING") /\ Keep
Plan == Move("PLANNING", "IMPLEMENTING") /\ Keep
Implement == Move("IMPLEMENTING", "TESTING") /\ Keep

\* The checks of the current cycle pass; if they do not, nothing is seen here.
Pass == Move("TESTING", "TESTING") /\ passed' = passed \union {cycle} /\ UNCHANGED <<cycle, approved>>
Test == Move("TESTING", "REVIEWING") /\ Keep

Approve == Move("REVIEWING", "REVIEWING") /\ approved' = approved \union {cycle} /\ UNCHANGED <<cycle, passed>>
Complete == Move("REVIEWING", "COMPLETED") /\ cycle \in passed \intersect approved /\ Keep
Reject ==
  /\ Move("REVIEWING", "REPAIRING")
  /\ cycle < MaxRepairs /\ cycle \notin passed \intersect approved
  /\ Keep
Repair == Move("REPAIRING", "TESTING") /\ cycle' = cycle + 1 /\ UNCHANGED <<passed, approved>>

\* The last review rejected, or a job failed for good.
GiveUp == stage \notin Over \union {"NONE"} /\ stage' = "FAILED" /\ Keep

Next ==
  \/ Create \/ Start \/ Plan \/ Implement \/ Pass \/ Test
  \/ Approve \/ Complete \/ Reject \/ Repair \/ GiveUp

Spec == Init /\ [][Next]_vars

=============================================================================
