---------------------------- MODULE JobLifecycle ----------------------------
(***************************************************************************)
(* What the durable queue promises to whoever enqueues a job, with no      *)
(* clock, no workers and no leases: a job is named by its idempotency key, *)
(* is delivered to a handler at least once and at most MaxAttempts times,  *)
(* ends done or failed, and never leaves that end.                         *)
(*                                                                         *)
(* One step of the queue may move several jobs, because claim_next         *)
(* requeues every job with an expired lease before it claims one; so a     *)
(* step is a relation on each job, and it holds of all of them at once.    *)
(***************************************************************************)
EXTENDS Naturals

CONSTANTS Keys,         \* idempotency keys
          MaxAttempts   \* the max_attempts of every job (3 by default)

VARIABLES phase,    \* phase[k]: "absent", "queued", "running", "done", "failed"
          tries     \* tries[k]: how often k was handed to a handler

vars == <<phase, tries>>

Init == /\ phase = [k \in Keys |-> "absent"]
        /\ tries = [k \in Keys |-> 0]

\* Enqueue creates the row once; a second enqueue of the key is a no-op.
Submit(k) == /\ phase[k] = "absent"
             /\ phase'[k] = "queued"
             /\ tries'[k] = tries[k]

\* A worker takes the job, or takes it again from one whose lease ran out.
Deliver(k) == /\ phase[k] \in {"queued", "running"}
              /\ tries[k] < MaxAttempts
              /\ phase'[k] = "running"
              /\ tries'[k] = tries[k] + 1

Succeed(k) == /\ phase[k] = "running"
              /\ phase'[k] = "done"
              /\ tries'[k] = tries[k]

\* A handler raised or a lease ran out: retry while attempts are left.
GiveUp(k) == /\ phase[k] = "running"
             /\ phase'[k] = IF tries[k] < MaxAttempts THEN "queued" ELSE "failed"
             /\ tries'[k] = tries[k]

Keep(k) == phase'[k] = phase[k] /\ tries'[k] = tries[k]

Next == /\ DOMAIN phase' = Keys
        /\ DOMAIN tries' = Keys
        /\ \A k \in Keys : Keep(k) \/ Submit(k) \/ Deliver(k) \/ Succeed(k) \/ GiveUp(k)

Spec == Init /\ [][Next]_vars

=============================================================================
