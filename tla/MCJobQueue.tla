----------------------------- MODULE MCJobQueue -----------------------------
(***************************************************************************)
(* Small instances of JobQueue for TLC.                                    *)
(***************************************************************************)
EXTENDS JobQueue, TLC

CONSTANTS j1, j2, p1, p2

TwoKeys == {j1, j2}
TwoProcesses == {p1, p2}
Ids == {"worker-a", "worker-b"}

\* One host per process: worker-<hostname> differs.
PairIds == p1 :> "worker-a" @@ p2 :> "worker-b"

KeySymmetry == Permutations(TwoKeys)
=============================================================================
