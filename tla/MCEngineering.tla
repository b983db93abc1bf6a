---------------------------- MODULE MCEngineering ----------------------------
(* Small instances of Engineering: constants for the configurations.       *)
EXTENDS Engineering, TLC

CONSTANTS w1, w2

OneWorker == {w1}
TwoWorkers == {w1, w2}
WorkerSymmetry == Permutations(Workers)

=============================================================================
