---------------------------- MODULE MCTournament ----------------------------
(* Small instances of Tournament: constants for the configurations.        *)
EXTENDS Tournament, TLC

CONSTANTS w1, w2

OneWorker == {w1}
TwoWorkers == {w1, w2}
WorkerSymmetry == Permutations(Workers)

Sound == {}                 \* judges find no submission fatally wrong
FirstFlawed == {<<0, 1>>}   \* the best of generation 0 is fatally wrong

=============================================================================
