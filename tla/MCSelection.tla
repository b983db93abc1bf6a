---------------------------- MODULE MCSelection -----------------------------
(* A small instance of Selection: constants for the configuration.         *)
EXTENDS Selection, TLC

CONSTANTS t1, t2, t3

Words == {t1, t2, t3}
Half == <<1, 2>>
WordSymmetry == Permutations(Tokens)

=============================================================================
