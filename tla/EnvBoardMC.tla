----------------------------- MODULE EnvBoardMC -----------------------------
(* Three environments; the two that are not the default are alike.          *)
EXTENDS EnvBoard, TLC

CONSTANTS d, a, b

MCEnvs == {d, a, b}
MCSymmetry == Permutations({a, b})
=============================================================================
