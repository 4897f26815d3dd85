---------------------------- MODULE MCVerdictGate ----------------------------
(***************************************************************************)
(* Small instances of VerdictGate.                                         *)
(***************************************************************************)
EXTENDS VerdictGate, TLC

WorkerSymmetry == Permutations(Worker)
=============================================================================
