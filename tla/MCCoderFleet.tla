---------------------------- MODULE MCCoderFleet ----------------------------
(***************************************************************************)
(* Small boards for CoderFleet: project pa with stories a1 and a2, and     *)
(* project pb with story b1, whose plan was written after pa's.            *)
(***************************************************************************)
EXTENDS CoderFleet, TLC

CONSTANTS a1, a2, a3, b1, pa, pb

MCProjectOf  == [s \in Story |-> IF s = b1 THEN pb ELSE pa]
MCSequenceOf == [s \in Story |-> CASE s = a2 -> 2 [] s = a3 -> 3 [] OTHER -> 1]
MCCreatedAt  == [s \in Story |-> CASE s = a1 -> 1 [] s = a2 -> 2
                                   [] s = a3 -> 3 [] s = b1 -> 4]

RunSymmetry == Permutations(Run)
=============================================================================
