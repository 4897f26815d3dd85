------------------------------ MODULE SlotPool ------------------------------
(***************************************************************************)
(* What a concurrency cap promises, whatever counter implements it: a set  *)
(* of holders that never outgrows Capacity.  A holder joins while there is *)
(* room, leaves when its work is over, and a process that dies takes all   *)
(* its holders with it.  CoderFleet (the web process's coder slots) is     *)
(* shown to implement it; RoleSlots (the verdict workers' slots) is        *)
(* checked against it.                                                     *)
(***************************************************************************)
EXTENDS Naturals, FiniteSets

CONSTANTS Holder,     \* what may hold a slot: one run of an agent
          Capacity    \* the configured cap

VARIABLE holders      \* the holders working now

Init == holders = {}

Acquire(h) ==
  /\ h \notin holders
  /\ Cardinality(holders) < Capacity
  /\ holders' = holders \cup {h}

\* A batch of holders stops working: one run ends, or a process dies.
Release(H) ==
  /\ H # {}
  /\ holders' = holders \ H

Next == \/ \E h \in Holder : Acquire(h)
        \/ \E H \in SUBSET holders : Release(H)

Spec == Init /\ [][Next]_holders
=============================================================================
