----------------------------- MODULE MCAdmission -----------------------------
(* Instances of Admission for TLC.                                         *)
EXTENDS Admission

AllScenarios ==
  { {"kill"}, {"oom"}, {"retune"}, {"fails", "rush"}, {"limited", "coder"},
    {"limited", "coder", "boxed"}, {"capped", "coder"}, {"capped", "push"}, {"capped", "fails"},
    {"capped", "unread"} }

LimitedScenario == {{"limited"}}

=============================================================================
