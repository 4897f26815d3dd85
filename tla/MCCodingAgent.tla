---------------------------- MODULE MCCodingAgent ----------------------------
(* Instances of CodingAgent for TLC.                                       *)
EXTENDS CodingAgent

AllScenarios ==
  { {}, {"crash"}, {"crash", "stray"}, {"twin", "idle"}, {"api", "idle"}, {"conflict", "idle"},
    {"late"}, {"crowd"}, {"killed", "idle"}, {"lost", "fails"}, {"bare", "idle", "conflict"} }

CutOffScenario == {{"crash", "idle"}}
DeafScenario == {{"api"}}

=============================================================================
