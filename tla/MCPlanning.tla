----------------------------- MODULE MCPlanning -----------------------------
(* Instances of Planning for TLC.                                          *)
EXTENDS Planning

AllScenarios ==
  { {}, {"gate", "llm", "critic", "crash"}, {"gate", "outage", "llm"},
    {"gate", "drop", "llm"}, {"gate", "twice"}, {"gate", "torn", "llm"},
    {"withdraw"}, {"gate", "llm", "withdraw"}, {"gate", "early", "llm"},
    {"gate", "abandon"}, {"budget", "forge"}, {"gate", "astray"}, {"astray"},
    {"gate", "llm", "redis"} }

WithdrawScenario == {{"withdraw"}}
CrashScenario == {{"gate", "llm", "crash"}}

=============================================================================
