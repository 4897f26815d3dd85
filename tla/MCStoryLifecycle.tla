-------------------------- MODULE MCStoryLifecycle --------------------------
(* Instances of StoryLifecycle for TLC: calm weather, then the storms whose *)
(* parts act on each other.                                                 *)
EXTENDS StoryLifecycle

AllScenarios ==
  { {}, {"noop"}, {"loss", "watchdog"}, {"crash", "watchdog"},
    {"outage"}, {"outage", "watchdog"}, {"outage", "crash", "merge"},
    {"torn"}, {"late", "merge"}, {"review"}, {"escalate"}, {"reset"}, {"mark"},
    {"merge", "crash", "abandon"} }

OutageScenario == {{"outage"}}

=============================================================================
