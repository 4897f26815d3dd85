SPECIFICATION Spec
CONSTANTS
  Worker = {w1, w2, w3}
  MaxCommit = 3
  RetryMax = 1
  RecodeCap = 2
  WatchAttemptCap = 1
  Enabled = {"fail", "refuse", "raise", "hold", "stall", "approval", "lost", "unread"}
CHECK_DEADLOCK FALSE
SYMMETRY WorkerSymmetry
INVARIANT GateSeesHead
INVARIANT MergedWasReviewed
INVARIANT NoForgottenRound
