SPECIFICATION Spec
CONSTANTS
  Worker = {w1, w2}
  MaxCommit = 2
  RetryMax = 1
  RecodeCap = 1
  WatchAttemptCap = 1
  Enabled = {"fail", "reply"}
CHECK_DEADLOCK FALSE
INVARIANT NoForgottenRound
