SPECIFICATION Spec
CONSTANTS
  Worker = {w1, w2}
  MaxCommit = 2
  RetryMax = 0
  RecodeCap = 0
  WatchAttemptCap = 1
  Enabled = {"push", "behind", "gate_raise", "kill", "watchdog", "overtake", "retry"}
SYMMETRY WorkerSymmetry
CHECK_DEADLOCK FALSE
INVARIANT TypeOK
INVARIANT OneGate
