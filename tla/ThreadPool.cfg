\* Two workers, one request for the CPU, two of slow I/O, one call of uv_cancel.
SPECIFICATION FairSpec
CONSTANTS
  Workers = {w1, w2}
  CpuReqs = {c1}
  SlowReqs = {s1, s2}
  Loop = loop
  Free = Free
  NoReq = NoReq
  SlowMsg = SlowMsg
  ExitMsg = ExitMsg
  MaxCancels = 1
INVARIANTS TypeOK RequestsKept NoForgottenWork
PROPERTIES CpuWorkRuns EveryRequestDone CleanupReturns
