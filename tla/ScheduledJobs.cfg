SPECIFICATION FairSpec
CONSTANTS
  Jobs = {j1}
  Executions = {e1, e2}
  Owner = s8788
  Others = {s8787}
  MaxConcurrent = 1
  LockTtl = 1
  Delay = 1
  NoCatchup = {j1}
  CrashBound = 1
  Nobody = Nobody
  NoJob = NoJob
INVARIANTS
  TypeOK
  NoOverlap
  RunningIsOwned
PROPERTIES
  LateFinishKeepsOff
  OrphanIsReplaced
