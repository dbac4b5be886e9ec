SPECIFICATION FairSpec
CONSTANTS
  Tasks = {t1}
  ImageTasks = {t1}
  Servers = {s1, s2}
  Executions = {e1, e2}
  MaxAttempts = 2
  Slots = 1
  RenewBound = 1
  CrashBound = 1
  NoTask = NoTask
INVARIANTS TypeOK OneExecution BoundedAttempts
PROPERTIES EndStands TasksSettle
