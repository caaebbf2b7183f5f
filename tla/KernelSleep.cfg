SPECIFICATION FairSpec
CONSTANTS
  t1 = t1
  t2 = t2
  t3 = t3
  t4 = t4
  s1 = s1
  Threads = {t1, t2, t3}
  Main = t1
  Idle = Idle
  None = None
  Locks = {}
  Semas = {}
  SemaInit <- NoSemas
  CondLock = None
  InitPriority <- PrioThree
  NewPriorities = {2}
  TIME_SLICE = 2
  MaxTicks = 3
  SleepTicks = {1, 2}
  MaxCalls <- Sleepers
  Ops = {"create", "sleep", "yield", "set_priority"}
PROPERTIES
  NoneLeftDue
  AllExit
\* A panic stops the kernel.
CHECK_DEADLOCK FALSE
