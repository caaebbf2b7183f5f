SPECIFICATION Spec
CONSTANTS
  t1 = t1
  t2 = t2
  t3 = t3
  t4 = t4
  s1 = s1
  Threads = {t1, t2, t3, t4}
  Main = t1
  Idle = Idle
  None = None
  Locks = {1, 2}
  Semas = {}
  SemaInit <- NoSemas
  CondLock = None
  InitPriority <- PrioFour
  NewPriorities = {}
  TIME_SLICE = 1
  MaxTicks = 2
  SleepTicks = {}
  MaxCalls <- Donors
  Ops = {"create", "lock"}
INVARIANTS
  DonationsRelinquished
CHECK_DEADLOCK FALSE
