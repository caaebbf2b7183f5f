SPECIFICATION Spec
CONSTANTS
  t1 = t1
  t2 = t2
  t3 = t3
  t4 = t4
  s1 = s1
  Threads = {t1, t2, t3}
  Main = t1
  Idle = Idle
  None = None
  Locks = {1}
  Semas = {s1}
  SemaInit <- SemaOne
  CondLock = 1
  InitPriority <- PrioThree
  NewPriorities = {}
  TIME_SLICE = 1
  MaxTicks = 1
  SleepTicks = {}
  MaxCalls <- Signallers
  Ops = {"create", "lock", "sema", "cond"}
INVARIANTS
  TypeOK
  NoLostWakeup
  SignalsAccounted
\* A panic stops the kernel.
CHECK_DEADLOCK FALSE
