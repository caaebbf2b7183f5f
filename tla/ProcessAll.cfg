SPECIFICATION Spec
CONSTANTS
  NProcs = 4
  Codes = {1}
  Deaths = {"exit", "abort", "kill"}
INVARIANTS
  ProcessTypeOK
  ChildAccounted
  WaitOnce
  FileSystemExclusive
PROPERTIES
  ExecReportsLoad
\* The machine is powered off, and a process may wait for ever.
CHECK_DEADLOCK FALSE
