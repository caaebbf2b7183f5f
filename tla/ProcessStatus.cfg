SPECIFICATION Spec
CONSTANTS
  NProcs = 2
  Codes = {1, 2}
  Deaths = {"exit"}
PROPERTIES
  StatusReturned
\* The machine is powered off, and a process may wait for ever.
CHECK_DEADLOCK FALSE
