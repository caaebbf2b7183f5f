SPECIFICATION Spec
CONSTANTS
  p1 = p1
  p2 = p2
  p3 = p3
  None = None
  Pids = {p1, p2, p3}
  MAXJOBS = 2
  Garbage <- AnyValue
  Keys = {}
INVARIANTS
  AllReaped
\* The shell exits, or crashes.
CHECK_DEADLOCK FALSE
