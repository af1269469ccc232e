SPECIFICATION Spec
CHECK_DEADLOCK FALSE
CONSTANTS
  Tasks = {t}
  Callers = {c}
  MaxFaults = 0
INVARIANT CompletionIsReported
