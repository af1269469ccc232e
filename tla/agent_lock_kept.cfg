SPECIFICATION Spec
CONSTANTS
  Tasks = {t, u}
  StepCount = 1
  NoTask = NoTask
INVARIANTS FailedFreesSession
