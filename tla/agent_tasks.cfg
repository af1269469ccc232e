SPECIFICATION FairSpec
CONSTANTS
  Tasks = {t, u}
  StepCount = 2
  NoTask = NoTask
INVARIANTS TypeOK OneRunPerSession CancelledHasStopped StepsMatchStatus LiveTaskSpared
PROPERTIES NoStepAfterCancel CancelsReturn SessionFreed
