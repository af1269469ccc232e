SPECIFICATION FairSpec
CHECK_DEADLOCK FALSE
CONSTANTS
  Tasks = {t}
  Callers = {c}
  MaxFaults = 1
INVARIANTS TypeOK StatusIsTrue NotifiedOnce
PROPERTIES SettledStays TaskSettles
