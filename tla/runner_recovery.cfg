SPECIFICATION Spec
CHECK_DEADLOCK FALSE
CONSTANTS
  h = h
  Ops = {a}
  Callers = {}
  Endpoints = {h}
  EndpointOf <- OneEndpoint
  Commands = {"readonly", "reversible", "maintenance", "unknown", "network", "blocked"}
  Background = {a}
  MaxRollbacks = 2
  MaxCrashes = 1
  MaxAlters = 1
INVARIANTS TypeOK RecoveryBeforeChange RestoredIsReverted RollbackUsesBoundPlan AvailableHoldsChange
PROPERTIES RollbackNotRepeated ImplementsLifecycle
