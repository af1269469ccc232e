SPECIFICATION FairSpec
CHECK_DEADLOCK FALSE
CONSTANTS
  h = h
  Ops = {a}
  Callers = {c1}
  Endpoints = {h}
  EndpointOf <- OneEndpoint
  Commands = {"readonly", "reversible", "maintenance", "unknown", "network", "blocked"}
  Background = {a}
  MaxRollbacks = 1
  MaxCrashes = 1
  MaxAlters = 0
INVARIANTS StartedOnce FlagsAreOwned OneWriter
PROPERTIES CancelledIsFinal CancelsReturn
