SPECIFICATION Spec
CHECK_DEADLOCK FALSE
CONSTANTS
  h = h
  Ops = {a}
  Callers = {c1}
  Endpoints = {h}
  EndpointOf <- OneEndpoint
  Commands = {"reversible"}
  Background = {}
  MaxRollbacks = 1
  MaxCrashes = 0
  MaxAlters = 0
INVARIANT CancelledLeavesNoChange
