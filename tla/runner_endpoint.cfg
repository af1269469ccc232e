SPECIFICATION FairSpec
CHECK_DEADLOCK FALSE
CONSTANTS
  h = h
  Ops = {a, b}
  Callers = {}
  Endpoints = {h}
  EndpointOf <- OneEndpoint
  Commands = {"readonly"}
  Background = {}
  MaxRollbacks = 0
  MaxCrashes = 0
  MaxAlters = 0
INVARIANTS OnePhasePerEndpoint
PROPERTIES CallsReturn
