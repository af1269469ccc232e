-------------------------- MODULE MCSafetyRunner --------------------------
(* The instances of SafetyRunner that TLC checks: every operation is bound *)
(* to the one endpoint h, the case in which they wait for each other.      *)
EXTENDS SafetyRunner

CONSTANT h

OneEndpoint == [o \in Ops |-> h]

============================================================================
