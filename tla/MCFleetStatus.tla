---------------------------- MODULE MCFleetStatus ----------------------------
(* Two targets of a collection, two requests of the user for one session and *)
(* a connection test.                                                        *)
EXTENDS FleetStatus, TLC

MCRequests  == 1..5
MCTests     == {5}
MCPids      == 1..4
MCPidOf     == [r \in 1..5 |-> IF r < 4 THEN r ELSE r - 1]
MCScenarios == {{1, 2}, {3, 4}, {3, 5}}
=============================================================================
