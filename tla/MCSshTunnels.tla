---------------------------- MODULE MCSshTunnels ----------------------------
(* Two starts of one id that may overlap, and one tunnel that is tested while *)
(* it fails and recovers.                                                     *)
EXTENDS SshTunnels, TLC

MCLoads == {[kind |-> "local", starts |-> 2, events |-> 1, tests |-> 0]} \cup
           {[kind |-> k, starts |-> 1, events |-> 2, tests |-> 1] :
                k \in {"remote", "dynamic"}}
=============================================================================
