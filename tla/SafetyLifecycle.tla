-------------------------- MODULE SafetyLifecycle --------------------------
(***************************************************************************)
(* What a safety transaction promises, whatever carries it out: the        *)
(* record follows the state machine of docs/AI-OPS-SAFETY-TRANSACTIONS.md, *)
(* the host is changed only behind a verified recovery point, and the      *)
(* record never claims more than the host shows.  SafetyRunner is shown to *)
(* implement it.                                                           *)
(***************************************************************************)
CONSTANT Ops

VARIABLES
    record,     \* the state shown for each operation
    protected,  \* the operations that get a recovery point
    guarded,    \* those whose recovery point is made and verified
    host        \* what the operation's target holds

vars == <<record, protected, guarded, host>>

Init ==
    /\ record = [o \in Ops |-> "absent"]
    /\ protected = {} /\ guarded = {}
    /\ host = [o \in Ops |-> "original"]

(* the arrows of the state machine, each with what it claims of the host *)
Forward(o, r) ==
    CASE record[o] = "absent"                -> r = "preparing"
      [] record[o] = "preparing"             -> \/ r = "recovery-ready" /\ o \in guarded
                                                \/ r = "awaiting-confirmation" /\ o \notin protected
      [] record[o] = "recovery-ready"        -> r = "awaiting-confirmation"
      [] record[o] = "awaiting-confirmation" -> r = "executing"
      [] record[o] = "executing"             -> /\ host[o] = "changed"
                                                /\ r = IF o \in protected THEN "verification-passed"
                                                                          ELSE "kept"
      [] record[o] = "verification-passed"   -> r \in {"rollback-available", "rolling-back"}
      [] record[o] = "rollback-available"    -> r \in {"kept", "rolling-back"}
      [] record[o] = "rolling-back"          -> r = "restored" /\ host[o] = "restored"
      [] record[o] = "failed"                -> r = "rolling-back"
      [] OTHER                               -> FALSE

Closed == {"absent", "kept", "restored", "cancelled"}

(* a cancel closes the record only if nothing is left to roll back *)
Cancelled(o, r) ==
    \/ r = "cancelled" /\ record[o] \notin Closed
       /\ (o \in protected => host[o] # "changed")
    \/ r = "rollback-available" /\ record[o] = "rolling-back" /\ host[o] = "changed"

Report(o) ==
    /\ \/ Forward(o, record'[o])
       \/ record[o] \notin Closed /\ record'[o] = "failed"
       \/ Cancelled(o, record'[o])
    /\ host'[o] = host[o] /\ (o \in guarded' <=> o \in guarded)
    /\ o \in protected => o \in protected'
    /\ o \in protected' => o \in protected

(* the classifier decides before anything is saved *)
Classify(o) ==
    /\ record[o] = "absent" /\ record'[o] = "absent"
    /\ host'[o] = host[o] /\ (o \in guarded' <=> o \in guarded)

Same(o) ==
    /\ record'[o] = record[o] /\ (o \in protected' <=> o \in protected)

Guard(o) ==
    /\ Same(o) /\ record[o] = "preparing" /\ o \in protected
    /\ o \in guarded' /\ host'[o] = host[o]

Change(o) ==
    /\ Same(o) /\ record[o] = "executing" /\ (o \in protected => o \in guarded)
    /\ host[o] = "original" /\ host'[o] = "changed"
    /\ o \in guarded' <=> o \in guarded

Revert(o) ==
    /\ Same(o) /\ record[o] = "rolling-back" /\ o \in guarded
    /\ host'[o] = "restored" /\ o \in guarded'

Stay(o) ==
    Same(o) /\ host'[o] = host[o] /\ (o \in guarded' <=> o \in guarded)

(* operations move independently, and a restart may move several at once *)
Next == \A o \in Ops :
    Report(o) \/ Classify(o) \/ Guard(o) \/ Change(o) \/ Revert(o) \/ Stay(o)

Spec == Init /\ [][Next]_vars
============================================================================
