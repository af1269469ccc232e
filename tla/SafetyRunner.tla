--------------------------- MODULE SafetyRunner ---------------------------
(***************************************************************************)
(* The safety transactions of commands (createTransactionRunner in         *)
(* transaction-runner.js, the branches whose operationKind is not          *)
(* "side-effect").                                                         *)
(*                                                                         *)
(* A job is the call of prepare, execute, beginExternalExecution,          *)
(* completeExternalExecution, rollback, keep or revokeRecovery now running *)
(* for an operation: serialize lets one run per operation, and             *)
(* serializeEndpoint one per endpoint.  cancel takes neither lock, so its  *)
(* calls run beside the jobs.  pc[o] is the await at which o's job stands; *)
(* each action is what the code does from one await to the next.           *)
(*                                                                         *)
(* Left to chance: whether the endpoint still is the operation's, whether  *)
(* a remote phase or the cancellation of one succeeds, the user's calls    *)
(* and their options, edits of a persisted plan, and restarts.             *)
(***************************************************************************)
EXTENDS OperationStore, FiniteSets

CONSTANTS
    Endpoints,
    EndpointOf,     \* the endpoint each operation is bound to
    Commands,       \* the kinds of command that are proposed
    Background,     \* operations the entrypoint runs in background mode
    MaxRollbacks,   \* bound on the calls of rollback per operation
    MaxCrashes,     \* bound on the restarts of the renderer
    MaxAlters       \* bound on the edits of persisted plans

Kinds == {"readonly", "reversible", "maintenance", "unknown", "network", "blocked"}

ASSUME RunnerAssumption ==
    /\ EndpointOf \in [Ops -> Endpoints]
    /\ Commands \subseteq Kinds
    /\ Background \subseteq Ops
    /\ MaxRollbacks \in Nat /\ MaxCrashes \in Nat /\ MaxAlters \in Nat

VARIABLES
    (* the rest of the persisted record *)
    kind,      \* what the classifier says of the command
    plan,      \* the recovery plan, its binding and artifacts
    applied,   \* operations with rollbackAppliedAt
    external,  \* operations with an executionId
    receipt,   \* metadata.externalCompletion, the exit code it holds
    revoked,   \* operations with recoveryRevokedAt
    (* the jobs *)
    call, pc, target, phase, code, seen,
    (* the runner's memory *)
    lockq,     \* endpointQueues
    flags,     \* cancellationRequests
    bound,     \* boundRecoveries
    seq,       \* executionSequence, counted per operation
    asked,     \* operations whose active execution has cancelRequested
    orphans,   \* the executions an earlier run of the program left
    (* the calls of cancel *)
    cpc, cop, ctarget, cseq, cerr,
    (* the host *)
    host,      \* what the operation's target holds
    starts,    \* how often the operation's command was started
    ready,     \* operations whose prepare phase ended well on the host
    pty,       \* the command of an external execution
    (* the bounds' counters *)
    rollbacks, crashes, alters

recordVars == <<kind, plan, applied, external, receipt, revoked>>
jobVars == <<call, pc, target, phase, code, seen>>
memVars == <<lockq, flags, bound, seq, asked, orphans>>
cancelVars == <<cpc, cop, ctarget, cseq, cerr>>
hostVars == <<host, starts, ready, pty>>
countVars == <<rollbacks, crashes, alters>>
vars == <<storeVars, recordVars, jobVars, memVars, cancelVars, hostVars, countVars>>

Calls == {"prepare", "execute", "begin", "complete", "rollback", "keep", "revoke"}
Phases == {"prepare", "execute", "rollback", "verify"}
Codes == {"none", "zero", "nonzero"}
(* a write of the record, named for the state it leaves; two of them do    *)
(* more: the write of rollbackAppliedAt and that of failIntegrity          *)
Targets == (States \ {"absent"}) \cup {"rollback-applied", "integrity-failed", "revoked"}
Waits == {"idle", "save", "first", "lock", "get", "endpoint", "tget", "patch",
          "write", "gread", "postget", "check", "markget", "remote",
          "iget", "catch", "refused", "failget"}
CancelWaits == {"idle", "kill", "get1", "get2", "patch", "write"}

Init ==
    /\ StoreInit
    /\ kind = [o \in Ops |-> "unknown"]
    /\ plan = [o \in Ops |-> "none"]
    /\ applied = {} /\ external = {} /\ revoked = {}
    /\ receipt = [o \in Ops |-> "none"]
    /\ call = [o \in Ops |-> "prepare"]
    /\ pc = [o \in Ops |-> "idle"]
    /\ target = [o \in Ops |-> "preparing"]
    /\ phase = [o \in Ops |-> "prepare"]
    /\ code = [o \in Ops |-> "none"]
    /\ seen = [o \in Ops |-> "none"]
    /\ lockq = [e \in Endpoints |-> << >>]
    /\ flags = {} /\ bound = {} /\ asked = {} /\ orphans = {}
    /\ seq = [o \in Ops |-> 0]
    /\ cpc = [c \in Callers |-> "idle"]
    /\ cop = [c \in Callers |-> CHOOSE o \in Ops : TRUE]
    /\ ctarget = [c \in Callers |-> "cancelled"]
    /\ cseq = [c \in Callers |-> 0]
    /\ cerr = [c \in Callers |-> FALSE]
    /\ host = [o \in Ops |-> "original"]
    /\ starts = [o \in Ops |-> 0]
    /\ ready = {}
    /\ pty = [o \in Ops |-> "none"]
    /\ rollbacks = [o \in Ops |-> 0]
    /\ crashes = 0 /\ alters = 0

Reversible(o) == kind[o] \in {"reversible", "maintenance"}
RollbackStates == {"verification-passed", "rollback-available", "failed"}

(* its turn at the endpoint comes when those before it have left *)
AnyTurn(o) == TRUE
HasTurn(o) == Head(lockq[EndpointOf[o]]) = o
HoldsLock(o) == LET q == lockq[EndpointOf[o]] IN
    q # << >> /\ Head(q) = o /\ pc[o] # "lock"
KeepLock(o) == UNCHANGED lockq
Release(o) == lockq' =
    IF HoldsLock(o) THEN [lockq EXCEPT ![EndpointOf[o]] = Tail(@)] ELSE lockq

(* cancellationRequests.has(id) or the record just read is cancelled *)
StoppedByFlag(o) == o \in flags
Stopped(o) == o \in flags \/ state[o] = "cancelled"

(* what a job does next: the await it goes to *)
GoTo(o, p) == pc' = [pc EXCEPT ![o] = p]
(* it ends and gives its endpoint back *)
End(o) == GoTo(o, "idle") /\ Release(o)
(* it throws: the endpoint is given back before the catch reads the record *)
Throw(o, handler) == GoTo(o, handler) /\ Release(o)

---------------------------------------------------------------------------
(* The calls.  serialize holds a call back while another runs for o.       *)

Invoke(o, c, p) ==
    /\ pc[o] = "idle"
    /\ GoTo(o, p)
    /\ call' = [call EXCEPT ![o] = c]
    /\ Ask(o)
    /\ UNCHANGED <<state, patchq, plan, applied, external, receipt, revoked, target,
                   phase, seen, lockq, flags, seq, asked, orphans, cancelVars, hostVars,
                   crashes, alters>>

Prepare(o) ==
    /\ state[o] = "absent"
    /\ Invoke(o, "prepare", "save")
    /\ \E k \in Commands : kind' = [kind EXCEPT ![o] = k]
    /\ bound' = bound \ {o}
    /\ UNCHANGED <<code, rollbacks>>

CallJob(o) ==
    /\ state[o] # "absent"
    /\ \E c \in {"execute", "begin", "keep", "revoke"} : Invoke(o, c, "first")
    /\ UNCHANGED <<kind, bound, code, rollbacks>>

CallRollback(o) ==
    /\ state[o] # "absent" /\ rollbacks[o] < MaxRollbacks
    /\ Invoke(o, "rollback", "first")
    /\ rollbacks' = [rollbacks EXCEPT ![o] = @ + 1]
    /\ UNCHANGED <<kind, bound, code>>

(* an exit code is reported once the command ended, and again if the       *)
(* report is repeated; a lost terminal reports a running command as failed *)
Complete(o) ==
    /\ pty[o] \in {"running", "zero", "nonzero"}
    /\ Invoke(o, "complete", "first")
    /\ code' = [code EXCEPT ![o] = IF pty[o] = "running" THEN "nonzero" ELSE pty[o]]
    /\ UNCHANGED <<kind, bound, rollbacks>>

---------------------------------------------------------------------------
(* Entering a call, up to the endpoint check.                              *)

JoinEndpoint(o) ==
    /\ lockq' = [lockq EXCEPT ![EndpointOf[o]] = Append(@, o)]
    /\ GoTo(o, "lock")

Saved(o) ==
    /\ pc[o] = "save" /\ Answered(o)
    /\ state' = [state EXCEPT ![o] = "preparing"]
    /\ \/ kind[o] = "blocked" /\ GoTo(o, "catch") /\ AskAgain(o) /\ UNCHANGED lockq
       \/ kind[o] # "blocked" /\ JoinEndpoint(o) /\ AskNoMore
    /\ UNCHANGED <<patchq, recordVars, call, target, phase, code, seen, flags, bound,
                   seq, asked, orphans, cancelVars, hostVars, countVars>>

RetriesFailed(o) ==
    IF call[o] = "rollback" THEN state[o] \in RollbackStates /\ plan[o] # "none"
    ELSE IF call[o] = "keep" THEN state[o] = "rollback-available"
    ELSE call[o] # "revoke" /\ state[o] \in {"awaiting-confirmation", "failed"}
Admissible(o) ==
    CASE call[o] \in {"execute", "begin"} -> state[o] = "awaiting-confirmation"
      [] call[o] = "complete" -> state[o] = "executing" => o \in external
      [] call[o] = "rollback" -> state[o] \in RollbackStates /\ plan[o] # "none"
      [] call[o] = "keep" -> state[o] = "rollback-available"
      [] call[o] = "revoke" -> kind[o] = "maintenance" /\ state[o] \in {"failed", "cancelled"}
      [] OTHER -> FALSE

FirstRead(o) ==
    /\ pc[o] = "first" /\ Answered(o)
    /\ \/ /\ ~Admissible(o)
          /\ GoTo(o, "idle") /\ AskNoMore
          /\ UNCHANGED <<patchq, lockq, target, bound>>
       \/ /\ Admissible(o) /\ call[o] \in {"execute", "begin", "complete", "rollback"}
          /\ JoinEndpoint(o) /\ AskNoMore
          /\ UNCHANGED <<patchq, target, bound>>
       \/ /\ Admissible(o) /\ call[o] = "keep"
          /\ GoTo(o, "tget") /\ AskAgain(o)
          /\ target' = [target EXCEPT ![o] = "kept"]
          /\ UNCHANGED <<patchq, lockq, bound>>
       \/ /\ Admissible(o) /\ call[o] = "revoke"
          /\ GoTo(o, "patch") /\ EnqueuePatch(o, o)
          /\ target' = [target EXCEPT ![o] = "revoked"]
          /\ bound' = bound \ {o}
          /\ UNCHANGED lockq
    /\ UNCHANGED <<state, recordVars, call, phase, code, seen, flags, seq, asked,
                   orphans, cancelVars, hostVars, countVars>>

LockGranted(o) ==
    /\ pc[o] = "lock" /\ HasTurn(o)
    /\ GoTo(o, "get") /\ Ask(o)
    /\ UNCHANGED <<state, patchq, recordVars, call, target, phase, code, seen,
                   memVars, cancelVars, hostVars, countVars>>

(* the answer to a repeated completion: it is settled, it can be carried   *)
(* on from verification-passed, or it is refused                           *)
Resumable(o) ==
    /\ receipt[o] = code[o] /\ code[o] = "zero" /\ Reversible(o)
    /\ state[o] = "verification-passed"

Reread(o) ==
    /\ pc[o] = "get" /\ Answered(o)
    /\ seen' = [seen EXCEPT ![o] = plan[o]]
    /\ \/ /\ call[o] # "complete" /\ state[o] = "cancelled"
          /\ End(o) /\ AskNoMore /\ UNCHANGED target
       \/ /\ call[o] \in {"execute", "begin", "rollback"} /\ state[o] # "cancelled"
          /\ ~Admissible(o)
          /\ Throw(o, "catch") /\ AskAgain(o) /\ UNCHANGED target
       \/ /\ call[o] # "complete" /\ state[o] # "cancelled"
          /\ call[o] = "prepare" \/ Admissible(o)
          /\ GoTo(o, "endpoint") /\ AskNoMore /\ UNCHANGED <<lockq, target>>
       \/ /\ call[o] = "complete" /\ state[o] = "executing" /\ o \in external
          /\ GoTo(o, "endpoint") /\ AskNoMore
          /\ target' = [target EXCEPT ![o] =
                IF code[o] # "zero" THEN "failed"
                ELSE IF Reversible(o) THEN "verification-passed" ELSE "kept"]
          /\ UNCHANGED lockq
       \/ /\ call[o] = "complete" /\ state[o] # "executing" /\ Resumable(o)
          /\ GoTo(o, "endpoint") /\ AskNoMore
          /\ target' = [target EXCEPT ![o] = "rollback-available"]
          /\ UNCHANGED lockq
       \/ /\ call[o] = "complete"
          /\ IF state[o] = "executing" THEN o \notin external ELSE ~Resumable(o)
          /\ End(o) /\ AskNoMore /\ UNCHANGED target
    /\ UNCHANGED <<state, patchq, recordVars, call, phase, code, flags, bound, seq,
                   asked, orphans, cancelVars, hostVars, countVars>>

---------------------------------------------------------------------------
(* The endpoint check, and what each call requires before it writes.       *)

EndpointChanged(o) ==
    /\ pc[o] = "endpoint"
    /\ \/ call[o] # "complete" /\ Throw(o, "catch") /\ Ask(o)
       \/ call[o] = "complete" /\ End(o) /\ UNCHANGED dbq
    /\ UNCHANGED <<state, patchq, recordVars, call, target, phase, code, seen, flags,
                   bound, seq, asked, orphans, cancelVars, hostVars, countVars>>

SameEndpointPrepare(o) ==
    /\ pc[o] = "endpoint" /\ call[o] = "prepare"
    /\ \/ /\ o \in flags
          /\ End(o) /\ UNCHANGED <<dbq, target, phase>>
       \/ /\ o \notin flags /\ ~Reversible(o)
          /\ GoTo(o, "tget") /\ Ask(o)
          /\ target' = [target EXCEPT ![o] = "awaiting-confirmation"]
          /\ UNCHANGED <<lockq, phase>>
       \/ /\ o \notin flags /\ Reversible(o)         \* buildRecoveryPlan fails
          /\ Throw(o, "catch") /\ Ask(o) /\ UNCHANGED <<target, phase>>
       \/ /\ o \notin flags /\ Reversible(o)
          /\ GoTo(o, "markget") /\ Ask(o)
          /\ phase' = [phase EXCEPT ![o] = "prepare"]
          /\ UNCHANGED <<lockq, target>>
    /\ UNCHANGED <<state, patchq, recordVars, call, code, seen, flags, bound, seq,
                   asked, orphans, cancelVars, hostVars, countVars>>

(* requireBoundRecovery: the recovery of the record read is the remembered *)
(* one, or is remembered now                                               *)
RecoveryHolds(o) == seen[o] = "bound" /\ o \notin revoked
RecoveryAltered(o) == seen[o] = "altered" /\ o \notin revoked /\ o \in bound

SameEndpointChange(o) ==
    /\ pc[o] = "endpoint" /\ call[o] \in {"execute", "begin"}
    /\ \/ /\ IF Reversible(o) THEN RecoveryHolds(o) ELSE kind[o] \in {"readonly", "unknown"}
          /\ GoTo(o, "tget") /\ Ask(o)
          /\ target' = [target EXCEPT ![o] = "executing"]
          /\ bound' = IF Reversible(o) THEN bound \cup {o} ELSE bound
          /\ UNCHANGED lockq
       \/ /\ Reversible(o) /\ RecoveryAltered(o)
          /\ GoTo(o, "iget") /\ Ask(o) /\ UNCHANGED <<lockq, target, bound>>
       \/ /\ IF Reversible(o) THEN ~RecoveryHolds(o) /\ ~RecoveryAltered(o)
             ELSE kind[o] \in {"network", "blocked"}
          /\ Throw(o, "catch") /\ Ask(o) /\ UNCHANGED <<target, bound>>
       \/ /\ kind[o] = "unknown"                      \* allowUnsafe is not given
          /\ Throw(o, "refused") /\ Ask(o) /\ UNCHANGED <<target, bound>>
    /\ UNCHANGED <<state, patchq, recordVars, call, phase, code, seen, flags, seq,
                   asked, orphans, cancelVars, hostVars, countVars>>

SameEndpointRollback(o) ==
    /\ pc[o] = "endpoint" /\ call[o] = "rollback"
    /\ \/ /\ RecoveryHolds(o)
          /\ GoTo(o, "tget") /\ Ask(o)
          /\ target' = [target EXCEPT ![o] = "rolling-back"]
          /\ bound' = bound \cup {o}
          /\ UNCHANGED lockq
       \/ /\ RecoveryAltered(o)
          /\ GoTo(o, "iget") /\ Ask(o) /\ UNCHANGED <<lockq, target, bound>>
       \/ /\ ~RecoveryHolds(o) /\ ~RecoveryAltered(o)
          /\ Throw(o, "catch") /\ Ask(o) /\ UNCHANGED <<target, bound>>
    /\ UNCHANGED <<state, patchq, recordVars, call, phase, code, seen, flags, seq,
                   asked, orphans, cancelVars, hostVars, countVars>>

SameEndpointComplete(o) ==
    /\ pc[o] = "endpoint" /\ call[o] = "complete"
    /\ \/ /\ ~Reversible(o)
          /\ GoTo(o, "tget") /\ Ask(o) /\ UNCHANGED <<patchq, lockq, bound>>
       \/ /\ Reversible(o) /\ RecoveryHolds(o)
          /\ bound' = bound \cup {o}
          /\ IF target[o] = "rollback-available"
             THEN GoTo(o, "postget") /\ Ask(o) /\ UNCHANGED patchq
             ELSE GoTo(o, "gread") /\ StartPatch(o, o)
          /\ UNCHANGED lockq
       \/ /\ Reversible(o) /\ RecoveryAltered(o)
          /\ GoTo(o, "iget") /\ Ask(o) /\ UNCHANGED <<patchq, lockq, bound>>
       \/ /\ Reversible(o) /\ ~RecoveryHolds(o) /\ ~RecoveryAltered(o)
          /\ End(o) /\ UNCHANGED <<dbq, patchq, bound>>
    /\ UNCHANGED <<state, recordVars, call, target, phase, code, seen, flags, seq,
                   asked, orphans, cancelVars, hostVars, countVars>>

---------------------------------------------------------------------------
(* transition, guardedRecoveryTransition and the steps between writes.     *)

TransitionRead(o) ==
    /\ pc[o] = "tget" /\ Answered(o)
    /\ \/ Stopped(o) /\ End(o) /\ AskNoMore /\ UNCHANGED patchq
       \/ ~Stopped(o) /\ GoTo(o, "patch") /\ EnqueuePatch(o, o) /\ UNCHANGED lockq
    /\ UNCHANGED <<state, recordVars, call, target, phase, code, seen, flags, bound,
                   seq, asked, orphans, cancelVars, hostVars, countVars>>

PatchRead(o) ==
    /\ pc[o] = "patch" /\ Answered(o)
    /\ GoTo(o, "write") /\ AskAgain(o)
    /\ UNCHANGED <<state, patchq, recordVars, call, target, phase, code, seen,
                   memVars, cancelVars, hostVars, countVars>>

GuardedRead(o) ==
    /\ pc[o] = "gread" /\ Answered(o)
    /\ \/ /\ plan[o] # "bound"
          /\ GoTo(o, "iget") /\ SettlePatch(o, <<o>>) /\ UNCHANGED lockq
       \/ /\ plan[o] = "bound" /\ Stopped(o)
          /\ End(o) /\ SettlePatch(o, << >>)
       \/ /\ plan[o] = "bound" /\ ~Stopped(o)
          /\ GoTo(o, "write") /\ AskAgain(o) /\ UNCHANGED <<patchq, lockq>>
    /\ UNCHANGED <<state, recordVars, call, target, phase, code, seen, flags, bound,
                   seq, asked, orphans, cancelVars, hostVars, countVars>>

(* what the write of target[o] puts into the record *)
StateAsTarget(t) == t
StateAvailable(t) == IF t = "rollback-applied" THEN "rollback-available"
                     ELSE IF t = "integrity-failed" THEN "failed" ELSE t
StateOf(t) ==
    CASE t = "rollback-applied" -> "rolling-back"
      [] t = "integrity-failed" -> "failed"
      [] OTHER -> t
ClearsExecution == {"recovery-ready", "verification-passed", "kept", "failed",
                    "integrity-failed", "rollback-applied", "restored"}
WriteRecord(o) ==
    /\ state' = [state EXCEPT ![o] = IF target[o] = "revoked" THEN @ ELSE StateOf(target[o])]
    /\ plan' = IF target[o] \in {"recovery-ready", "integrity-failed"}
               THEN [plan EXCEPT ![o] = "bound"] ELSE plan
    /\ applied' = IF target[o] = "rollback-applied" THEN applied \cup {o} ELSE applied
    /\ external' = IF target[o] \in ClearsExecution /\ call[o] # "keep" THEN external \ {o}
                   ELSE IF target[o] = "executing" /\ call[o] = "begin"
                        THEN external \cup {o} ELSE external
    /\ receipt' = IF call[o] = "complete" /\ target[o] \in {"verification-passed", "kept", "failed"}
                  THEN [receipt EXCEPT ![o] = code[o]] ELSE receipt
    /\ revoked' = IF target[o] = "revoked" THEN revoked \cup {o} ELSE revoked

Written(o) ==
    /\ pc[o] = "write" /\ Answered(o) /\ WriteRecord(o)
    /\ UNCHANGED <<kind, call, code, seen, flags, seq, asked, orphans, cancelVars,
                   hostVars, countVars>>

WrittenRecoveryReady(o) ==
    /\ Written(o) /\ target[o] = "recovery-ready"
    /\ bound' = bound \cup {o}
    /\ target' = [target EXCEPT ![o] = "awaiting-confirmation"]
    /\ GoTo(o, "tget") /\ SettlePatch(o, <<o>>)
    /\ UNCHANGED <<phase, lockq>>

(* executing and rolling-back are read back before anything is run *)
WrittenBusy(o) ==
    /\ Written(o) /\ target[o] \in {"executing", "rolling-back"}
    /\ GoTo(o, "postget") /\ SettlePatch(o, <<o>>)
    /\ UNCHANGED <<target, phase, bound, lockq>>

(* the guarded write to rollback-available is queued at once *)
WrittenVerified(o) ==
    /\ Written(o) /\ target[o] = "verification-passed"
    /\ target' = [target EXCEPT ![o] = "rollback-available"]
    /\ GoTo(o, "gread")
    /\ patchq' = [patchq EXCEPT ![o] = Append(Tail(@), o)]
    /\ dbq' = Tail(dbq) \o (IF NextPatch(o) = << >> THEN <<o>> ELSE NextPatch(o))
    /\ UNCHANGED <<phase, bound, lockq>>

WrittenApplied(o) ==
    /\ Written(o) /\ target[o] = "rollback-applied"
    /\ phase' = [phase EXCEPT ![o] = "verify"]
    /\ GoTo(o, "markget") /\ SettlePatch(o, <<o>>)
    /\ UNCHANGED <<target, bound, lockq>>

WrittenLast(o) ==
    /\ Written(o)
    /\ target[o] \in {"awaiting-confirmation", "rollback-available", "kept", "restored",
                      "failed", "integrity-failed", "revoked"}
    /\ bound' = IF target[o] = "restored" \/ call[o] = "keep" THEN bound \ {o} ELSE bound
    /\ End(o) /\ SettlePatch(o, << >>)
    /\ UNCHANGED <<target, phase>>

(* postCheckBoundRecovery: read the record again, then check its binding;  *)
(* the digests are computed while the renderer does other things           *)
PostRead(o) ==
    /\ pc[o] = "postget" /\ Answered(o)
    /\ seen' = [seen EXCEPT ![o] = plan[o]]
    /\ \/ Reversible(o) /\ GoTo(o, "check") /\ AskNoMore /\ UNCHANGED <<lockq, phase, pty>>
       \/ /\ ~Reversible(o) /\ call[o] = "execute"
          /\ GoTo(o, "markget") /\ AskAgain(o)
          /\ phase' = [phase EXCEPT ![o] = "execute"]
          /\ UNCHANGED <<lockq, pty>>
       \/ /\ ~Reversible(o) /\ call[o] = "begin"
          /\ End(o) /\ AskNoMore
          /\ pty' = [pty EXCEPT ![o] = "granted"]
          /\ UNCHANGED phase
    /\ UNCHANGED <<state, patchq, recordVars, call, target, code, flags, bound, seq,
                   asked, orphans, cancelVars, host, starts, ready, countVars>>

Unchecked(o) == TRUE
Intact(o) == seen[o] = "bound"
RollbackAgain(o) == "rollback"
RollbackPhase(o) == IF o \in applied THEN "verify" ELSE "rollback"

RecoveryChecked(o) ==
    /\ pc[o] = "check"
    /\ \/ /\ ~Intact(o)
          /\ GoTo(o, "iget") /\ Ask(o) /\ UNCHANGED <<patchq, lockq, phase, pty>>
       \/ /\ Intact(o) /\ call[o] \in {"execute", "rollback"}
          /\ GoTo(o, "markget") /\ Ask(o)
          /\ phase' = [phase EXCEPT ![o] =
                IF call[o] = "execute" THEN "execute" ELSE RollbackPhase(o)]
          /\ UNCHANGED <<patchq, lockq, pty>>
       \/ /\ Intact(o) /\ call[o] = "begin"
          /\ End(o) /\ pty' = [pty EXCEPT ![o] = "granted"]
          /\ UNCHANGED <<dbq, patchq, phase>>
       \/ /\ Intact(o) /\ call[o] = "complete"
          /\ GoTo(o, "gread") /\ StartPatch(o, o) /\ UNCHANGED <<lockq, phase, pty>>
    /\ UNCHANGED <<state, recordVars, call, target, code, seen, flags, bound, seq,
                   asked, orphans, cancelVars, host, starts, ready, countVars>>

---------------------------------------------------------------------------
(* runMarkedPhase.  The command may have changed the host from its start   *)
(* on; a rollback that does not end well may or may not have taken effect. *)

PhaseStarts(o) ==
    /\ pc[o] = "markget" /\ Answered(o) /\ AskNoMore
    /\ \/ Stopped(o) /\ End(o) /\ UNCHANGED <<seq, asked, host, starts>>
       \/ /\ ~Stopped(o) /\ GoTo(o, "remote") /\ UNCHANGED lockq
          /\ seq' = [seq EXCEPT ![o] = @ + 1]
          /\ asked' = asked \ {o}
          /\ IF phase[o] = "execute"
             THEN /\ host' = [host EXCEPT ![o] = "changed"]
                  /\ starts' = [starts EXCEPT ![o] = @ + 1]
             ELSE UNCHANGED <<host, starts>>
    /\ UNCHANGED <<state, patchq, recordVars, call, target, phase, code, seen, flags,
                   bound, orphans, cancelVars, ready, pty, countVars>>

PartlyRolledBack(o) ==
    IF phase[o] = "rollback"
    THEN \E h \in {host[o], "restored"} : host' = [host EXCEPT ![o] = h]
    ELSE UNCHANGED host

AfterPhase(o) ==
    \/ /\ o \in asked /\ phase[o] # "prepare"
       /\ End(o) /\ UNCHANGED <<dbq, patchq, target>>
    \/ /\ phase[o] = "prepare"
       /\ target' = [target EXCEPT ![o] = "recovery-ready"]
       /\ GoTo(o, "tget") /\ Ask(o) /\ UNCHANGED <<patchq, lockq>>
    \/ /\ o \notin asked /\ phase[o] = "execute" /\ ~Reversible(o)
       /\ target' = [target EXCEPT ![o] = "kept"]
       /\ GoTo(o, "tget") /\ Ask(o) /\ UNCHANGED <<patchq, lockq>>
    \/ /\ o \notin asked
       /\ phase[o] \in {"rollback", "verify"} \/ (phase[o] = "execute" /\ Reversible(o))
       /\ target' = [target EXCEPT ![o] =
             CASE phase[o] = "execute" -> "verification-passed"
               [] phase[o] = "rollback" -> "rollback-applied"
               [] phase[o] = "verify" -> "restored"]
       /\ GoTo(o, "gread") /\ StartPatch(o, o) /\ UNCHANGED lockq

(* the verification of a rollback compares the host with the recovery point *)
PhasePasses(o) ==
    /\ pc[o] = "remote"
    /\ phase[o] = "verify" => host[o] = "restored"
    /\ host' = IF phase[o] = "rollback" THEN [host EXCEPT ![o] = "restored"] ELSE host
    /\ ready' = IF phase[o] = "prepare" THEN ready \cup {o} ELSE ready
    /\ AfterPhase(o)
    /\ UNCHANGED <<state, recordVars, call, phase, code, seen, flags, bound, seq, asked,
                   orphans, cancelVars, starts, pty, countVars>>

(* the marker with the phase's exit code is not looked for *)
MarkerIgnored(o) ==
    /\ pc[o] = "remote"
    /\ PartlyRolledBack(o)
    /\ AfterPhase(o)
    /\ UNCHANGED <<state, recordVars, call, phase, code, seen, flags, bound, seq, asked,
                   orphans, cancelVars, starts, ready, pty, countVars>>
PhaseFails(o) ==
    /\ pc[o] = "remote"
    /\ PartlyRolledBack(o)
    /\ \/ o \in asked \cup flags /\ End(o) /\ UNCHANGED dbq
       \/ o \notin asked \cup flags /\ Throw(o, "catch") /\ Ask(o)
    /\ UNCHANGED <<state, patchq, recordVars, call, target, phase, code, seen, flags,
                   bound, seq, asked, orphans, cancelVars, starts, ready, pty, countVars>>

---------------------------------------------------------------------------
(* The catch blocks, fail and failIntegrity.                               *)

Caught(o) ==
    /\ pc[o] \in {"catch", "refused"} /\ Answered(o)
    /\ \/ /\ Stopped(o) \/ (pc[o] = "refused" /\ state[o] = "awaiting-confirmation")
          /\ GoTo(o, "idle") /\ AskNoMore
       \/ /\ ~Stopped(o) /\ ~(pc[o] = "refused" /\ state[o] = "awaiting-confirmation")
          /\ GoTo(o, "failget") /\ AskAgain(o)
    /\ UNCHANGED <<state, patchq, recordVars, call, target, phase, code, seen,
                   memVars, cancelVars, hostVars, countVars>>

FailRead(o) ==
    /\ pc[o] = "failget" /\ Answered(o)
    /\ \/ Stopped(o) /\ GoTo(o, "idle") /\ AskNoMore /\ UNCHANGED target
       \/ /\ ~Stopped(o) /\ GoTo(o, "tget") /\ AskAgain(o)
          /\ target' = [target EXCEPT ![o] = "failed"]
    /\ UNCHANGED <<state, patchq, recordVars, call, phase, code, seen, memVars,
                   cancelVars, hostVars, countVars>>

IntegrityRead(o) ==
    /\ pc[o] = "iget" /\ Answered(o)
    /\ GoTo(o, "tget") /\ AskAgain(o)
    /\ target' = [target EXCEPT ![o] = "integrity-failed"]
    /\ UNCHANGED <<state, patchq, recordVars, call, phase, code, seen, memVars,
                   cancelVars, hostVars, countVars>>

---------------------------------------------------------------------------
(* cancel: it takes no lock, and a second call may run beside the first.   *)

Cancel(c, o) ==
    /\ cpc[c] = "idle" /\ state[o] # "absent"
    /\ flags' = flags \cup {o}
    /\ cop' = [cop EXCEPT ![c] = o]
    /\ cerr' = [cerr EXCEPT ![c] = FALSE]
    /\ \/ /\ pc[o] = "remote"
          /\ asked' = asked \cup {o}
          /\ cseq' = [cseq EXCEPT ![c] = seq[o]]
          /\ cpc' = [cpc EXCEPT ![c] = "kill"] /\ UNCHANGED dbq
       \/ /\ pc[o] # "remote"
          /\ cpc' = [cpc EXCEPT ![c] = "get1"] /\ Ask(c)
          /\ UNCHANGED <<asked, cseq>>
    /\ UNCHANGED <<state, patchq, recordVars, jobVars, lockq, bound, seq, orphans,
                   ctarget, hostVars, countVars>>

(* cancelRemote settles; either way the phase it was called for is released *)
CancelRemote(c) ==
    LET o == cop[c] IN
    /\ cpc[c] = "kill"
    /\ \E failed \in BOOLEAN : cerr' = [cerr EXCEPT ![c] = failed]
    /\ cpc' = [cpc EXCEPT ![c] = "get1"] /\ Ask(c)
    /\ IF pc[o] = "remote" /\ seq[o] = cseq[c]
       THEN End(o) /\ PartlyRolledBack(o)
       ELSE UNCHANGED <<pc, lockq, host>>
    /\ UNCHANGED <<state, patchq, recordVars, call, target, phase, code, seen, flags,
                   bound, seq, asked, orphans, cop, ctarget, cseq, starts, ready, pty,
                   countVars>>

FlagKept(c) == UNCHANGED flags
FlagCleared(c) == flags' = flags \ {cop[c]}

CancelRead(c) ==
    /\ cpc[c] = "get1" /\ Answered(c)
    /\ \/ /\ state[cop[c]] \in Cancellable
          /\ cpc' = [cpc EXCEPT ![c] = "get2"] /\ AskAgain(c) /\ UNCHANGED flags
       \/ /\ state[cop[c]] \notin Cancellable
          /\ cpc' = [cpc EXCEPT ![c] = "idle"] /\ AskNoMore /\ FlagCleared(c)
    /\ UNCHANGED <<state, patchq, recordVars, jobVars, lockq, bound, seq, asked, orphans,
                   cop, ctarget, cseq, cerr, hostVars, countVars>>

(* cancelState: the record is read once more and the outcome is fixed here *)
PreservesRecovery(o) == plan[o] # "none" /\ state[o] \in {"executing", "rolling-back"}
CancelOutcome(o, failed) ==
    IF ~failed /\ PreservesRecovery(o) /\ state[o] = "rolling-back" THEN "rollback-available"
    ELSE IF failed \/ PreservesRecovery(o) THEN "failed" ELSE "cancelled"

CancelState(c) ==
    /\ cpc[c] = "get2" /\ Answered(c)
    /\ ctarget' = [ctarget EXCEPT ![c] = CancelOutcome(cop[c], cerr[c])]
    /\ cpc' = [cpc EXCEPT ![c] = "patch"] /\ EnqueuePatch(c, cop[c])
    /\ UNCHANGED <<state, recordVars, jobVars, memVars, cop, cseq, cerr, hostVars, countVars>>

CancelPatchRead(c) ==
    /\ cpc[c] = "patch" /\ Answered(c)
    /\ cpc' = [cpc EXCEPT ![c] = "write"] /\ AskAgain(c)
    /\ UNCHANGED <<state, patchq, recordVars, jobVars, memVars, cop, ctarget, cseq, cerr,
                   hostVars, countVars>>

CancelWritten(c) ==
    LET o == cop[c] IN
    /\ cpc[c] = "write" /\ Answered(c)
    /\ state' = [state EXCEPT ![o] = ctarget[c]]
    /\ external' = external \ {o}
    /\ FlagCleared(c)
    /\ bound' = IF ctarget[c] = "cancelled" THEN bound \ {o} ELSE bound
    /\ cpc' = [cpc EXCEPT ![c] = "idle"] /\ SettlePatch(o, << >>)
    /\ UNCHANGED <<kind, plan, applied, receipt, revoked, jobVars, lockq, seq, asked, orphans,
                   cop, ctarget, cseq, cerr, hostVars, countVars>>

---------------------------------------------------------------------------
(* The world around the runner: the terminal that runs an external         *)
(* execution, other writers of the record, and restarts of the renderer.   *)

PtySubmit(o) ==
    /\ pty[o] = "granted"
    /\ pty' = [pty EXCEPT ![o] = "running"]
    /\ host' = [host EXCEPT ![o] = "changed"]
    /\ starts' = [starts EXCEPT ![o] = @ + 1]
    /\ UNCHANGED <<storeVars, recordVars, jobVars, memVars, cancelVars, ready, countVars>>

PtyEnds(o) ==
    /\ pty[o] = "running"
    /\ \E k \in {"zero", "nonzero"} : pty' = [pty EXCEPT ![o] = k]
    /\ UNCHANGED <<storeVars, recordVars, jobVars, memVars, cancelVars, host, starts,
                   ready, countVars>>

(* another patch of the record that changes its recovery plan *)
Alter(o) ==
    /\ alters < MaxAlters /\ plan[o] = "bound" /\ patchq[o] = << >>
    /\ plan' = [plan EXCEPT ![o] = "altered"]
    /\ alters' = alters + 1
    /\ UNCHANGED <<storeVars, kind, applied, external, receipt, revoked, jobVars, memVars,
                   cancelVars, hostVars, rollbacks, crashes>>

(* the window is closed or reloaded: the jobs and the runner's memory are  *)
(* gone, and nobody is left to report how a running command ended          *)
Crash ==
    /\ crashes < MaxCrashes
    /\ crashes' = crashes + 1
    /\ LoseRequests
    /\ pc' = [o \in Ops |-> "idle"]
    /\ lockq' = [e \in Endpoints |-> << >>]
    /\ flags' = {} /\ bound' = {} /\ asked' = {}
    /\ cpc' = [c \in Callers |-> "idle"]
    /\ orphans' = {o \in Background : state[o] = "executing" /\ o \in external}
    /\ \E h \in [Ops -> {"original", "changed", "restored"}] :
          /\ \A o \in Ops : h[o] = host[o] \/ (h[o] = "restored" /\ pc[o] = "remote" /\ phase[o] = "rollback")
          /\ host' = h
    /\ pty' = [o \in Ops |-> "none"]
    /\ UNCHANGED <<state, recordVars, call, target, phase, code, seen, seq, cop, ctarget,
                   cseq, cerr, starts, ready, rollbacks, alters>>

(* recoverOrphanedCommandOperations, the guarded patch of one record *)
RecoverOrphan(o) ==
    /\ o \in orphans /\ patchq[o] = << >>
    /\ orphans' = orphans \ {o}
    /\ IF state[o] = "executing" /\ o \in external
       THEN state' = [state EXCEPT ![o] = "failed"] /\ external' = external \ {o}
       ELSE UNCHANGED <<state, external>>
    /\ UNCHANGED <<dbq, patchq, kind, plan, applied, receipt, revoked, jobVars, lockq, flags,
                   bound, seq, asked, cancelVars, hostVars, countVars>>

---------------------------------------------------------------------------
JobStep(o) ==
    \/ Saved(o) \/ FirstRead(o) \/ LockGranted(o) \/ Reread(o)
    \/ EndpointChanged(o) \/ SameEndpointPrepare(o) \/ SameEndpointChange(o)
    \/ SameEndpointRollback(o) \/ SameEndpointComplete(o)
    \/ TransitionRead(o) \/ PatchRead(o) \/ GuardedRead(o)
    \/ WrittenRecoveryReady(o) \/ WrittenBusy(o) \/ WrittenVerified(o)
    \/ WrittenApplied(o) \/ WrittenLast(o)
    \/ PostRead(o) \/ RecoveryChecked(o)
    \/ PhaseStarts(o) \/ PhasePasses(o) \/ PhaseFails(o)
    \/ Caught(o) \/ FailRead(o) \/ IntegrityRead(o)

CancelStep(c) ==
    CancelRemote(c) \/ CancelRead(c) \/ CancelState(c) \/ CancelPatchRead(c) \/ CancelWritten(c)

UserStep(o) == Prepare(o) \/ CallJob(o) \/ CallRollback(o) \/ Complete(o)

WorldStep(o) == PtySubmit(o) \/ PtyEnds(o) \/ Alter(o) \/ RecoverOrphan(o)

Next ==
    \/ \E o \in Ops : UserStep(o) \/ JobStep(o) \/ WorldStep(o)
    \/ \E c \in Callers : CancelStep(c) \/ \E o \in Ops : Cancel(c, o)
    \/ Crash

Spec == Init /\ [][Next]_vars

(* every answer arrives, every remote phase and its cancellation settle *)
Fairness ==
    /\ \A o \in Ops : WF_vars(JobStep(o))
    /\ \A c \in Callers : WF_vars(CancelStep(c))

FairSpec == Spec /\ Fairness

---------------------------------------------------------------------------
(* Properties. *)

(* Every variable keeps to its set. *)
TypeOK ==
    /\ StoreTypeOK
    /\ kind \in [Ops -> Kinds]
    /\ plan \in [Ops -> {"none", "bound", "altered"}]
    /\ applied \subseteq Ops /\ external \subseteq Ops /\ revoked \subseteq Ops
    /\ receipt \in [Ops -> Codes]
    /\ call \in [Ops -> Calls] /\ pc \in [Ops -> Waits] /\ target \in [Ops -> Targets]
    /\ phase \in [Ops -> Phases] /\ code \in [Ops -> Codes]
    /\ seen \in [Ops -> {"none", "bound", "altered"}]
    /\ lockq \in [Endpoints -> Seq(Ops)]
    /\ flags \subseteq Ops /\ bound \subseteq Ops /\ asked \subseteq Ops
    /\ orphans \subseteq Ops
    /\ seq \in [Ops -> Nat]
    /\ cpc \in [Callers -> CancelWaits] /\ cop \in [Callers -> Ops]
    /\ ctarget \in [Callers -> {"rollback-available", "failed", "cancelled"}]
    /\ cseq \in [Callers -> Nat] /\ cerr \in [Callers -> BOOLEAN]
    /\ host \in [Ops -> {"original", "changed", "restored"}]
    /\ starts \in [Ops -> Nat] /\ ready \subseteq Ops
    /\ pty \in [Ops -> {"none", "granted", "running", "zero", "nonzero"}]
    /\ rollbacks \in [Ops -> Nat] /\ crashes \in Nat /\ alters \in Nat

(* A reversible operation's command is not started, by the runner or by    *)
(* the terminal, unless the recovery point was made and verified first.    *)
RecoveryBeforeChange ==
    \A o \in Ops : Reversible(o) /\ host[o] # "original" => o \in ready

(* However calls, cancellations and restarts fall, a confirmed command is  *)
(* started once at most.                                                   *)
StartedOnce == \A o \in Ops : starts[o] <= 1

(* A record says restored only when the host was put back.                 *)
RestoredIsReverted ==
    \A o \in Ops : state[o] = "restored" => host[o] = "restored"

(* No record is closed as cancelled over a change that only its rollback   *)
(* could undo: docs/AI-OPS-SAFETY-TRANSACTIONS.md:48 says of cancelled     *)
(* that a change already made must still be rolled back, and rollback      *)
(* refuses a cancelled record.                                             *)
CancelledLeavesNoChange ==
    \A o \in Ops : Reversible(o) /\ state[o] = "cancelled" /\ pc[o] = "idle"
        => host[o] # "changed"

(* Two phases never run on one endpoint at the same time.                  *)
OnePhasePerEndpoint ==
    \A o, p \in Ops : pc[o] = "remote" /\ pc[p] = "remote"
        /\ EndpointOf[o] = EndpointOf[p] => o = p

(* The plan a running rollback was taken from is the one bound to the      *)
(* operation, whatever was done to the record meanwhile.                   *)
RollbackUsesBoundPlan ==
    \A o \in Ops : pc[o] = "remote" /\ phase[o] \in {"rollback", "verify"} => seen[o] = "bound"

(* A cancellation request does not outlive the calls that made it.         *)
FlagsAreOwned ==
    \A o \in flags : \E c \in Callers : cop[c] = o /\ cpc[c] # "idle"

(* the callers that have read o's record for a patch and not yet written   *)
Writing(o) == {x \in Ops : x = o /\ pc[x] = "write"}
              \cup {c \in Callers : cop[c] = o /\ cpc[c] = "write"}
(* Between the read and the write of a patch no other patch of the record  *)
(* is applied (enqueuePatch), so no field of a record is lost.             *)
OneWriter == \A o \in Ops : Cardinality(Writing(o)) <= 1

(* A cancelled record is never brought back.                               *)
CancelledIsFinal ==
    [][\A o \in Ops : state[o] = "cancelled" => state'[o] = "cancelled"]_vars

(* Once rollbackAppliedAt is persisted the rollback command is not run     *)
(* again.                                                                  *)
RollbackNotRepeated ==
    [][\A o \in Ops : pc[o] # "remote" /\ pc'[o] = "remote" /\ phase[o] = "rollback"
        => o \notin applied]_vars

(* Every call of prepare, execute, rollback... returns and gives its turn  *)
(* at the endpoint back, whatever becomes of the calls before it.          *)
CallsReturn == \A o \in Ops : pc[o] # "idle" ~> pc[o] = "idle"
(* Every cancel returns, also behind the patches of the job it cancels.    *)
CancelsReturn == \A c \in Callers : cpc[c] # "idle" ~> cpc[c] = "idle"

(* When a cancel returns, the operation's command is not started after it: *)
(* the command is started only while its record says executing.            *)
(* docs/AI-OPS-SAFETY-TRANSACTIONS.md:99 has the user cancel and wait for  *)
(* the confirmation that the command has stopped.                          *)
StopsAfterCancel ==
    [][\A o \in Ops : pc[o] = "markget" /\ pc'[o] = "remote" /\ phase[o] = "execute"
        => state[o] = "executing"]_vars

(* rollback-available promises a change that was made and is still there.  *)
AvailableHoldsChange ==
    \A o \in Ops : state[o] = "rollback-available" => host[o] = "changed"

(* Where nobody cancels, the runner keeps the promise of SafetyLifecycle:  *)
(* its records follow the documented state machine and never claim a       *)
(* change, a reversal or a recovery point that the host does not show.     *)
Lifecycle == INSTANCE SafetyLifecycle WITH
    record <- state, protected <- {o \in Ops : Reversible(o)}, guarded <- ready
ImplementsLifecycle == Lifecycle!Spec
============================================================================
