----------------------------- MODULE AgentTasks -----------------------------
(***************************************************************************)
(* Diagnostic tasks of the AI agent: task-runner.js runs the read-only     *)
(* steps of a confirmed plan, agent-task-controller.js drives it, and      *)
(* agent-task-registry.js lets one task at a time hold an SSH session,     *)
(* cancels tasks and settles those an earlier run of the program left.     *)
(*                                                                         *)
(* The tasks here are those of one session.  Beside each other run, for    *)
(* one task: confirmAndRun (pc), the registry's cancel, of which a task    *)
(* has one at a time (cpc), the step's timer and the command on the host;  *)
(* and, for all tasks, one pass of recoverOrphanedAgentTasks.  An action   *)
(* goes from one await to the next.  A patch is one action, the answer to  *)
(* its write: patches of a record do not overlap (OperationStore), and no  *)
(* two of the processes here patch a task from what they read before,      *)
(* except the recovery, whose reading is kept in `seen`.                   *)
(***************************************************************************)
EXTENDS Naturals

CONSTANTS
    Tasks,
    StepCount,   \* the steps of each plan
    NoTask       \* where the recovery patches nothing

ASSUME TasksAssumption == StepCount \in Nat \ {0} /\ NoTask \notin Tasks

Steps == 1..StepCount

VARIABLES
    (* the record and the host *)
    status, steps,   \* the task's status, the status of each step
    host,            \* tasks of which a command is alive on the host
    (* confirmAndRun and the step that runs *)
    pc, at,          \* the await it is at, and the step
    stop,            \* stopReason of the active execution
    aborted,         \* tasks whose AbortController has fired
    flags,           \* cancellationRequests
    (* the registry *)
    entries,         \* the tasks registered
    unconfirmed,     \* those of them whose cancellationFailed is set
    cpc,             \* the await the task's cancel is at
    cfailed,         \* tasks whose cancel has a cancellationFailure
    destroyed,       \* tasks whose owner awaits the cancel to free them
    doubt,           \* tasks whose remoteState is unknown: a stop has failed
    (* the recovery *)
    scan, patching, seen \* tasks to look at, the one it patches, their steps when listed

recordVars == <<status, steps>>
runVars == <<pc, at>>
cancelVars == <<cpc, cfailed, destroyed>>
registryVars == <<entries, unconfirmed>>
recoveryVars == <<scan, patching, seen>>
vars == <<recordVars, host, runVars, stop, aborted, flags, registryVars, cancelVars, doubt,
          recoveryVars>>

Final == {"completed", "failed", "cancelled", "partially-completed"}
Statuses == Final \cup {"absent", "draft", "awaiting-plan-confirmation",
                        "awaiting-change-confirmation", "running-readonly"}
StepStatuses == {"pending", "running", "completed", "failed", "cancelled"}

(* the awaits of run, those of the controller around it, and its end *)
InRun == {"starting", "refuse", "dismiss", "mark", "check", "begin", "remote",
          "complete", "fail", "stop", "finish"}
Awaits == InRun \cup {"idle", "saving", "planning", "confirming", "caught", "ended"}
Pending == [s \in Steps |-> "pending"]

Init ==
    /\ status = [t \in Tasks |-> "absent"] /\ steps = [t \in Tasks |-> Pending]
    /\ host = {} /\ pc = [t \in Tasks |-> "idle"] /\ at = [t \in Tasks |-> 1]
    /\ stop = [t \in Tasks |-> "none"] /\ aborted = {} /\ flags = {}
    /\ entries = {} /\ unconfirmed = {}
    /\ cpc = [t \in Tasks |-> "idle"] /\ cfailed = {} /\ destroyed = {} /\ doubt = {}
    /\ scan = {} /\ patching = NoTask /\ seen = [t \in Tasks |-> Pending]

---------------------------------------------------------------------------
(* What is written. *)

FailedStatus(ss) ==
    IF \E s \in Steps : ss[s] = "completed" THEN "partially-completed" ELSE "failed"

Writes(t, st) == status' = [status EXCEPT ![t] = st]
StepIs(t, ss) == steps' = [steps EXCEPT ![t][at[t]] = ss]

FailStatusOnly(t) == Writes(t, FailedStatus(steps[t])) /\ UNCHANGED steps
FailStep(t) == Writes(t, FailedStatus(steps[t])) /\ StepIs(t, "failed")

Goes(t, p) == pc' = [pc EXCEPT ![t] = p]

(* a cancel or an abort has asked the task to stop *)
Wanted(t) == t \in flags \cup aborted

---------------------------------------------------------------------------
(* confirmAndRun before the task is registered: create and confirmPlan.    *)

Create(t) ==
    /\ pc[t] = "idle" /\ Goes(t, "saving")
    /\ UNCHANGED <<recordVars, host, at, stop, aborted, flags, registryVars, cancelVars,
                   doubt, recoveryVars>>

Saved(t) ==
    /\ pc[t] = "saving" /\ Writes(t, "draft") /\ Goes(t, "planning")
    /\ UNCHANGED <<steps, host, at, stop, aborted, flags, registryVars, cancelVars, doubt,
                   recoveryVars>>

Planned(t) ==
    /\ pc[t] = "planning" /\ Writes(t, "awaiting-plan-confirmation") /\ Goes(t, "confirming")
    /\ UNCHANGED <<steps, host, at, stop, aborted, flags, registryVars, cancelVars, doubt,
                   recoveryVars>>

(* the task joins the registry unless another holds the session *)
OnlyItself(t) == t \in entries
Conflicting(t) == entries # {}

Confirmed(t) ==
    /\ pc[t] = "confirming"
    /\ IF Conflicting(t) THEN Goes(t, "ended") /\ UNCHANGED entries
       ELSE Goes(t, "starting") /\ entries' = entries \cup {t}
    /\ UNCHANGED <<recordVars, host, at, stop, aborted, flags, unconfirmed, cancelVars, doubt,
                   recoveryVars>>

---------------------------------------------------------------------------
(* run: the checks before the first step.                                  *)

Run(t) ==
    /\ pc[t] = "starting"
    /\ \/ Goes(t, "refuse")               \* the plan is not the one confirmed
       \/ Goes(t, "fail")                 \* not the endpoint of the plan
       \/ Goes(t, IF Wanted(t) THEN "dismiss" ELSE "mark")
    /\ UNCHANGED <<recordVars, host, at, stop, aborted, flags, registryVars, cancelVars, doubt,
                   recoveryVars>>

Refused(t) ==
    /\ pc[t] = "refuse" /\ Writes(t, "awaiting-change-confirmation") /\ Goes(t, "caught")
    /\ UNCHANGED <<steps, host, at, stop, aborted, flags, registryVars, cancelVars, doubt,
                   recoveryVars>>

Dismissed(t) ==
    /\ pc[t] = "dismiss" /\ Writes(t, "cancelled") /\ Goes(t, "caught")
    /\ flags' = flags \ {t}
    /\ UNCHANGED <<steps, host, at, stop, aborted, registryVars, cancelVars, doubt,
                   recoveryVars>>

Marked(t) ==
    /\ pc[t] = "mark" /\ Writes(t, "running-readonly") /\ Goes(t, "check")
    /\ UNCHANGED <<steps, host, at, stop, aborted, flags, registryVars, cancelVars, doubt,
                   recoveryVars>>

---------------------------------------------------------------------------
(* run: one step.                                                          *)

(* the endpoint is the plan's, the command is read-only, and nobody cancels *)
CheckStep(t) ==
    /\ pc[t] = "check"
    /\ \/ Goes(t, "fail")
       \/ Goes(t, IF Wanted(t) THEN "stop" ELSE "begin")
    /\ UNCHANGED <<recordVars, host, at, stop, aborted, flags, registryVars, cancelVars, doubt,
                   recoveryVars>>

(* the step is marked, and its command starts if nobody cancels *)
StartsAnyway(t) ==
    /\ Goes(t, "remote")
    /\ host' = host \cup {t} /\ stop' = [stop EXCEPT ![t] = "none"]
StartsStep(t) ==
    IF Wanted(t) THEN Goes(t, "stop") /\ UNCHANGED <<host, stop>>
    ELSE /\ Goes(t, "remote")
         /\ host' = host \cup {t} /\ stop' = [stop EXCEPT ![t] = "none"]
Begun(t) ==
    /\ pc[t] = "begin" /\ StepIs(t, "running") /\ StartsStep(t)
    /\ UNCHANGED <<status, at, aborted, flags, registryVars, cancelVars, doubt, recoveryVars>>

(* the catch of a step whose error is not a failed stop *)
Catches(t) == Goes(t, IF Wanted(t) THEN "stop" ELSE "fail")

(* runRemote settles first: with exit code 0 its command has ended, with   *)
(* another code or an error it may have                                    *)
Answers(t) ==
    /\ pc[t] = "remote" /\ stop[t] = "none"
    /\ \/ Goes(t, "complete") /\ host' = host \ {t}
       \/ Catches(t) /\ host' \in {host, host \ {t}}
    /\ UNCHANGED <<recordVars, at, stop, aborted, flags, registryVars, cancelVars, doubt,
                   recoveryVars>>

(* active.stop: a second reason joins the first *)
Stop(t, reason) ==
    stop' = IF pc[t] = "remote" /\ stop[t] = "none" THEN [stop EXCEPT ![t] = reason] ELSE stop

TimesOut(t) ==
    /\ pc[t] = "remote" /\ stop[t] = "none" /\ Stop(t, "timeout")
    /\ UNCHANGED <<recordVars, host, runVars, aborted, flags, registryVars, cancelVars, doubt,
                   recoveryVars>>

(* whatever runRemote says once a stop was asked for, the step waits for   *)
(* cancelRemote and goes by its answer                                     *)
StopMistaken(t) == Goes(t, IF stop[t] = "cancel" \/ Wanted(t) THEN "stop" ELSE "fail")
StopRefused(t) == Goes(t, "fail")
StopAnswered(t) ==
    /\ pc[t] = "remote" /\ stop[t] # "none"
    /\ cpc' = [cpc EXCEPT ![t] = IF @ = "stopping" THEN "pending" ELSE @]
    /\ \/ /\ host' = host \ {t}
          /\ Goes(t, IF stop[t] = "cancel" \/ Wanted(t) THEN "stop" ELSE "fail")
          /\ UNCHANGED <<cfailed, doubt>>
       \/ /\ doubt' = doubt \cup {t} /\ StopRefused(t)
          /\ cfailed' = IF cpc[t] = "stopping" THEN cfailed \cup {t} ELSE cfailed
          /\ UNCHANGED host
    /\ UNCHANGED <<recordVars, at, stop, aborted, flags, registryVars, destroyed,
                   recoveryVars>>

(* the next step is checked; after the last one nobody asks for a cancel *)
NextUnbounded(t) == Goes(t, "check") /\ at' = [at EXCEPT ![t] = @ + 1]
NextStep(t) ==
    IF at[t] < StepCount THEN Goes(t, "check") /\ at' = [at EXCEPT ![t] = @ + 1]
    ELSE Goes(t, "finish") /\ UNCHANGED at
Completed(t) ==
    /\ pc[t] = "complete" /\ StepIs(t, "completed") /\ NextStep(t)
    /\ UNCHANGED <<status, host, stop, aborted, flags, registryVars, cancelVars, doubt,
                   recoveryVars>>

Failed(t) ==
    /\ pc[t] = "fail" /\ FailStep(t) /\ Goes(t, "caught")
    /\ UNCHANGED <<host, at, stop, aborted, flags, registryVars, cancelVars, doubt,
                   recoveryVars>>

Stopped(t) ==
    /\ pc[t] = "stop" /\ Writes(t, "cancelled") /\ StepIs(t, "cancelled") /\ Goes(t, "caught")
    /\ flags' = flags \ {t}
    /\ UNCHANGED <<host, at, stop, aborted, registryVars, cancelVars, doubt, recoveryVars>>

---------------------------------------------------------------------------
(* The controller's end: a run that throws has its record read once more.  *)
(* The database answers in the order it is asked, and a cancel that awaits *)
(* the run is told of its end first: its read precedes the controller's,   *)
(* and all that it asks for afterwards, or another cancel asks for, comes  *)
(* after it.                                                               *)

Kept(t) == UNCHANGED registryVars
Unregister(t) ==
    /\ entries' = IF t \in unconfirmed THEN entries ELSE entries \ {t}
    /\ UNCHANGED unconfirmed

Finished(t) ==
    /\ pc[t] = "finish" /\ Writes(t, "completed") /\ Goes(t, "ended") /\ Unregister(t)
    /\ UNCHANGED <<steps, host, at, stop, aborted, flags, cancelVars, doubt, recoveryVars>>

Caught(t) ==
    /\ pc[t] = "caught" /\ cpc[t] \notin {"pending", "get"}
    /\ Goes(t, "ended") /\ Unregister(t)
    /\ UNCHANGED <<recordVars, host, at, stop, aborted, flags, cancelVars, doubt, recoveryVars>>

---------------------------------------------------------------------------
(* cancel of the registry, and in it cancel of the runner.                 *)

CancelGoes(t, p) == cpc' = [cpc EXCEPT ![t] = p]

(* it waits for the step to stop, for the run, or has a turn of its own *)
BeginCancel(t) ==
    /\ aborted' = aborted \cup {t} /\ flags' = flags \cup {t} /\ Stop(t, "cancel")
    /\ CancelGoes(t, IF pc[t] = "remote" THEN "stopping"
                     ELSE IF pc[t] \in InRun THEN "pending" ELSE "serial")

Cancel(t) ==
    /\ t \in entries /\ cpc[t] = "idle" /\ BeginCancel(t)
    /\ UNCHANGED <<recordVars, host, runVars, registryVars, cfailed, destroyed, doubt,
                   recoveryVars>>

(* the session ends: its task is cancelled, and freed whatever comes of it *)
OwnerEnds(t) ==
    /\ t \in entries \ destroyed /\ destroyed' = destroyed \cup {t}
    /\ IF cpc[t] = "idle" THEN BeginCancel(t) ELSE UNCHANGED <<aborted, flags, stop, cpc>>
    /\ UNCHANGED <<recordVars, host, runVars, registryVars, cfailed, doubt, recoveryVars>>

RunCancelled(t) == pc[t] \notin InRun /\ status[t] = "cancelled"
RunReturned(t) == pc[t] \notin InRun
CancelWaited(t) ==
    /\ cpc[t] = "pending" /\ RunReturned(t)
    /\ CancelGoes(t, IF t \in cfailed THEN "reread" ELSE "get")
    /\ UNCHANGED <<recordVars, host, runVars, stop, aborted, flags, registryVars, cfailed,
                   destroyed, doubt, recoveryVars>>

CancelReads(t) ==
    /\ cpc[t] = "serial" /\ pc[t] # "caught"
    /\ CancelGoes(t, IF status[t] \in Final THEN "get" ELSE "close")
    /\ UNCHANGED <<recordVars, host, runVars, stop, aborted, flags, registryVars, cfailed,
                   destroyed, doubt, recoveryVars>>

CancelCloses(t) ==
    /\ cpc[t] = "close" /\ Writes(t, "cancelled") /\ CancelGoes(t, "get")
    /\ UNCHANGED <<steps, host, runVars, stop, aborted, flags, registryVars, cfailed,
                   destroyed, doubt, recoveryVars>>

(* the registry frees a task it knows to be cancelled, and keeps another *)
Returns(t, confirmed) ==
    /\ CancelGoes(t, "idle") /\ flags' = flags \ {t}
    /\ cfailed' = cfailed \ {t} /\ destroyed' = destroyed \ {t}
    /\ entries' = IF confirmed \/ t \in destroyed THEN entries \ {t} ELSE entries
    /\ unconfirmed' = IF confirmed THEN unconfirmed \ {t}
                      ELSE (unconfirmed \cup {t}) \cap entries'

(* the step and the task that could not be stopped have failed *)
CancelFails(t) ==
    LET ss == [s \in Steps |-> IF steps[t][s] \in {"running", "cancelled"} THEN "failed"
                               ELSE steps[t][s]]
    IN  /\ cpc[t] = "reread" /\ pc[t] # "caught"
        /\ steps' = [steps EXCEPT ![t] = ss] /\ Writes(t, FailedStatus(ss))
        /\ Returns(t, FALSE)
        /\ UNCHANGED <<host, runVars, stop, aborted, doubt, recoveryVars>>

CancelAnswers(t) ==
    /\ cpc[t] = "get" /\ Returns(t, status[t] = "cancelled")
    /\ UNCHANGED <<recordVars, host, runVars, stop, aborted, doubt, recoveryVars>>

---------------------------------------------------------------------------
(* recoverOrphanedAgentTasks, and the restart that makes it necessary.     *)

(* the loop passes over registered tasks until it patches one or ends *)
AnyOf(ts) == ts
Orphans(ts) == ts \ entries
Advance(ts) ==
    \/ Orphans(ts) = {} /\ scan' = {} /\ patching' = NoTask
    \/ \E t \in Orphans(ts), passed \in SUBSET (ts \cap entries) :
          patching' = t /\ scan' = ts \ (passed \cup {t})

ListTasks ==
    LET running == {t \in Tasks : status[t] = "running-readonly"} IN
    /\ patching = NoTask /\ Advance(running)
    /\ seen' = IF patching' = NoTask THEN seen
               ELSE [t \in Tasks |-> IF t \in running THEN steps[t] ELSE Pending]
    /\ UNCHANGED <<recordVars, host, runVars, stop, aborted, flags, registryVars, cancelVars,
                   doubt>>

Recovered ==
    LET t == patching
        ss == [s \in Steps |-> IF seen[t][s] = "running" THEN "failed" ELSE seen[t][s]]
    IN  /\ t # NoTask /\ Advance(scan)
        /\ steps' = [steps EXCEPT ![t] = ss] /\ Writes(t, FailedStatus(ss))
        /\ seen' = IF patching' = NoTask THEN [u \in Tasks |-> Pending] ELSE seen
        /\ UNCHANGED <<host, runVars, stop, aborted, flags, registryVars, cancelVars, doubt>>

(* The renderer's memory is lost; records and commands are not. *)
Restart ==
    /\ pc' = [t \in Tasks |-> IF pc[t] = "idle" THEN "idle" ELSE "ended"]
    /\ stop' = [t \in Tasks |-> "none"] /\ aborted' = {} /\ flags' = {}
    /\ entries' = {} /\ unconfirmed' = {}
    /\ cpc' = [t \in Tasks |-> "idle"] /\ cfailed' = {} /\ destroyed' = {} /\ doubt' = {}
    /\ scan' = {} /\ patching' = NoTask /\ seen' = [t \in Tasks |-> Pending]
    /\ UNCHANGED <<recordVars, host, at>>

(* a command ends by itself *)
HostEnds(t) ==
    /\ host' = host \ {t} /\ t \in host
    /\ UNCHANGED <<recordVars, runVars, stop, aborted, flags, registryVars, cancelVars, doubt,
                   recoveryVars>>

---------------------------------------------------------------------------
RunStep(t) ==
    \/ Saved(t) \/ Planned(t) \/ Confirmed(t) \/ Run(t) \/ Refused(t) \/ Dismissed(t)
    \/ Marked(t) \/ CheckStep(t) \/ Begun(t) \/ Completed(t) \/ Failed(t) \/ Stopped(t)
    \/ Finished(t) \/ Caught(t)
CancelStep(t) ==
    CancelWaited(t) \/ CancelReads(t) \/ CancelCloses(t) \/ CancelFails(t) \/ CancelAnswers(t)

Next ==
    \/ \E t \in Tasks : \/ Create(t) \/ RunStep(t) \/ Answers(t) \/ TimesOut(t) \/ StopAnswered(t)
                        \/ Cancel(t) \/ OwnerEnds(t) \/ CancelStep(t) \/ HostEnds(t)
    \/ ListTasks \/ Recovered \/ Restart

Spec == Init /\ [][Next]_vars

(* The database and cancelRemote answer and the step's timer fires; the    *)
(* host, the user and the session are free to do nothing.                  *)
Fairness ==
    \A t \in Tasks : /\ WF_vars(RunStep(t)) /\ WF_vars(TimesOut(t)) /\ WF_vars(StopAnswered(t))
                     /\ WF_vars(CancelStep(t))
FairSpec == Spec /\ Fairness

---------------------------------------------------------------------------
(* Properties. *)

(* Every variable keeps to its set. *)
TypeOK ==
    /\ status \in [Tasks -> Statuses] /\ steps \in [Tasks -> [Steps -> StepStatuses]]
    /\ host \subseteq Tasks
    /\ pc \in [Tasks -> Awaits] /\ at \in [Tasks -> Steps]
    /\ stop \in [Tasks -> {"none", "cancel", "timeout"}]
    /\ aborted \subseteq Tasks /\ flags \subseteq Tasks
    /\ entries \subseteq Tasks /\ unconfirmed \subseteq entries
    /\ cpc \in [Tasks -> {"idle", "stopping", "pending", "serial", "close", "reread", "get"}]
    /\ cfailed \subseteq Tasks /\ destroyed \subseteq Tasks /\ doubt \subseteq Tasks
    /\ scan \subseteq Tasks /\ patching \in Tasks \cup {NoTask}
    /\ seen \in [Tasks -> [Steps -> StepStatuses]]

(* Two tasks of a session never run at the same time, whatever was         *)
(* cancelled, torn down or recovered meanwhile                             *)
(* (agent-task-runner.spec.js:395).                                        *)
OneRunPerSession ==
    \A t, u \in Tasks : pc[t] \in InRun /\ pc[u] \in InRun => t = u

(* A record says cancelled only when no command of the task is alive: a    *)
(* stop that could not be confirmed is a failure                           *)
(* (safety-transaction-runner.spec.js:2048).                               *)
CancelledHasStopped == \A t \in Tasks : status[t] = "cancelled" => t \notin host

(* Once a task is being cancelled no further step of it starts, however    *)
(* late in its preparation the cancel came                                 *)
(* (safety-transaction-runner.spec.js:1952).                               *)
NoStepAfterCancel ==
    [][\A t \in aborted : t \in host' => t \in host]_vars

(* The status of a task and those of its steps tell one story, though they *)
(* are written by the run, by its cancel and by the recovery: the steps    *)
(* were done in order, a final task has none running, and what it claims   *)
(* of completed steps is so.                                               *)
StepsMatchStatus ==
    \A t \in Tasks :
        LET done == {s \in Steps : steps[t][s] = "completed"} IN
        /\ \A s \in done : \A r \in 1..s : r \in done
        /\ status[t] \in Final => \A s \in Steps : steps[t][s] # "running"
        /\ status[t] = "completed" => done = Steps
        /\ status[t] = "partially-completed" => done # {}
        /\ status[t] = "failed" => done = {}

(* The recovery of orphans leaves a task that runs alone, though it knows  *)
(* of the task's status from an earlier read                               *)
(* (agent-task-runner.spec.js:532).                                        *)
LiveTaskSpared == \A t \in Tasks : pc[t] \in InRun => patching # t

(* Every cancel returns, whether or not the command can be stopped. *)
CancelsReturn == \A t \in Tasks : cpc[t] # "idle" ~> cpc[t] = "idle"

(* A session is not held for ever but by a task whose cancellation was not *)
(* confirmed, even if its command never ends.                              *)
SessionFreed == \A t \in Tasks : t \in entries ~> t \notin entries \/ t \in unconfirmed

(* A task whose command could not be stopped keeps its session locked      *)
(* until its owner ends ("failed cancellation keeps the resource locked    *)
(* until owner cleanup", agent-cancellation-lifecycle.spec.js:104).        *)
UnstoppedKeepsLock == \A t \in cfailed \ destroyed : t \in entries

(* A task that has failed, and whose commands were never beyond reach, no  *)
(* longer holds the session ("failed task execution cleans its registry    *)
(* entry", agent-task-runner.spec.js:953).                                 *)
FailedFreesSession ==
    \A t \in entries \ doubt :
        pc[t] = "ended" /\ status[t] \in {"failed", "partially-completed"} => cpc[t] # "idle"

============================================================================
