-------------------------- MODULE BackgroundTasks --------------------------
(***************************************************************************)
(* Commands that run in the background: background-task-registry.js        *)
(* watches them by the files they leave on the host, and settles them      *)
(* through finalizeExecution and cancelExecution of command-entrypoint.js. *)
(*                                                                         *)
(* Beside each other run, for one task: one status check at a time         *)
(* (capability.checking), the timer of the monitor, calls of the           *)
(* registry's cancel, the finalization and the cancellation of its         *)
(* execution, and the end of the terminal session.  Each action goes from  *)
(* one await to the next.                                                  *)
(***************************************************************************)
EXTENDS Naturals

CONSTANTS
    Tasks,
    Callers,     \* the calls of the registry's cancel
    MaxFaults    \* bound on the answers that are errors

ASSUME TasksAssumption == Tasks # {} /\ MaxFaults \in Nat

VARIABLES
    (* the host *)
    wrapper,     \* the shell whose pid is in the pid file
    payload,     \* the command it runs
    pids,        \* tasks whose pid file is written
    exitFile,    \* what the exit file says
    (* the entrypoint's execution *)
    launch,      \* whether the launcher's end was seen in the terminal
    session,     \* the terminal's session, as the execution finds it
    settled, cancelled, launched,
    fin, fcode,  \* finalizationPromise and its exit code
    can,         \* who waits for cancelPromise
    tx,          \* the operation's record
    (* the registry *)
    status, cap, \* the task's status, the tasks with a capability
    settling, rcode,
    pending,     \* finalizePending
    timer, late, \* tasks with a timer, tasks past monitorTimeoutMs
    check, watching, \* the status check, and whether a monitor awaits it
    ends,        \* calls of onTerminal
    cpc, ctask,  \* the calls of cancel
    faults

hostVars == <<wrapper, payload, pids, exitFile>>
executionVars == <<launch, session, settled, cancelled, launched, tx>>
settleVars == <<cap, status, settling, rcode, pending, timer, ends, fin, fcode, can>>
checkVars == <<check, watching>>
cancelVars == <<cpc, ctask>>
vars == <<hostVars, executionVars, settleVars, checkVars, cancelVars, late, faults>>

Codes == {"none", "zero", "nonzero"}
Final == {"unknown", "completed", "failed", "cancelled"}
Checks == {"idle", "exit", "pid", "alive", "lateexit", "settle"}

Init ==
    /\ wrapper = [t \in Tasks |-> "unborn"] /\ payload = [t \in Tasks |-> "unborn"]
    /\ pids = {} /\ exitFile = [t \in Tasks |-> "none"]
    /\ launch = [t \in Tasks |-> "none"] /\ session = [t \in Tasks |-> "current"]
    /\ settled = {} /\ cancelled = {} /\ launched = {}
    /\ fin = [t \in Tasks |-> "none"] /\ fcode = [t \in Tasks |-> "none"]
    /\ can = [t \in Tasks |-> "none"] /\ tx = [t \in Tasks |-> "executing"]
    /\ status = [t \in Tasks |-> "absent"] /\ cap = {}
    /\ settling = [t \in Tasks |-> "none"] /\ rcode = [t \in Tasks |-> "none"]
    /\ pending = {} /\ timer = {} /\ late = {}
    /\ check = [t \in Tasks |-> "idle"] /\ watching = {}
    /\ ends = [t \in Tasks |-> 0]
    /\ cpc = [c \in Callers |-> "idle"] /\ ctask = [c \in Callers |-> CHOOSE t \in Tasks : TRUE]
    /\ faults = 0

Fault == faults < MaxFaults /\ faults' = faults + 1
NoFault == UNCHANGED faults

---------------------------------------------------------------------------
(* How a task is settled. *)

CodeAsStatus(k) == k
Outcome(k) == IF k = "zero" THEN "completed" ELSE "failed"

(* finishTerminal *)
Finish(t, s) ==
    /\ cap' = cap \ {t} /\ timer' = timer \ {t} /\ pending' = pending \ {t}
    /\ status' = [status EXCEPT ![t] = s]
    /\ settling' = [settling EXCEPT ![t] = "none"]
    /\ ends' = [ends EXCEPT ![t] = @ + 1]

(* markFinalizeFailure, and the monitor that will try again *)
RetryUnwatched(t) ==
    /\ pending' = pending \cup {t} /\ UNCHANGED timer
    /\ status' = [status EXCEPT ![t] = "unknown"]
    /\ settling' = [settling EXCEPT ![t] = "none"]
    /\ UNCHANGED <<cap, ends>>
Retry(t) ==
    /\ pending' = pending \cup {t} /\ timer' = timer \cup {t}
    /\ status' = [status EXCEPT ![t] = "unknown"]
    /\ settling' = [settling EXCEPT ![t] = "none"]
    /\ UNCHANGED <<cap, ends>>

NotSettled == UNCHANGED <<cap, status, settling, pending, timer, ends>>

(* handleLifecycleEnd: the execution settled without the registry *)
LifecycleUnguarded(t) == IF t \in cap THEN Finish(t, "unknown") ELSE NotSettled
Lifecycle(t) ==
    IF t \in cap /\ settling[t] = "none" THEN Finish(t, "unknown") ELSE NotSettled

(* finalizeExecution joins the finalization that runs, and first awaits a  *)
(* cancellation that runs                                                  *)
StartFinalization(t, k) ==
    IF fin[t] # "none" THEN UNCHANGED <<fin, fcode>>
    ELSE /\ fin' = [fin EXCEPT ![t] = IF can[t] # "none" THEN "join" ELSE "complete"]
         /\ fcode' = [fcode EXCEPT ![t] = k]

Unsettled(t) == t \in cap /\ settling[t] = "none"

(* finalize of the registry *)
CallFinalize(t, k) ==
    \/ ~Unsettled(t) /\ UNCHANGED settleVars
    \/ /\ Unsettled(t) /\ t \in settled
       /\ Retry(t) /\ rcode' = [rcode EXCEPT ![t] = k]
       /\ UNCHANGED <<fin, fcode, can>>
    \/ /\ Unsettled(t) /\ t \notin settled
       /\ settling' = [settling EXCEPT ![t] = "finalize"]
       /\ rcode' = [rcode EXCEPT ![t] = k] /\ timer' = timer \ {t}
       /\ StartFinalization(t, k)
       /\ UNCHANGED <<cap, status, pending, ends, can>>

(* cancelExecution refuses a second cancellation and a settled execution *)
Cancellable(t) == t \notin settled \cup cancelled /\ can[t] = "none"

(* settleTerminal with capability.cancel, and interrupt *)
CallCancel(t, outcome) ==
    \/ ~Unsettled(t) /\ UNCHANGED settleVars
    \/ /\ Unsettled(t) /\ ~Cancellable(t)
       /\ Finish(t, "unknown") /\ UNCHANGED <<rcode, fin, fcode, can>>
    \/ /\ Unsettled(t) /\ Cancellable(t)
       /\ settling' = [settling EXCEPT ![t] = outcome] /\ timer' = timer \ {t}
       /\ can' = [can EXCEPT ![t] = "registry"]
       /\ UNCHANGED <<cap, status, rcode, pending, ends, fin, fcode>>
Interrupt(t) == CallCancel(t, "unknown")

---------------------------------------------------------------------------
(* The registry: register, the monitor and its status check.               *)

Register(t) ==
    /\ status[t] = "absent"
    /\ status' = [status EXCEPT ![t] = "started"]
    /\ cap' = cap \cup {t} /\ timer' = timer \cup {t}
    /\ launch' = [launch EXCEPT ![t] = "submitted"]
    /\ UNCHANGED <<hostVars, session, settled, cancelled, launched, tx, settling, rcode,
                   pending, ends, fin, fcode, can, checkVars, cancelVars, late, faults>>

StartCheck(t) == check' = [check EXCEPT ![t] = IF @ = "idle" THEN "exit" ELSE @]

TimerFires(t) ==
    /\ t \in timer
    /\ IF t \in late
       THEN /\ \/ ~Unsettled(t) /\ timer' = timer \ {t}
                  /\ UNCHANGED <<cap, status, settling, rcode, pending, ends, fin, fcode, can>>
               \/ Unsettled(t) /\ Interrupt(t)
            /\ UNCHANGED checkVars
       ELSE /\ timer' = timer \ {t} /\ StartCheck(t) /\ watching' = watching \cup {t}
            /\ UNCHANGED <<cap, status, settling, rcode, pending, ends, fin, fcode, can>>
    /\ UNCHANGED <<hostVars, executionVars, cancelVars, late, faults>>

(* status, called by a tool *)
Status(t) ==
    /\ t \in cap /\ check[t] = "idle" /\ StartCheck(t)
    /\ UNCHANGED <<hostVars, executionVars, settleVars, watching, cancelVars, late, faults>>

StillCurrent(t) == TRUE
Current(t) == t \in cap

CheckGoes(t, p) == check' = [check EXCEPT ![t] = p] /\ UNCHANGED watching

(* the check ends, and a monitor that awaited it sets the timer *)
CheckEnds(t) ==
    /\ check' = [check EXCEPT ![t] = "idle"] /\ watching' = watching \ {t}
    /\ timer' = IF t \in watching /\ t \in cap THEN timer \cup {t} ELSE timer

Superseded(t) ==
    /\ check[t] \notin {"idle", "settle"} /\ ~Current(t)
    /\ CheckEnds(t)
    /\ UNCHANGED <<hostVars, executionVars, cap, status, settling, rcode, pending, ends,
                   fin, fcode, can, cancelVars, late, faults>>

(* the exit file, read first and once more when the process is gone *)
CheckExit(t) ==
    /\ check[t] \in {"exit", "lateexit"} /\ Current(t)
    /\ \/ /\ exitFile[t] # "none" /\ CallFinalize(t, exitFile[t]) /\ CheckGoes(t, "settle")
       \/ /\ exitFile[t] = "none" /\ check[t] = "exit" /\ CheckGoes(t, "pid")
          /\ UNCHANGED settleVars
       \/ /\ exitFile[t] = "none" /\ check[t] = "lateexit"
          /\ Interrupt(t) /\ CheckGoes(t, "settle")
    /\ UNCHANGED <<hostVars, executionVars, cancelVars, late, faults>>

(* within launchGraceMs a missing pid file is a start, after it a failure *)
CheckPid(t) ==
    /\ check[t] = "pid" /\ Current(t)
    /\ \/ /\ t \in pids /\ CheckGoes(t, "alive") /\ UNCHANGED settleVars
       \/ /\ t \notin pids /\ status' = [status EXCEPT ![t] = "starting"]
          /\ CheckEnds(t)
          /\ UNCHANGED <<cap, settling, rcode, pending, ends, fin, fcode, can>>
       \/ /\ t \notin pids /\ Interrupt(t) /\ CheckGoes(t, "settle")
    /\ UNCHANGED <<hostVars, executionVars, cancelVars, late, faults>>

CheckAlive(t) ==
    /\ check[t] = "alive" /\ Current(t)
    /\ \/ /\ wrapper[t] = "alive" /\ status' = [status EXCEPT ![t] = "running"]
          /\ CheckEnds(t)
          /\ UNCHANGED <<cap, settling, rcode, pending, ends, fin, fcode, can>>
       \/ /\ wrapper[t] # "alive" /\ CheckGoes(t, "lateexit") /\ UNCHANGED settleVars
    /\ UNCHANGED <<hostVars, executionVars, cancelVars, late, faults>>

CheckFails(t) ==
    /\ check[t] \notin {"idle", "settle"} /\ Current(t) /\ Fault
    /\ Interrupt(t) /\ CheckGoes(t, "settle")
    /\ UNCHANGED <<hostVars, executionVars, cancelVars, late>>

CheckReturns(t) ==
    /\ check[t] = "settle" /\ settling[t] = "none"
    /\ CheckEnds(t)
    /\ UNCHANGED <<hostVars, executionVars, cap, status, settling, rcode, pending, ends,
                   fin, fcode, can, cancelVars, late, faults>>

(* monitorTimeoutMs has passed *)
TimesOut(t) ==
    /\ t \in cap \ late /\ late' = late \cup {t}
    /\ UNCHANGED <<hostVars, executionVars, settleVars, checkVars, cancelVars, faults>>

---------------------------------------------------------------------------
(* cancel of the registry looks at the capability when it starts and again *)
(* when it settles, not in between.                                        *)

Cancel(c, t) ==
    /\ cpc[c] = "idle" /\ t \in cap
    /\ cpc' = [cpc EXCEPT ![c] = "exit"] /\ ctask' = [ctask EXCEPT ![c] = t]
    /\ UNCHANGED <<hostVars, executionVars, settleVars, checkVars, late, faults>>

CancelGoes(c, p) == cpc' = [cpc EXCEPT ![c] = p] /\ UNCHANGED ctask

CancelExit(c) ==
    LET t == ctask[c] IN
    /\ cpc[c] \in {"exit", "lateexit"}
    /\ \/ exitFile[t] # "none" /\ CallFinalize(t, exitFile[t]) /\ CancelGoes(c, "idle")
       \/ /\ exitFile[t] = "none" /\ cpc[c] = "exit"
          /\ CancelGoes(c, "pid") /\ UNCHANGED settleVars
       \/ /\ exitFile[t] = "none" /\ cpc[c] = "lateexit"
          /\ Interrupt(t) /\ CancelGoes(c, "idle")
    /\ UNCHANGED <<hostVars, executionVars, checkVars, late, faults>>

CancelPid(c) ==
    LET t == ctask[c] IN
    /\ cpc[c] = "pid"
    /\ \/ t \in pids /\ CancelGoes(c, "kill") /\ UNCHANGED settleVars
       \/ t \notin pids /\ Interrupt(t) /\ CancelGoes(c, "idle")
    /\ UNCHANGED <<hostVars, executionVars, checkVars, late, faults>>

(* the signal ends the wrapper; the command it runs is another process *)
KillIgnored(c) ==
    LET t == ctask[c] IN
    /\ cpc[c] = "kill"
    /\ CallCancel(t, "cancelled") /\ CancelGoes(c, "idle")
    /\ UNCHANGED <<hostVars, executionVars, checkVars, late, faults>>
CancelKill(c) ==
    LET t == ctask[c] IN
    /\ cpc[c] = "kill"
    /\ \/ /\ wrapper[t] = "alive" /\ wrapper' = [wrapper EXCEPT ![t] = "dead"]
          /\ CallCancel(t, "cancelled") /\ CancelGoes(c, "idle") /\ NoFault
       \/ /\ IF wrapper[t] = "alive" THEN Fault ELSE NoFault
          /\ CancelGoes(c, "lateexit") /\ UNCHANGED <<wrapper, settleVars>>
    /\ UNCHANGED <<payload, pids, exitFile, executionVars, checkVars, late>>

CancelFails(c) ==
    /\ cpc[c] # "idle" /\ Fault
    /\ Interrupt(ctask[c]) /\ CancelGoes(c, "idle")
    /\ UNCHANGED <<hostVars, executionVars, checkVars, late>>

---------------------------------------------------------------------------
(* finalizeExecution and cancelExecution of the entrypoint.                *)

(* its result reaches the registry if the registry waits for it *)
Finalized(t, ok) ==
    IF settling[t] = "finalize" THEN IF ok THEN Finish(t, Outcome(rcode[t])) ELSE Retry(t)
    ELSE IF ok THEN Lifecycle(t) ELSE NotSettled

(* the finalization gives up: it cancels the execution, or leaves it be *)
GivesUp(t) ==
    IF Cancellable(t)
    THEN /\ can' = [can EXCEPT ![t] = "undo"] /\ fin' = [fin EXCEPT ![t] = "undo"]
         /\ NotSettled
    ELSE fin' = [fin EXCEPT ![t] = "none"] /\ Finalized(t, FALSE) /\ UNCHANGED can

(* completeExternalExecution: what it leaves of the record, and whether    *)
(* it accepts the code of a record that was completed before               *)
Completed(k) == IF k = "zero" THEN "completed" ELSE "exit-failed"
Accepts(t) == tx[t] \in {"executing", Completed(fcode[t])}

Completes(t) ==
    /\ fin[t] = "complete" /\ Accepts(t)
    /\ tx' = [tx EXCEPT ![t] = Completed(fcode[t])]
    /\ IF t \in cancelled \/ session[t] # "current"
       THEN GivesUp(t) /\ UNCHANGED settled
       ELSE /\ settled' = settled \cup {t} /\ fin' = [fin EXCEPT ![t] = "none"]
            /\ Finalized(t, TRUE) /\ UNCHANGED can
    /\ UNCHANGED <<hostVars, launch, session, cancelled, launched, rcode, fcode, checkVars,
                   cancelVars, late, faults>>

(* it throws, with or without having written the record *)
CompletionFails(t) ==
    /\ fin[t] = "complete"
    /\ IF Accepts(t) THEN Fault /\ tx' \in {tx, [tx EXCEPT ![t] = Completed(fcode[t])]}
       ELSE NoFault /\ UNCHANGED tx
    /\ IF t \in cancelled \/ t \in launched
       THEN fin' = [fin EXCEPT ![t] = "none"] /\ Finalized(t, FALSE) /\ UNCHANGED can
       ELSE GivesUp(t)
    /\ UNCHANGED <<hostVars, launch, session, settled, cancelled, launched, rcode, fcode,
                   checkVars, cancelVars, late>>

(* a finalization that awaited the cancellation gives way to it *)
Stops(t) ==
    /\ can[t] # "none" /\ tx[t] # "completed"
    /\ tx' = [tx EXCEPT ![t] = IF @ = "executing" THEN "cancelled" ELSE @]
    /\ can' = [can EXCEPT ![t] = "none"]
    /\ cancelled' = cancelled \cup {t} /\ settled' = settled \cup {t}
    /\ fin' = [fin EXCEPT ![t] = IF @ \in {"join", "undo"} THEN "none" ELSE @]
    /\ IF can[t] = "registry" THEN Finish(t, settling[t])
       ELSE IF fin[t] \in {"join", "undo"} /\ settling[t] = "finalize" THEN Retry(t)
       ELSE Lifecycle(t)
    /\ UNCHANGED <<hostVars, launch, session, launched, rcode, fcode, checkVars, cancelVars,
                   late, faults>>

(* runner.cancel throws, or answers with a record it could not stop; a     *)
(* call of the registry then abandons the execution                        *)
StopFails(t) ==
    /\ can[t] # "none"
    /\ IF tx[t] = "completed" THEN NoFault /\ UNCHANGED tx
       ELSE Fault /\ tx' \in {tx, [tx EXCEPT ![t] = IF @ = "executing" THEN "cancelled" ELSE @]}
    /\ can' = [can EXCEPT ![t] = "none"]
    /\ fin' = [fin EXCEPT ![t] =
          IF @ = "join" THEN "complete" ELSE IF @ = "undo" THEN "none" ELSE @]
    /\ settled' = IF can[t] = "registry" THEN settled \cup {t} ELSE settled
    /\ IF can[t] = "registry" THEN Finish(t, "unknown")
       ELSE IF can[t] = "undo" THEN Finalized(t, FALSE) ELSE NotSettled
    /\ UNCHANGED <<hostVars, launch, session, cancelled, launched, rcode, fcode, checkVars,
                   cancelVars, late>>

---------------------------------------------------------------------------
(* The terminal: the launcher's end, another command's confirmation that   *)
(* is withdrawn (it only advances the generation), and the end of the      *)
(* session or a stop of everything, which cancel the execution.            *)

LaunchSeen(t) ==
    /\ launch[t] = "submitted" /\ t \in pids
    /\ launch' = [launch EXCEPT ![t] = "seen"]
    /\ launched' = IF t \in settled THEN launched ELSE launched \cup {t}
    /\ UNCHANGED <<hostVars, session, settled, cancelled, tx, settleVars, checkVars,
                   cancelVars, late, faults>>

LaunchFailed(t) ==
    /\ launch[t] = "submitted" /\ wrapper[t] = "unborn"
    /\ launch' = [launch EXCEPT ![t] = "seen"]
    /\ IF t \in settled THEN UNCHANGED <<fin, fcode>> ELSE StartFinalization(t, "nonzero")
    /\ UNCHANGED <<hostVars, session, settled, cancelled, launched, tx, cap, status, settling,
                   rcode, pending, timer, ends, can, checkVars, cancelVars, late, faults>>

OtherCancelled(t) ==
    /\ session[t] = "current" /\ t \in launched
    /\ session' = [session EXCEPT ![t] = "superseded"]
    /\ UNCHANGED <<hostVars, launch, settled, cancelled, launched, tx, settleVars, checkVars,
                   cancelVars, late, faults>>

SessionStops(t) ==
    /\ launch[t] # "none" /\ session[t] # "ended"
    /\ \E s \in {"stopped", "ended"} : session' = [session EXCEPT ![t] = s]
    /\ can' = IF Cancellable(t) THEN [can EXCEPT ![t] = "session"] ELSE can
    /\ UNCHANGED <<hostVars, launch, settled, cancelled, launched, tx, cap, status, settling,
                   rcode, pending, timer, ends, fin, fcode, checkVars, cancelVars, late, faults>>

---------------------------------------------------------------------------
(* The host: nohup bash -c "payload; write the exit code" & write its pid. *)

Born(t) ==
    /\ launch[t] = "submitted" /\ wrapper[t] = "unborn"
    /\ wrapper' = [wrapper EXCEPT ![t] = "alive"]
    /\ payload' = [payload EXCEPT ![t] = "running"]
    /\ UNCHANGED <<pids, exitFile>>

WritesPid(t) ==
    /\ wrapper[t] # "unborn" /\ pids' = pids \cup {t}
    /\ UNCHANGED <<wrapper, payload, exitFile>>

PayloadEnds(t) ==
    /\ payload[t] = "running"
    /\ \E k \in {"zero", "nonzero"} : payload' = [payload EXCEPT ![t] = k]
    /\ UNCHANGED <<wrapper, pids, exitFile>>

WritesExit(t) ==
    /\ wrapper[t] = "alive" /\ payload[t] # "running"
    /\ exitFile' = [exitFile EXCEPT ![t] = payload[t]]
    /\ UNCHANGED <<wrapper, payload, pids>>

WrapperEnds(t) ==
    /\ wrapper[t] = "alive" /\ exitFile[t] # "none"
    /\ wrapper' = [wrapper EXCEPT ![t] = "dead"]
    /\ UNCHANGED <<payload, pids, exitFile>>

HostStep(t) ==
    /\ Born(t) \/ WritesPid(t) \/ PayloadEnds(t) \/ WritesExit(t) \/ WrapperEnds(t)
    /\ UNCHANGED <<executionVars, settleVars, checkVars, cancelVars, late, faults>>

---------------------------------------------------------------------------
CheckStep(t) ==
    \/ Superseded(t) \/ CheckExit(t) \/ CheckPid(t) \/ CheckAlive(t)
    \/ CheckFails(t) \/ CheckReturns(t)
Completion(t) == Completes(t) \/ CompletionFails(t)
Stopping(t) == Stops(t) \/ StopFails(t)
CancelStep(c) == CancelExit(c) \/ CancelPid(c) \/ CancelKill(c) \/ CancelFails(c)
TerminalStep(t) ==
    Register(t) \/ LaunchSeen(t) \/ LaunchFailed(t) \/ OtherCancelled(t) \/ SessionStops(t)

Next ==
    \/ \E t \in Tasks : \/ TimerFires(t) \/ TimesOut(t) \/ Status(t) \/ CheckStep(t)
                        \/ Completion(t) \/ Stopping(t) \/ TerminalStep(t) \/ HostStep(t)
    \/ \E c \in Callers : CancelStep(c) \/ \E t \in Tasks : Cancel(c, t)

Spec == Init /\ [][Next]_vars

(* Timers fire, answers arrive and the clock runs; nothing is assumed of   *)
(* the host, the user or the terminal, but that nobody cancels for ever in *)
(* less than the timer's delay: a timer set again and again fires.         *)
Fairness ==
    /\ \A t \in Tasks : /\ SF_vars(TimerFires(t)) /\ WF_vars(TimesOut(t))
                        /\ WF_vars(CheckStep(t))
                        /\ WF_vars(Completion(t)) /\ WF_vars(Stopping(t))
    /\ \A c \in Callers : WF_vars(CancelStep(c))
FairSpec == Spec /\ Fairness

---------------------------------------------------------------------------
(* Properties. *)

(* Every variable keeps to its set. *)
TypeOK ==
    /\ wrapper \in [Tasks -> {"unborn", "alive", "dead"}]
    /\ payload \in [Tasks -> {"unborn", "running", "zero", "nonzero"}]
    /\ pids \subseteq Tasks /\ exitFile \in [Tasks -> Codes]
    /\ launch \in [Tasks -> {"none", "submitted", "seen"}]
    /\ session \in [Tasks -> {"current", "superseded", "stopped", "ended"}]
    /\ settled \subseteq Tasks /\ cancelled \subseteq Tasks /\ launched \subseteq Tasks
    /\ fin \in [Tasks -> {"none", "join", "complete", "undo"}]
    /\ fcode \in [Tasks -> Codes] /\ rcode \in [Tasks -> Codes]
    /\ can \in [Tasks -> {"none", "registry", "undo", "session"}]
    /\ tx \in [Tasks -> {"executing", "completed", "exit-failed", "cancelled"}]
    /\ status \in [Tasks -> Final \cup {"absent", "started", "starting", "running"}]
    /\ cap \subseteq Tasks
    /\ settling \in [Tasks -> {"none", "finalize", "cancelled", "unknown"}]
    /\ pending \subseteq Tasks /\ timer \subseteq Tasks /\ late \subseteq Tasks
    /\ check \in [Tasks -> Checks] /\ watching \subseteq Tasks
    /\ ends \in [Tasks -> Nat]
    /\ cpc \in [Callers -> {"idle", "exit", "pid", "kill", "lateexit"}]
    /\ ctask \in [Callers -> Tasks] /\ faults \in Nat

(* What a task's status says is so on the host and in its record, whoever  *)
(* settled it: a command completed or failed with the code it exited with, *)
(* a cancelled task's process got its signal and its record was stopped.   *)
StatusIsTrue ==
    \A t \in Tasks :
        /\ status[t] = "completed" => payload[t] = "zero" /\ tx[t] = "completed"
        /\ status[t] = "failed" => payload[t] = "nonzero" /\ tx[t] = "exit-failed"
        /\ status[t] = "cancelled" => wrapper[t] = "dead" /\ tx[t] \in {"cancelled", "exit-failed"}

(* The agent bound to a task hears of its end once, though the monitor,    *)
(* cancel and the end of the session all may report it (the test           *)
(* background-command-registry.spec.js:316).                               *)
NotifiedOnce == \A t \in Tasks : ends[t] <= 1

(* A late answer of a check never changes the status of a settled task     *)
(* (background-command-registry.spec.js:645).                              *)
SettledStays ==
    [][\A t \in Tasks : status[t] # "absent" /\ t \notin cap => status'[t] = status[t]]_vars

(* Every task is settled, though its command may run for ever and its      *)
(* finalization be refused for ever: its monitor never stops before.       *)
TaskSettles == \A t \in Tasks : t \in cap ~> t \notin cap

(* A finalization whose record was completed is refused only when the      *)
(* session has ended or the command was to be stopped, as the refusal says *)
(* (command-entrypoint.js:721), not because the confirmation of another    *)
(* command was withdrawn.                                                  *)
CompletionIsReported ==
    \A t \in Tasks : t \in pending /\ tx[t] = "completed" =>
        session[t] \in {"stopped", "ended"} \/ can[t] # "none"

============================================================================
