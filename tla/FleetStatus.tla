----------------------------- MODULE FleetStatus -----------------------------
(***************************************************************************)
(* The collection of the fleet status                                      *)
(* (app/server/fleet-status-service.js) on top of the session processes.   *)
(* A task opens one temporary session per target, with a bounded number at *)
(* a time, runs its probes there and closes the session whatever happens:  *)
(* the answer, a failure, the time-out of the target or of the task, and a *)
(* cancel race with every step of the opening call, which goes on by       *)
(* itself after the task has given it up.                                  *)
(*                                                                         *)
(* The targets are the requests 1..NTargets, each with a pid of its own    *)
(* (the uid the collection makes up).  Other requests are the user's.      *)
(***************************************************************************)
EXTENDS SessionProcess

CONSTANTS
    NTargets,
    Concurrency,
    Scenarios    \* the sets of requests that are made in one behaviour

Targets == 1..NTargets

ASSUME FleetAssumption ==
    /\ NTargets \in Nat /\ Concurrency \in Nat \ {0}
    /\ Targets \subseteq Requests \ Tests
    /\ \A t \in Targets : \A r \in Requests \ {t} : PidOf[r] # PidOf[t]
    /\ Scenarios \subseteq SUBSET Requests

VARIABLES
    made,          \* the requests of this behaviour
    task,          \* idle, collecting, closing, done
    nextIndex,     \* the number of targets taken so far
    target,        \* each target: queued, opening, probing, closing, done
    outcome,       \* the result of each target
    targetWaits,   \* the entries whose close a target, or the task, waits for
    taskWaits,
    cancelled,     \* cancel has answered that it cancelled the task
    totalTimedOut,
    status         \* the status of the collection once it is computed

fleetVars == <<made, task, nextIndex, target, outcome, targetWaits, taskWaits,
               cancelled, totalTimedOut, status>>
vars == <<sessionVars, fleetVars>>

Outcomes == {"none", "success", "error", "targetTimeout", "totalTimeout", "cancelled"}

TypeOK ==
    /\ SessionTypeOK
    /\ made \subseteq Requests
    /\ task \in {"idle", "collecting", "closing", "done"}
    /\ nextIndex \in 0..NTargets
    /\ target \in [Targets -> {"queued", "opening", "probing", "closing", "done"}]
    /\ outcome \in [Targets -> Outcomes]
    /\ targetWaits \in [Targets -> SUBSET Requests]
    /\ taskWaits \subseteq Requests
    /\ cancelled \in BOOLEAN /\ totalTimedOut \in BOOLEAN
    /\ status \in {"none", "completed", "cancelled", "timeout"}

Init ==
    /\ SessionInit
    /\ made \in Scenarios
    /\ task = "idle"
    /\ nextIndex = 0
    /\ target = [t \in Targets |-> "queued"]
    /\ outcome = [t \in Targets |-> "none"]
    /\ targetWaits = [t \in Targets |-> {}]
    /\ taskWaits = {}
    /\ cancelled = FALSE /\ totalTimedOut = FALSE
    /\ status = "none"

-----------------------------------------------------------------------------
\* Mutant: the time-out of the task is not an abort.
CancelledOnly == cancelled

TaskAborted == cancelled \/ totalTimedOut
InFlight    == {t \in Targets : target[t] \in {"opening", "probing", "closing"}}
Racing      == {t \in Targets : target[t] \in {"opening", "probing"}}

\* closeTerminal of the sessions of the targets T.
CloseTerminals(T) ==
    LET pids == {PidOf[t] : t \in T}
    IN  /\ closing' = [p \in Pids |-> IF p \in pids THEN ClosingOf(p) ELSE closing[p]]
        /\ signal' = CloseEntries(UNION {ClosingOf(p) : p \in pids})

\* The finally of collectTarget, for the targets T at once: each has its
\* outcome and waits for the close of its session.
Leave(T, result) ==
    /\ target' = [t \in Targets |-> IF t \in T THEN "closing" ELSE target[t]]
    /\ outcome' = [t \in Targets |-> IF t \in T THEN result ELSE outcome[t]]
    /\ targetWaits' = [t \in Targets |->
                          IF t \in T THEN ClosingOf(PidOf[t]) ELSE targetWaits[t]]

\* The abort signals of the targets T fire: the opening calls hear it, and
\* closeEntry is called for an entry that is there.
AbortSignals(T) == aborted' = [r \in Requests |-> aborted[r] \/ r \in T]

Collect ==
    /\ task = "idle" /\ Targets \subseteq made
    /\ task' = "collecting"
    /\ UNCHANGED <<sessionVars, made, nextIndex, target, outcome, targetWaits,
                   taskWaits, cancelled, totalTimedOut, status>>

\* A worker takes the next target and opens its session.
TakeTarget(t) ==
    /\ task = "collecting" /\ ~TaskAborted
    /\ t = nextIndex + 1 /\ Cardinality(InFlight) < Concurrency
    /\ nextIndex' = t
    /\ target' = [target EXCEPT ![t] = "opening"]
    /\ Start(t)
    /\ UNCHANGED <<made, task, outcome, targetWaits, taskWaits, cancelled,
                   totalTimedOut, status>>

\* The session is open: the probes are sent to it, unless it is gone again.
OpenReturns(t) ==
    /\ target[t] = "opening" /\ call[t] = "opened"
    /\ IF Usable(t)
       THEN /\ messages' = [messages EXCEPT ![t] = @ \cup {"command"}]
            /\ target' = [target EXCEPT ![t] = "probing"]
            /\ UNCHANGED <<signal, closing, outcome, targetWaits>>
       ELSE /\ CloseTerminals({t})
            /\ Leave({t}, "error")
            /\ UNCHANGED messages
    /\ UNCHANGED <<callVars, child, entry, portVars, active, pending, latest,
                   made, task, nextIndex, taskWaits, cancelled, totalTimedOut, status>>

OpenFails(t) ==
    /\ target[t] = "opening" /\ call[t] = "failed"
    /\ CloseTerminals({t})
    /\ Leave({t}, "error")
    /\ UNCHANGED <<callVars, child, entry, messages, portVars, active, pending, latest,
                   made, task, nextIndex, taskWaits, cancelled, totalTimedOut, status>>

\* The child answers the probes.  A probe that fails is part of the answer.
ProbesAnswered(t) ==
    /\ target[t] = "probing" /\ Answers(t, "command")
    /\ messages' = [messages EXCEPT ![t] = @ \ {"command"}]
    /\ CloseTerminals({t})
    /\ Leave({t}, "success")
    /\ UNCHANGED <<callVars, child, entry, portVars, active, pending, latest,
                   made, task, nextIndex, taskWaits, cancelled, totalTimedOut, status>>

\* They are rejected, since the session ended under them, or run into their own
\* time-out: each catches that, and the batch is an answer all the same.
ProbesFail(t) ==
    /\ target[t] = "probing"
    /\ CloseTerminals({t})
    /\ Leave({t}, "success")
    /\ UNCHANGED <<callVars, child, entry, messages, portVars, active, pending, latest,
                   made, task, nextIndex, taskWaits, cancelled, totalTimedOut, status>>

TargetTimeout(t) ==
    /\ t \in Racing
    /\ AbortSignals({t})
    /\ CloseTerminals({t})
    /\ Leave({t}, "targetTimeout")
    /\ UNCHANGED <<call, awaits, child, entry, messages, portVars, active, pending,
                   latest, made, task, nextIndex, taskWaits, cancelled, totalTimedOut,
                   status>>

\* Every target that races with the abort signal of the task leaves, and the
\* sessions of all targets taken so far are closed.
AbortTask(result) ==
    /\ AbortSignals(Racing)
    /\ CloseTerminals({t \in Targets : target[t] # "queued"})
    /\ Leave(Racing, result)
    /\ UNCHANGED <<call, awaits, child, entry, messages, portVars, active, pending,
                   latest, made, task, nextIndex, taskWaits, status>>

\* cancel, by its own message or because the request's socket closed: a task
\* that is still in the map is cancelled.
Cancel ==
    /\ task \in {"collecting", "closing"} /\ ~cancelled
    /\ cancelled' = TRUE
    /\ AbortTask(IF totalTimedOut THEN "totalTimeout" ELSE "cancelled")
    /\ UNCHANGED totalTimedOut

TotalTimeout ==
    /\ task = "collecting" /\ ~totalTimedOut
    /\ totalTimedOut' = TRUE
    /\ AbortTask("totalTimeout")
    /\ UNCHANGED cancelled

TargetClosed(t) ==
    /\ target[t] = "closing" /\ AllEnded(targetWaits[t])
    /\ target' = [target EXCEPT ![t] = "done"]
    /\ targetWaits' = [targetWaits EXCEPT ![t] = {}]
    /\ UNCHANGED <<sessionVars, made, task, nextIndex, outcome, taskWaits, cancelled,
                   totalTimedOut, status>>

\* The workers have returned: what was never taken gets its result, the status
\* is computed and the sessions of the task are closed once more.
Report ==
    /\ task = "collecting" /\ InFlight = {}
    /\ TaskAborted \/ nextIndex = NTargets
    /\ task' = "closing"
    /\ outcome' = [t \in Targets |->
                      IF outcome[t] # "none" THEN outcome[t]
                      ELSE IF totalTimedOut THEN "totalTimeout" ELSE "cancelled"]
    /\ status' = IF ~TaskAborted THEN "completed"
                 ELSE IF totalTimedOut THEN "timeout" ELSE "cancelled"
    /\ LET taken == {t \in Targets : target[t] # "queued"}
       IN  /\ CloseTerminals(taken)
           /\ taskWaits' = UNION {ClosingOf(PidOf[t]) : t \in taken}
    /\ UNCHANGED <<callVars, child, entry, messages, portVars, active, pending, latest,
                   made, nextIndex, target, targetWaits, cancelled, totalTimedOut>>

TaskClosed ==
    /\ task = "closing" /\ AllEnded(taskWaits)
    /\ task' = "done"
    /\ taskWaits' = {}
    /\ UNCHANGED <<sessionVars, made, nextIndex, target, outcome, targetWaits, cancelled,
                   totalTimedOut, status>>

\* The user opens a session of his own, or tests a connection.
UserStart(r) ==
    /\ r \in made \ Targets
    /\ Start(r)
    /\ UNCHANGED fleetVars

SessionStep == SessionNext /\ UNCHANGED fleetVars

TargetStep(t) ==
    \/ OpenReturns(t) \/ OpenFails(t) \/ ProbesAnswered(t) \/ ProbesFail(t)
    \/ TargetClosed(t)

Next ==
    \/ SessionStep
    \/ Collect \/ Cancel \/ TotalTimeout \/ Report \/ TaskClosed
    \/ \E t \in Targets : TakeTarget(t) \/ TargetTimeout(t) \/ TargetStep(t)
    \/ \E r \in Requests : UserStart(r)

(***************************************************************************)
(* The timers of the two modules fire, a find-free-port search answers, a  *)
(* child from which something is awaited reports it or ends, one that was  *)
(* sent SIGKILL ends, and the event loop runs what is ready.  Nothing says *)
(* that a probe is answered, or that a child obeys SIGTERM.                *)
(***************************************************************************)
ChildReacts(r) ==
    /\ call[r] \in {"ready", "create"}
    /\ ChildListens(r) \/ Created(r) \/ CreateFails(r) \/ Tested(r) \/ ChildExits(r)

CallGoesOn(r) ==
    \/ \E port \in PortIds : PortFound(r, port)
    \/ NoPort(r) \/ AfterClosing(r) \/ PreviousClosed(r) \/ FailureClosed(r)

Killed(r) == signal[r] = "kill" /\ ChildExits(r)

Progress ==
    \/ /\ \E r \in made :
            CallGoesOn(r) \/ ChildReacts(r) \/ CloseTimeout(r) \/ Killed(r) \/ ForceEnd(r)
       /\ UNCHANGED fleetVars
    \/ \E t \in Targets :
            TakeTarget(t) \/ OpenReturns(t) \/ OpenFails(t) \/ TargetTimeout(t)
            \/ TargetClosed(t)
    \/ Report \/ TaskClosed

\* A behaviour has only finitely many of these steps, so that none of them waits
\* for ever behind the others.
Fairness == WF_vars(Progress)

Spec == Init /\ [][Next]_vars /\ Fairness

-----------------------------------------------------------------------------
(* What a pid and its children owe each other.                             *)

\* A child that runs and was not told to end can be found by its pid, or is
\* that of a connection test in progress: whatever superseded, aborted or failed
\* the call that forked it has closed it (closeEntry, entriesForPid).
NoStrayChild ==
    \A r \in Requests : Running(r) /\ signal[r] = "none" =>
        \/ r \in EntriesOf(PidOf[r])
        \/ r \in Tests /\ call[r] \in {"ready", "create"}

\* Two children never listen on one port, nor does a call hold the port of a
\* child or of another call, though a port is found asynchronously and given
\* back before the child that listens on it is known to have ended
\* (pendingPorts).
InUse(r) ==
    \/ r \in holds /\ call[r] # "port"
    \/ child[r] = "listening" /\ signal[r] = "none"
PortsDistinct ==
    \A q, r \in Requests : q # r /\ InUse(q) /\ InUse(r) => portOf[q] # portOf[r]

\* The session of a pid is only ever replaced by one that was asked for later:
\* an earlier call that is answered late closes its own child instead
\* (latestTerminalRequests).
NewestWins ==
    [][\A p \in Pids :
          active[p] # active'[p] /\ active'[p] # NoRequest =>
              \A r \in Requests \ Tests :
                  PidOf[r] = p /\ call[r] \in {"opened", "previous"} => r < active'[p]]_vars

\* A collection that has returned leaves no session behind, not even one whose
\* opening call was still on its way when the task gave it up: every child of
\* its targets has ended, or was sent SIGKILL, and none is forked any more.
NoSessionLeft ==
    task = "done" => \A t \in Targets : Running(t) => signal[t] = "kill"

\* What the collection reports is one story: it is completed only if no target
\* was cut short by the task, cancelled only if none ran into the time-out of
\* the task, and a success (which only says that the probes have returned) is
\* reported of a target whose session had been open and of no other.
ReportIsTrue ==
    status # "none" =>
        /\ \A t \in Targets : outcome[t] # "none"
        /\ status = "completed" =>
              \A t \in Targets : outcome[t] \in {"success", "error", "targetTimeout"}
        /\ status = "cancelled" => \A t \in Targets : outcome[t] # "totalTimeout"
        /\ \A t \in Targets : outcome[t] = "success" => call[t] = "opened" /\ ~aborted[t]

\* Every call of terminal or testConnection returns or throws.
CallsSettle == <>[](\A r \in Requests : call[r] \in {"idle", "opened", "failed"})

\* A collection returns, even if no server answers a probe.
CollectReturns == task = "collecting" ~> task = "done"
=============================================================================
