# Safety transactions and tasks of ShellPilot, in TLA+

ShellPilot (`src/apps/electerm-agent`, a fork of electerm) is an Electron SSH client whose AI agent
and whose user change remote hosts.  Every change goes through a *safety transaction*: it is
classified, a recovery point is made and verified, the user confirms, the command runs, and the
user keeps the change or has it rolled back.  The transactions promise that a host is never left in
a state the records deny.  That promise has to survive cancellations, closed windows, edits of
persisted plans and answers that come late, and it is what this project models, checks and proves.

Paths below are relative to `src/apps/electerm-agent/src/`; `st/` is
`client/common/safety-transactions/`.

## The system

| part | state it keeps | operations | what makes it correct |
| --- | --- | --- | --- |
| operation store (`st/transaction-store.js`, `st/models.js`) | records in the main process's database, a patch queue per record | save, get, list, patch, guarded patch, remove | patches of a record are atomic |
| transaction runner (`st/transaction-runner.js`) | per-operation and per-endpoint queues, cancellation requests, bound recoveries, active executions | prepare, execute, begin/completeExternalExecution, rollback, keep, revokeRecovery, cancel | recovery point before change; one start; records never claim what the host does not show; calls return |
| side-effect branches of the runner (same file), SFTP adapter (`client/components/sftp/sftp-transaction-adapter.js`) | mutation markers in the record, abort controllers | the same calls, hooks of the adapter | a mutation is announced in the record before it is made |
| orphan recovery (`st/command-orphan-recovery.js`) | none | one guarded patch per orphan at start | only records of earlier runs are touched |
| command entrypoint (`st/command-entrypoint.js`) | pending decisions, tracker tokens, retries | prepare, confirm, begin, submit, finalize, cancel | the confirmed command is the submitted one |
| background task registry (`st/background-task-registry.js`) | records, capabilities, timers | register, monitor, status, cancel | one terminal outcome; the command is never run again |
| read-only task runner (`st/task-runner.js`) | task records, queues, active steps | create, confirmPlan, run, cancel | steps run in order under the confirmed plan; a cancel is settled |
| classifier, recovery providers, side-effect model | none | pure functions | a conservative class and a sound plan |
| SFTP lifecycle, remote backends | session generations, staged files | list, read, write, privileged staging | no result of a superseded session is used |
| managed PTY tasks, terminal tracker | leases, output owners | start, input, cancel, release | one owner of the terminal's output |
| file transfers (`client/components/file-transfer`, `app/server/transfer.js`) | transfer lists, streams, copy budget | start, pause, cancel, resume | a cancelled transfer commits nothing |
| session processes (`app/server/session-process.js`) | active, pending and closing children by pid, the latest request of a pid, reserved ports | terminal, testConnection, closeTerminal, the requests to a child | no child out of sight, no port twice, the newest request wins, every call returns |
| fleet status (`app/server/fleet-status-service.js`) | collection tasks with their workers and temporary sessions | collect, inventory, cancel | what it reports is so, it returns, and no session is left behind |
| SSH tunnels (`app/server/ssh-tunnel*.js`) | an entry per tunnel id: its controller, test, evidence, attempts, timer | start, stop, test, closeAll, reconnect | no listener that no stop finds, no test of what is gone, recoveries end |
| agent loop, takeover (`client/components/ai`) | run budget, tool schedule, gate | run, tool call, take over, hand back | agent and user never both drive |
| repositories (`app/lib`) | indices and files | import, update, delete | index and files agree after a crash |

How they interact: the AI agent, the terminal's modal and the Safety Center all call the runner of
their tab in the renderer.  The runner reads and writes records through the store, which sends each
database action to the main process (`client/common/db.js`); requests and answers keep their order.
The runner talks to the host through `runRemote` and `cancelRemote`.  A foreground command is
started by the terminal, not the runner, between `beginExternalExecution` and
`completeExternalExecution`.  Closing a window ends the renderer's memory, and the next start runs
orphan recovery.

In the main process's server each SSH session is a forked child.  `session-process.js` forks them,
matches answers to requests and ends them; the fleet service is a client of it like the renderer,
and in the child `session-ssh.js` keeps the tunnel runtime of its connection.

What is hard: `cancel` takes neither of the runner's locks and runs beside every job; every state
is read in one await and used after another; remote phases fail, settle late or are released by a
cancel that could not stop them; restarts forget the queues but not the records.  On the server a
call goes on after its caller has given it up, children end at any moment or not at all, and probes,
failures and reconnects of a tunnel overtake each other.  `PROJECT.json`
lists each hazard at its line with the properties that would catch it.

## The modules

| module | models | how |
| --- | --- | --- |
| `OperationStore` | `transaction-store.js`, `db.js` | `state` is the record's state; `dbq` the calls the database has yet to answer, first in first out; `patchq[o]` the queue `enqueuePatch` keeps for o |
| `SafetyRunner` (extends it) | `transaction-runner.js`, the branches for commands; orphan recovery; the terminal, the user and restarts around them | one job per operation (`serialize`), `pc[o]` its await, `lockq` the endpoint queues, `flags` the cancellation requests; the calls of `cancel` are processes of their own (`Callers`) |
| `SafetyLifecycle` | the state machine of `docs/AI-OPS-SAFETY-TRANSACTIONS.md:20-48`, as what the runner promises about records and hosts | the abstract specification; `SafetyRunner!Lifecycle` is the refinement mapping |
| `MCSafetyRunner` | | the constants' values for TLC |
| `BackgroundTasks` | `background-task-registry.js`; `finalizeExecution`, `cancelExecution` of `command-entrypoint.js`; the shell on the host and its files | per task a status check (`check`), a timer, a settlement (`settling`), the execution's `finalizationPromise` (`fin`) and `cancelPromise` (`can`); `Callers` are calls of the registry's cancel |
| `AgentTasks` | `task-runner.js`, `confirmAndRun` of `agent-task-controller.js`, `agent-task-registry.js` | per task the await of `confirmAndRun` (`pc`), of the registry's cancel (`cpc`) and the step's `stopReason`; `entries` is the registry; `scan`, `patching` and `seen` are the pass over orphans |
| `SessionProcess` | `session-process.js` | a call of `terminal` or `testConnection` is a request: `call[r]` is its await, `child`, `entry`, `signal` what became of the process it forked; `active`, `pending`, `latest`, `closing` are the maps by pid, `holds` is `pendingPorts` |
| `FleetStatus` (extends it) | `collect` and `cancel` of `fleet-status-service.js` composed with it | the targets are requests with pids of their own; `task` and `target[t]` are the awaits of `collect` and `collectTarget`, `targetWaits` and `taskWaits` the closes they wait for |
| `SshTunnels` | `ssh-tunnel-runtime.js`, the controllers of `ssh-tunnel.js`, verdicts of `ssh-tunnel-probe.js`, classes of `ssh-tunnel-health.js`, `kill` of `session-ssh.js` | one tunnel id; an entry per call of `start`, its controllers by number; `tunnel[e]` is the entry's state, `test[e]` what it knows of its connectivity, `probes[e]` its probes under way |
| `MCFleetStatus`, `MCSshTunnels` | | the constants' values for TLC |
| `Queue_lemmas` | | facts about `Tail`, `Append` and `Head` of queues |
| `OperationStore_proofs`, `SafetyRunner_proofs`, `BackgroundTasks_proofs`, `AgentTasks_proofs`, `SessionProcess_proofs`, `FleetStatus_proofs`, `SshTunnels_proofs` | | the theorems and their proofs |

In all of them an action is what the code does from one `await` to the next, and is named for
what has happened: `TransitionRead` is the answer to `transition`'s read, `WrittenApplied` the
answer to the write of `rollbackAppliedAt`, `PhasePasses` and `PhaseFails` the settling of
`runRemote`.

**SafetyRunner.** A patch is two requests, as in the code: a read and a write, inside the record's
patch queue.  The abstractions are all of data: commands are their class; a recovery plan is absent,
bound or altered, and a digest check compares it with the bound one; hosts are original, changed or
restored per operation; audit entries, times and messages are left out.  Where the host is changed
the model takes the start of the command, the earliest moment it can be; a rollback may have put the
host back, or not, when it fails or is released.  A remote phase is taken to have stopped once
`runRemote` settles or `cancelRemote` does.  After a restart nobody reports how a running
command ended.  A cancelled catch's reads are merged into one.  `serialize` is modelled by letting a
call begin when no job of its operation runs; its order of waiting calls is chance.

**BackgroundTasks.** The host's part is the launcher: a shell whose pid is in a file, the command it
runs, and the exit file the shell writes.  The signal of a cancel reaches the shell, not the command.
A garbage exit file is one of the wrong answers (`Fault`).  The runner's `complete` and `cancel`
take effect at one moment of their call, since `SafetyRunner` has their steps; each may fail with or
without having written the record.  Left out: the eviction of settled records, and an abort between
the dispatch of a command and its registration.

**AgentTasks.** The tasks are those of one session, which is what the registry locks.  A patch is
one action: `OperationStore` has shown that patches do not overlap, and of the processes here only
the recovery writes what it computed from an earlier reading, which `seen` keeps.  The database
answers in the order it is asked, and a cancel that awaits the run hears of its end before the
controller does; the guards of `Caught`, `CancelReads` and `CancelFails` say so.  `confirmPlan`'s
read, digest and patch are one action, and so are the read and the patch of `CancelFails`.  Whether
the plan is still the confirmed one and whether the endpoint is the plan's is chance: the runner has
to be right either way.  A restart keeps records and commands and may come at any moment.

**SessionProcess and FleetStatus.** A port is searched for from a candidate nobody has reserved;
which one is chance, so that `lastPort` is left out, and `find-free-port` answers a port from there on that
no child listens on.  A child of a connection test only gets the SIGTERM of its `finally`, unless it
errs.  `closeTerminal` does not find a request that still looks for its port; such a call ends by
its abort signal at its next test.  A target leaves `collectTarget` with its outcome the moment an
abort or an answer settles its race, and its close is a step of its own.  Probes are one request
with one answer, since their order is internal to the batch; a probe that times out, or whose session
ends under it, catches that (`runProbe`), so that the target still leaves with success (`ProbesFail`).  The status is
computed before the final closing, so a cancel during it answers `cancelled: true` for a collection
that is completed.  Left out: `inventory`, which is `collect` with one target, `cleanupTerminals` at
exit, ftp children, the SSH bridge, and a `kill()` that throws.

**SshTunnels.** Tunnels of different ids share nothing but the connection, whose end each hears by
itself.  The three kinds of forward differ in what a probe shows (`Stages`, `Results`) and in when
real traffic counts as evidence (`Traffic`).  A probe is tagged with the controller, the generation
and the number of failures it began with; the last is the model's own and only `TestIsCurrent` reads
it.  `failures`, `traffic`, `overwritten` and `forgotten` are such history variables too.  `kill` clears `conn` before
`doKill` would end it, so that a killed session's connection ends no controller here.  It also drops
the runtime: stops, starts and tests that come later get a new, empty one, so they are guarded by
`HasRuntime`, while a start under way still puts its entry into the map of the old one, which
`registered` then stands for.  A failure fails the test, or limits it where the server prohibits
forwarding (`ErrorVerdicts`).  Left out: the
check of the local port before a start, which a start may fail at any time anyway, the bindings of
remote forwards, a close that fails, and the list of events.

Bounds, all in guards: in `SafetyRunner` `MaxRollbacks` calls of rollback per operation,
`MaxCrashes` restarts, `MaxAlters` edits of a plan; in `BackgroundTasks` `MaxFaults` answers that are
errors; in `FleetStatus` each request is made once, and `Scenarios` says which are made in one
behaviour; in `SshTunnels` `MaxStarts`, `MaxEvents` and `Loads` bound the starts, the events of controllers
and the tests of one behaviour, and `MaxAttempts` is the number of the code's delays.  Calls are otherwise
repeated without bound, and so are the restarts of `AgentTasks`.

## What is checked

| run | question | instance |
| --- | --- | --- |
| `runner_recovery` | without cancels, does the recovery point precede the change, do records claim only what the host shows, is the bound plan the one rolled back and never twice, and is `SafetyLifecycle` implemented? | 1 operation of all kinds, 2 rollbacks, 1 restart, 1 edit |
| `runner_cancel` | started once at most? do patches of a record never overlap? no cancellation request left behind? cancelled records final? does every cancel return? | 1 operation of all kinds, 1 canceller, 1 restart, fair |
| `runner_endpoint` | one phase per endpoint? does every call return? | 2 operations on one endpoint, fair |
| `background_tasks` | is what a status says so on the host and in the record? is the end reported once, unchanged by late answers, and reached? | 1 task, 1 cancel at a time, 1 wrong answer, fair |
| `agent_tasks` | one task at a time in a session? does a cancelled one have stopped, and start nothing more? do records agree with their steps? are running tasks spared by the recovery? do cancels return, and sessions get free? | 2 tasks of 2 steps, fair |
| `fleet_sessions` | is every child that runs to be found by its pid, or told to end? are ports distinct? does the newest request of a pid win? does a collection leave no session, report what happened, and return? does every call? | a collection of 2 targets, 2 requests for one session, or a request beside a test; 2 ports; fair |
| `ssh_tunnels` | is every open listener the one a stop finds, but for what racing starts leave? is the test that is shown current? do tests and recoveries end? | 2 starts of one id with a failure, or 1 start of each other kind with 2 events and a test; 2 reconnects in a row; fair |

One operation suffices where a property relates one record to one host, because operations share
only the endpoint queues; two are what it takes to wait for an endpoint, and a third waits as
the second does.  `runner_endpoint` has no cancels: the theorem about `OnePhasePerEndpoint` has them.
Two rollbacks let one be retried after it was applied; one restart between any
two steps is enough to lose the memory once; a second adds the same loss.  Background tasks share
nothing but the terminal's session, whose end each sees as its own.  Two diagnostic tasks are what
it takes to compete for a session, two steps to have one done and one running or waiting.
Two targets let one leave while the other opens; requests of different pids share only
the ports, so two of one pid and one beside a test are the pairs that interact, and two ports are
the fewest with a choice.  The code has three delays where the run has two reconnects: the third repeats
the second.  An overlap needs two starts, which a local forward shows; a failure after a recovery
needs two events.

Fairness.  `SafetyRunner!FairSpec`: every job and every cancel makes progress while it can, because
the database answers each request and `runRemote` and `cancelRemote` have timeouts.
`BackgroundTasks!FairSpec`: the same of checks, finalizations and cancellations; the monitor's timer
has strong fairness, since a cancel may clear it and a failed finalization set it again: it is assumed
that nobody cancels for ever in less than the timer's delay.  `AgentTasks!FairSpec`: the database
and `cancelRemote` answer and the step's timer fires.  `FleetStatus!Fairness` is
one weak fairness of all that timers and the event loop run: the timers of closes, targets and task
fire, a child that is awaited reports or ends (or the target's timer does), one that got SIGKILL ends.
A behaviour has finitely many of these steps, so none waits behind the others.  In
`SshTunnels!Fairness` the timer of a reconnect fires, closes and starts of controllers are answered,
and probes return, having a time-out.  Commands, hosts, users, terminals
and restarts have no fairness, so nothing is concluded from them being kind.

Deadlock is not checked where the system really may stop: operations, tasks, collections and tunnels
end, and then nothing is left to do.

Three things the server runs show without a run of their own.  Two overlapping starts of one tunnel id
with different ports both pass the check of the map, and the second overwrites the first, whose
listener no stop closes any more.  A start that still awaits its controller when the session is killed
(`ssh-tunnel-runtime.js:392-427`) checks nothing afterwards and puts its open controller into the map of
the runtime that `kill` dropped (`session-ssh.js:1301`), where neither a stop nor `closeAll` finds it,
though closing a session is said to clean up its tunnels (`docs/USER_GUIDE_ZH.md:806`): it listens until
the session's process exits.  `OnlyStartsLeak` names both as its exceptions, and only these;
without `forgotten` TLC shows `Start`, `Kill`, `StartOpens`.  And a connection through a
failed tunnel makes it healthy without cancelling a pending reconnect, which then tears the
healthy tunnel down; it recovers, so `RecoveryEnds` holds.

Five runs show where the code and its documents or tests disagree; each is a finding in
`PROJECT.json`.

| run | what happens |
| --- | --- |
| `cancel_strands_change` | a cancel reads `executing`, the execution fails, the cancel's second read sees `failed` and closes the record as cancelled over a changed host |
| `start_after_cancel` | a cancel during the check of the binding returns, and the command starts after it |
| `background_superseded` | another command's withdrawn confirmation advances the generation, and the completion of a task that ended well is refused for ever |
| `agent_lock_released` | a step's stop fails; the run ends and frees the session before the cancel, which failed, can keep it |
| `agent_lock_kept` | a cancel meets a run that fails by itself; the session stays locked by a task that is over |

The first is why `AvailableHoldsChange`, `RestoredIsReverted` and the refinement are checked without cancels: with them
a stale outcome is written over a record that has moved on.  `CancelledIsFinal` is checked with one canceller: two whose
`cancelRemote` fails may turn cancelled into failed, which the documents do not exclude.

## What is proved

For every value of the constants; the only assumptions are those the modules declare about them, and
where a theorem names one more it is said here.  Every safety invariant and action property that a
passing run checks is proved, and so is the refinement.

`SafetyRunner_proofs`, for any number of operations, cancellers, endpoints, restarts and edits:
`TypeOK`, `OneWriter`, `OnePhasePerEndpoint`, `RecoveryBeforeChange`, `StartedOnce`, `RollbackUsesBoundPlan`,
`RollbackNotRepeated` and `FlagsAreOwned`.
The inductive invariant is `Inv == Typed /\ QueuesOK /\ LockOK /\ RecoveryOK /\ StartOK /\ BoundOK`:

- `Typed` and `QueuesOK`: a caller has at most one request in `dbq`, waits in at most one patch
  queue, and is the head of the queue when it reads or writes.  `OneWriter` follows: two writers of
  one record would both be its head.
- `LockOK`: an operation is in the queue of its endpoint at most once, exactly while its job stands at an
  await that needs it, and at the head unless it still waits.  `OnePhasePerEndpoint` follows.
- `RecoveryOK`: where a job has come to in prepare, and what states a record can be in, imply that
  the recovery point was made.  It is needed because the property speaks of the host alone, and
  what keeps the host unchanged is a record's state read many awaits before.
- `StartOK`: an operation's command was not started while its record can still be confirmed, whatever a
  job has in hand to write; `StartedOnce` follows.
- `BoundOK`: a job on its way to a rollback or its verification has seen the bound plan, and one on its
  way to the rollback found it not applied yet.  `RollbackUsesBoundPlan` and `RollbackNotRepeated` follow.

`FlagsAreOwned` is an invariant of its own, of `flags` and the calls of cancel.  Two more arguments
rest on `Inv` and hold only where cancels do not meet, which is what the runs found too:

- `FinalOK`, while no two cancels of one operation overlap (`OneCallEach`, a hypothesis about the
  whole behaviour; cancels of different operations overlap freely): a patch of the job that a cancel met is
  queued before the cancel's own, and once the record says cancelled only a revocation is left to write.
  `CancelledIsFinal` follows.  Two that overlap
  may turn cancelled into failed.
- `LifeOK`, per operation, while nobody cancels that one: what the record says of its host
  (`HostAt`), what a job knows of the record on its way to the host (`EntryAt`), and what the state
  was that its next write replaces (`WriteAt`), whatever is cancelled of other operations
  (`UncancelledIsTrue`).  Where nobody cancels at all (`Callers = {}`, as in `runner_recovery`),
  `RestoredIsReverted` and `AvailableHoldsChange` follow, and the refinement: every step of
  an operation is a move of `SafetyLifecycle` for its record and host or leaves both alone, and at a
  restart each host whose rollback was under way stays or is put back.  `cancel_strands_change` shows why the hypothesis cannot go.

The steps of an operation change nothing of any other but the queues (`OthersKept`), so that most
of these lemmas speak of one operation.

`BackgroundTasks_proofs`, for any number of tasks, cancels and wrong answers: `TypeOK`, `StatusIsTrue`,
`NotifiedOnce` and `SettledStays`.  The inductive invariant says of each task:

- `CapabilityFits`: only a task with a capability is settled, by one settlement at a time, and its agent
  hears of it when the capability goes.  `NotifiedOnce` and `SettledStays` follow.
- `CodesFit`: the exit codes that a check, a settlement or a finalization carries are those of the
  exit file, and that is the command's.  It is needed because the status is written from a code that was read
  several answers before; the one code that is no command's is of a launch that failed.
- `StatusFits`: `StatusIsTrue` itself.

`FleetStatus_proofs` on `SessionProcess_proofs`, for any number of pids, requests, ports, targets and workers:
`TypeOK`, `NoStrayChild`, `PortsDistinct`, `NoSessionLeft`, `ReportIsTrue` and `NewestWins`.  The
inductive invariant is `Inv == TypeOK /\ SessionInv /\ StatusFits /\ FleetFits`, where `SessionInv` speaks of the
sessions alone and is kept by every step of them, whoever calls:

- `EntryFits`, `FoundFits`: a child that was not told to end has its entry open and is found by its pid,
  or is that of a test; an entry that ended under a living child sent it SIGKILL.  `NoStrayChild` follows.
- `PortFits`, `PortsApart`: a call keeps its port reserved until its child listens, so a port is
  always held by the call or by the child.  `PortsDistinct` follows.
- `MapsFit`, `OrderFits`, `LatestFits`: the maps of a pid hold its own requests, made in their
  order, and none was made after the latest.  `NewestWins` follows.
- `TargetFits`, `ReturnFits`: a target that was given up has its call aborted or over, and when the
  workers have returned every entry that is left is one the task waits for.  `NoSessionLeft` follows, with `FoundFits`: a
  target is alone with its pid, so its entry is found until it ends.
- `OutcomeFits`: which outcomes each status admits; `ReportIsTrue` follows.

`AgentTasks_proofs`, for any number of tasks of a session, steps and restarts: `TypeOK`,
`OneRunPerSession`, `CancelledHasStopped`, `StepsMatchStatus`, `LiveTaskSpared` and `NoStepAfterCancel`.  The inductive invariant is
`Inv == TypeOK /\ SessionOK /\ HostOK /\ RecoveryOK /\ StepsOK`:

- `SessionOK`: one task is registered, and a run is of a registered task.  That holds although an
  entry is removed by three parties (the controller, a cancel, the owner's end), because a cancel
  asks the database only once the run is over.
- `HostOK`: where a command may be alive.  A failed stop leaves one alive after the run; what keeps
  the record from saying cancelled then is that it is final before a later cancel can close it.
  `CancelledHasStopped` follows.
- `RecoveryOK`: what the recovery has listed was registered once, and what it patches no longer
  runs.  `LiveTaskSpared` follows.
- `StepsOK`: which steps are done, running or waiting at each await of the run, in the record and in
  what the recovery has read.  `StepsMatchStatus` follows.

`SshTunnels_proofs`, for any number of starts, events, tests and reconnects in a row: `TypeOK`,
`OnlyStartsLeak` and `TestIsCurrent`.  The inductive invariant is
`Inv == Typed /\ StartedOK /\ KilledOK /\ ReconnectOK /\ CountOK /\ OnlyStartsLeak /\ ProbesOK /\ CarriedOK /\ EvidenceOK`:

- `StartedOK`: an entry is as it was made until its start returns, and only then it is registered.
- `KilledOK`: a killed session has no entry but what a start put there later, so that a kill
  leaves no other tunnel in the map it drops.
- `ReconnectOK`: a tunnel that reconnects hears of nothing, has no timer and no evidence, and its old
  controller is not open.  It is needed because the new controller takes the old one's place:
  an old one that were still open would be found by no stop.  Together they preserve
  `OnlyStartsLeak`, which is itself a conjunct.
- `CountOK`: a controller is replaced once for an event or the end of the connection, so that their
  number bounds the controllers.
- `ProbesOK`: what counts a failure starts a generation, so a probe of the present generation was
  begun after the last failure, though `applyProbeResult` compares no failures.
- `CarriedOK`: what the controller remembers as carried went through it since the last failure, as
  long as it is open; a lost connection has forgotten it.
- `EvidenceOK`: what is shown is dated as `TestIsCurrent` says; it also speaks of evidence that is
  not shown yet, which a later, weaker result brings back.

Liveness (`CancelsReturn`, `CallsReturn`, `TaskSettles`, `SessionFreed`, `CallsSettle`,
`CollectReturns`, `TestSettles`, `RecoveryEnds`) rests on fairness, hence on ENABLED, which is out of the
prover's reach; it stays with TLC.  So do the five disagreements, which are behaviours to be
shown and not facts to be proved.

## Plan

1. Done: `OperationStore`, `SafetyRunner`, `SafetyLifecycle`, `BackgroundTasks`, `AgentTasks`,
   `SessionProcess`, `FleetStatus`, `SshTunnels`, their runs, and the proofs above.
2. `SideEffectRunner`: the side-effect branches with the SFTP adapter's hooks: a mutation is
   announced in the record before it is made, and a cancelled one is settled by what was announced.
3. `CommandEntrypoint` composed with the runner's calls: pending decisions, tracker tokens,
   retries; the confirmed command is the submitted one.
4. Managed PTY leases, agent takeover, the tool scheduler; transfers, SFTP generations; the operation-task store; the repositories' crash behaviour.
5. Proofs: done for every safety and action property of the modules there are, and for the
   refinement; the modules of 2 to 4 get theirs with them.

Not planned: the classifier and providers (pure text), React components, protocol drivers and
byte streams, Electron wiring; they hold little state that several actors share.
