----------------------- MODULE BackgroundTasks_proofs -----------------------
(***************************************************************************)
(* Proofs about BackgroundTasks: types, that the status of a task is true, *)
(* that its agent is notified once and that a settled task stays so, for   *)
(* any number of tasks, calls of cancel and errors.                        *)
(*                                                                         *)
(* Every part of the invariant is about one task, and every step is of one *)
(* task: the lemmas say what a step does to its task and that it leaves    *)
(* the others as they were.                                                *)
(***************************************************************************)
EXTENDS BackgroundTasks, TLAPS

(* Only a task with a capability is being settled; the registry waits for  *)
(* the cancellation it asked for, and notifies when the capability goes.   *)
CapabilityFits(t) ==
    /\ status[t] = "absent" => t \notin cap /\ launch[t] = "none"
    /\ t \in cap \/ status[t] = "absent" => ends[t] = 0
    /\ settling[t] # "none" => t \in cap
    /\ (settling[t] \in {"cancelled", "unknown"}) <=> (can[t] = "registry")
    /\ ends[t] <= 1

(* The codes that are carried about are what the command exited with, or   *)
(* tell of a launch that failed before there was a command.                *)
NeverBorn(t) == launch[t] = "seen" /\ wrapper[t] = "unborn" /\ fcode[t] = "nonzero"
CodesFit(t) ==
    /\ wrapper[t] = "unborn" <=> payload[t] = "unborn"
    /\ exitFile[t] # "none" =>
          /\ payload[t] = exitFile[t] /\ wrapper[t] # "unborn"
          /\ payload[t] \in {"zero", "nonzero"}
    /\ settling[t] = "finalize" => rcode[t] = exitFile[t] /\ exitFile[t] # "none"
    /\ settling[t] = "cancelled" => wrapper[t] = "dead"
    /\ fin[t] # "none" =>
          (exitFile[t] # "none" /\ fcode[t] = exitFile[t]) \/ NeverBorn(t)

(* StatusIsTrue of one task *)
StatusFits(t) ==
    /\ status[t] = "completed" => payload[t] = "zero" /\ tx[t] = "completed"
    /\ status[t] = "failed" => payload[t] = "nonzero" /\ tx[t] = "exit-failed"
    /\ status[t] = "cancelled" => wrapper[t] = "dead" /\ tx[t] \in {"cancelled", "exit-failed"}

Fits(t) == CapabilityFits(t) /\ CodesFit(t) /\ StatusFits(t)
Inv == TypeOK /\ \A t \in Tasks : Fits(t)

(* What the invariant and the properties read of a task, left as it was *)
Same(t) ==
    /\ wrapper'[t] = wrapper[t] /\ payload'[t] = payload[t] /\ exitFile'[t] = exitFile[t]
    /\ launch'[t] = launch[t] /\ tx'[t] = tx[t]
    /\ (t \in cap') <=> (t \in cap)
    /\ status'[t] = status[t] /\ settling'[t] = settling[t] /\ ends'[t] = ends[t]
    /\ rcode'[t] = rcode[t] /\ fin'[t] = fin[t] /\ fcode'[t] = fcode[t] /\ can'[t] = can[t]

(* SettledStays of one task and one step *)
Stays(t) == status[t] # "absent" /\ t \notin cap => status'[t] = status[t]

(* the types of settleVars *)
SettleTyped ==
    /\ cap \subseteq Tasks /\ pending \subseteq Tasks /\ timer \subseteq Tasks
    /\ status \in [Tasks -> Final \cup {"absent", "started", "starting", "running"}]
    /\ settling \in [Tasks -> {"none", "finalize", "cancelled", "unknown"}]
    /\ ends \in [Tasks -> Nat]
    /\ fcode \in [Tasks -> Codes] /\ rcode \in [Tasks -> Codes]
    /\ fin \in [Tasks -> {"none", "join", "complete", "undo"}]
    /\ can \in [Tasks -> {"none", "registry", "undo", "session"}]

(* A step of one task: it keeps what holds of the task, and leaves alone   *)
(* the others.                                                             *)
StepOf(t) == Fits(t)' /\ Stays(t) /\ \A u \in Tasks \ {t} : Same(u)

---------------------------------------------------------------------------
(* What one task's step does is enough: the others are as they were.       *)
LEMMA OthersFit ==
    ASSUME \A t \in Tasks : Fits(t), NEW u \in Tasks, StepOf(u)
    PROVE  \A t \in Tasks : Fits(t)' /\ Stays(t)
<1> SUFFICES ASSUME NEW t \in Tasks \ {u} PROVE Fits(t)' /\ Stays(t)
  BY DEF StepOf
<1>1. Same(t) /\ Fits(t)
  BY DEF StepOf
<1>2. CapabilityFits(t)'
  BY <1>1 DEF Same, Fits, CapabilityFits
<1>3. CodesFit(t)'
  BY <1>1 DEF Same, Fits, CodesFit, NeverBorn
<1>4. StatusFits(t)'
  BY <1>1 DEF Same, Fits, StatusFits
<1>5. QED
  BY <1>1, <1>2, <1>3, <1>4 DEF Same, Fits, Stays

(* A call of the registry that settles a task, or finds it settled. *)
Calls(t) ==
    \/ exitFile[t] # "none" /\ CallFinalize(t, exitFile[t])
    \/ CallCancel(t, "unknown")
    \/ wrapper'[t] = "dead" /\ CallCancel(t, "cancelled")
    \/ UNCHANGED settleVars

(* The signal of a cancel, or none *)
Signalled(t) ==
    \/ UNCHANGED wrapper
    \/ wrapper[t] = "alive" /\ wrapper' = [wrapper EXCEPT ![t] = "dead"]

(* Such a call keeps the registry's variables in their sets. *)
LEMMA CallTyped ==
    ASSUME TypeOK, NEW t \in Tasks, Calls(t)
    PROVE  SettleTyped'
<1> USE DEF TypeOK, SettleTyped, Codes, Final
<1>1. CASE UNCHANGED settleVars
  BY <1>1 DEF settleVars
<1>2. CASE ~Unsettled(t) /\ UNCHANGED settleVars
  BY <1>2 DEF settleVars
<1>3. ASSUME CallFinalize(t, exitFile[t]), Unsettled(t) PROVE SettleTyped'
  <2>1. CASE t \in settled
    BY <1>3, <2>1 DEF CallFinalize, Retry
  <2>2. CASE t \notin settled
    BY <1>3, <2>2 DEF CallFinalize, StartFinalization
  <2>3. QED
    BY <2>1, <2>2
<1>4. ASSUME NEW o \in {"unknown", "cancelled"}, CallCancel(t, o), Unsettled(t)
      PROVE  SettleTyped'
  <2>1. CASE Cancellable(t)
    BY <1>4, <2>1 DEF CallCancel
  <2>2. CASE ~Cancellable(t)
    BY <1>4, <2>2 DEF CallCancel, Finish
  <2>3. QED
    BY <2>1, <2>2
<1>5. QED
  BY <1>1, <1>2, <1>3, <1>4 DEF Calls, CallFinalize, CallCancel

(* Such a call is a step of its task: it ends it only while it has its     *)
(* capability, and carries the code of the exit file.                      *)
LEMMA CallFits ==
    ASSUME TypeOK, NEW t \in Tasks, Fits(t), Calls(t), Signalled(t),
           UNCHANGED <<payload, exitFile, launch, tx>>
    PROVE  StepOf(t)
<1> USE DEF TypeOK
<1>1. CASE UNCHANGED settleVars
  <2>1. Fits(t)'
    BY <1>1 DEF settleVars, Signalled, Fits, CapabilityFits, CodesFit, NeverBorn, StatusFits
  <2>2. QED
    BY <1>1, <2>1 DEF settleVars, Signalled, StepOf, Stays, Same
<1>2. ASSUME exitFile[t] # "none", CallFinalize(t, exitFile[t]), Unsettled(t)
      PROVE  StepOf(t)
  <2>1. CASE t \in settled
    <3>1. Retry(t) /\ rcode' = [rcode EXCEPT ![t] = exitFile[t]] /\ UNCHANGED <<fin, fcode, can>>
      BY <1>2, <2>1 DEF CallFinalize
    <3>2. Fits(t)'
      BY <1>2, <3>1 DEF Retry, Unsettled, Signalled, Fits, CapabilityFits, CodesFit,
         NeverBorn, StatusFits
    <3>3. QED
      BY <1>2, <3>1, <3>2 DEF Retry, Unsettled, Signalled, StepOf, Stays, Same
  <2>2. CASE t \notin settled
    <3>1. /\ settling' = [settling EXCEPT ![t] = "finalize"]
          /\ rcode' = [rcode EXCEPT ![t] = exitFile[t]]
          /\ StartFinalization(t, exitFile[t])
          /\ UNCHANGED <<cap, status, ends, can>>
      BY <1>2, <2>2 DEF CallFinalize
    <3>2. fin[t] # "none" => fin' = fin /\ fcode' = fcode
      BY <3>1 DEF StartFinalization
    <3>3. fin[t] = "none" => /\ fcode'[t] = exitFile[t]
                             /\ \A u \in Tasks \ {t} : fin'[u] = fin[u] /\ fcode'[u] = fcode[u]
      BY <3>1 DEF StartFinalization
    <3>4. CapabilityFits(t)' /\ StatusFits(t)' /\ Stays(t)
      BY <1>2, <3>1 DEF Unsettled, Signalled, Fits, CapabilityFits, StatusFits, Stays
    <3>5. CodesFit(t)'
      BY <1>2, <3>1, <3>2, <3>3 DEF Unsettled, Signalled, Fits, CodesFit, NeverBorn
    <3>6. ASSUME NEW u \in Tasks \ {t} PROVE Same(u)
      BY <3>1, <3>2, <3>3 DEF Signalled, Same
    <3>7. QED
      BY <3>4, <3>5, <3>6 DEF StepOf, Fits
  <2>3. QED
    BY <2>1, <2>2
<1>3. ASSUME NEW o \in {"unknown", "cancelled"}, CallCancel(t, o), Unsettled(t),
             o = "cancelled" => wrapper'[t] = "dead"
      PROVE  StepOf(t)
  <2>1. CASE Cancellable(t)
    <3>1. /\ settling' = [settling EXCEPT ![t] = o] /\ can' = [can EXCEPT ![t] = "registry"]
          /\ UNCHANGED <<cap, status, rcode, ends, fin, fcode>>
      BY <1>3, <2>1 DEF CallCancel
    <3>2. CapabilityFits(t)' /\ StatusFits(t)' /\ Stays(t)
      BY <1>3, <3>1 DEF Unsettled, Signalled, Fits, CapabilityFits, StatusFits, Stays
    <3>3. CodesFit(t)'
      BY <1>3, <3>1 DEF Unsettled, Signalled, Fits, CodesFit, NeverBorn
    <3>4. ASSUME NEW u \in Tasks \ {t} PROVE Same(u)
      BY <3>1 DEF Signalled, Same
    <3>5. QED
      BY <3>2, <3>3, <3>4 DEF StepOf, Fits
  <2>2. CASE ~Cancellable(t)
    <3>1. Finish(t, "unknown") /\ UNCHANGED <<rcode, fin, fcode, can>>
      BY <1>3, <2>2 DEF CallCancel
    <3>2. CapabilityFits(t)' /\ StatusFits(t)' /\ Stays(t)
      BY <1>3, <3>1 DEF Finish, Unsettled, Signalled, Fits, CapabilityFits, StatusFits, Stays
    <3>3. CodesFit(t)'
      BY <1>3, <3>1 DEF Finish, Unsettled, Signalled, Fits, CodesFit, NeverBorn
    <3>4. ASSUME NEW u \in Tasks \ {t} PROVE Same(u)
      BY <3>1 DEF Finish, Signalled, Same
    <3>5. QED
      BY <3>2, <3>3, <3>4 DEF StepOf, Fits
  <2>3. QED
    BY <2>1, <2>2
<1>4. QED
  BY <1>1, <1>2, <1>3 DEF Calls, CallFinalize, CallCancel

---------------------------------------------------------------------------
(* The steps of the registry. *)

(* A step that leaves the host, the execution and who settles the task     *)
(* alone, but may say of a task with a capability how far its start is.    *)
Quiet(t) ==
    /\ UNCHANGED <<wrapper, payload, exitFile, launch, tx, cap, settling, ends, rcode, fin,
                   fcode, can>>
    /\ \/ UNCHANGED status
       \/ t \in cap /\ \E s \in {"starting", "running"} : status' = [status EXCEPT ![t] = s]

(* Such a step is a step of its task. *)
LEMMA QuietFits ==
    ASSUME TypeOK, NEW t \in Tasks, Fits(t), Quiet(t)
    PROVE  StepOf(t)
<1> USE DEF TypeOK
<1>1. CapabilityFits(t)' /\ CodesFit(t)'
  BY DEF Quiet, Fits, CapabilityFits, CodesFit, NeverBorn
<1>2. StatusFits(t)' /\ Stays(t)
  BY DEF Quiet, Fits, CapabilityFits, StatusFits, Stays
<1>3. ASSUME NEW u \in Tasks \ {t} PROVE Same(u)
  BY DEF Quiet, Same
<1>4. QED
  BY <1>1, <1>2, <1>3 DEF StepOf, Fits

(* A step that calls: it settles through Calls or not at all. *)
CallStep(t) ==
    /\ Calls(t) /\ Signalled(t)
    /\ UNCHANGED <<payload, pids, exitFile, executionVars, late>>
    /\ check' \in [Tasks -> Checks] /\ watching' \subseteq Tasks
    /\ cpc' \in [Callers -> {"idle", "exit", "pid", "kill", "lateexit"}]
    /\ ctask' \in [Callers -> Tasks] /\ faults' \in Nat

(* It keeps the types, and is a step of its task. *)
LEMMA CallStepFits ==
    ASSUME Inv, NEW t \in Tasks, CallStep(t)
    PROVE  TypeOK' /\ StepOf(t)
<1>1. TypeOK /\ Fits(t) /\ Calls(t)
  BY DEF Inv, CallStep
<1>2. SettleTyped'
  BY <1>1, CallTyped
<1>3. TypeOK'
  BY <1>1, <1>2 DEF SettleTyped, TypeOK, CallStep, Signalled, executionVars
<1>4. StepOf(t)
  BY <1>1, CallFits DEF CallStep, executionVars
<1>5. QED
  BY <1>3, <1>4

(* The timer, a status call and the steps of a check are steps of their    *)
(* task.                                                                   *)
LEMMA CheckFits ==
    ASSUME Inv, NEW t \in Tasks, TimerFires(t) \/ Status(t) \/ CheckStep(t) \/ TimesOut(t)
    PROVE  TypeOK' /\ StepOf(t)
<1> USE DEF Checks
<1>1. TypeOK /\ Fits(t)
  BY DEF Inv
<1>2. CASE TimerFires(t)
  <2>1. CASE t \in late /\ Unsettled(t)
    <3>1. CallStep(t)
      BY <1>1, <1>2, <2>1 DEF TimerFires, Interrupt, CallStep, Calls, Signalled, TypeOK,
         hostVars, checkVars, cancelVars
    <3>2. QED
      BY <3>1, CallStepFits
  <2>2. CASE ~(t \in late /\ Unsettled(t))
    <3>1. Quiet(t)
      BY <1>2, <2>2 DEF TimerFires, Quiet, hostVars, executionVars
    <3>2. TypeOK'
      BY <1>1, <1>2, <2>2 DEF TimerFires, StartCheck, TypeOK, hostVars, executionVars,
         checkVars, cancelVars
    <3>3. QED
      BY <1>1, <3>1, <3>2, QuietFits
  <2>3. QED
    BY <2>1, <2>2
<1>3. CASE Status(t)
  <2>1. Quiet(t)
    BY <1>3 DEF Status, Quiet, hostVars, executionVars, settleVars
  <2>2. TypeOK'
    BY <1>1, <1>3 DEF Status, StartCheck, TypeOK, hostVars, executionVars, settleVars, cancelVars
  <2>3. QED
    BY <1>1, <2>1, <2>2, QuietFits
<1>4. CASE TimesOut(t)
  <2>1. Quiet(t)
    BY <1>4 DEF TimesOut, Quiet, hostVars, executionVars, settleVars
  <2>2. TypeOK'
    BY <1>1, <1>4 DEF TimesOut, TypeOK, hostVars, executionVars, settleVars, checkVars, cancelVars
  <2>3. QED
    BY <1>1, <2>1, <2>2, QuietFits
<1>5. CASE Superseded(t) \/ CheckReturns(t)
  <2>1. Quiet(t)
    BY <1>5 DEF Superseded, CheckReturns, Quiet, hostVars, executionVars
  <2>2. TypeOK'
    BY <1>1, <1>5 DEF Superseded, CheckReturns, CheckEnds, TypeOK, hostVars, executionVars,
       cancelVars
  <2>3. QED
    BY <1>1, <2>1, <2>2, QuietFits
<1>6. CASE CheckExit(t)
  <2>1. Calls(t)
    BY <1>6 DEF CheckExit, Calls, Interrupt
  <2>2. \E p \in Checks : CheckGoes(t, p)
    BY <1>6 DEF CheckExit
  <2>3. check' \in [Tasks -> Checks] /\ watching' \subseteq Tasks
    BY <1>1, <2>2 DEF CheckGoes, TypeOK
  <2>4. CallStep(t)
    BY <1>1, <1>6, <2>1, <2>3 DEF CheckExit, CallStep, Signalled, TypeOK, hostVars, cancelVars
  <2>5. QED
    BY <2>4, CallStepFits
<1>7. CASE CheckFails(t)
  <2>1. Calls(t)
    BY <1>7 DEF CheckFails, Calls, Interrupt
  <2>2. check' \in [Tasks -> Checks] /\ watching' \subseteq Tasks
    BY <1>1, <1>7 DEF CheckFails, CheckGoes, TypeOK
  <2>3. faults' \in Nat
    BY <1>1, <1>7 DEF CheckFails, Fault, TypeOK
  <2>4. CallStep(t)
    BY <1>1, <1>7, <2>1, <2>2, <2>3 DEF CheckFails, CallStep, Signalled, TypeOK, hostVars,
       cancelVars
  <2>5. QED
    BY <2>4, CallStepFits
<1>8. ASSUME NEW s \in {"starting", "running"}, t \in cap,
             status' = [status EXCEPT ![t] = s], CheckEnds(t),
             UNCHANGED <<cap, settling, rcode, pending, ends, fin, fcode, can>>,
             UNCHANGED <<hostVars, executionVars, cancelVars, late, faults>>
      PROVE  TypeOK' /\ StepOf(t)
  <2>1. Quiet(t)
    BY <1>8 DEF Quiet, hostVars, executionVars
  <2>2. TypeOK'
    BY <1>1, <1>8 DEF CheckEnds, TypeOK, hostVars, executionVars, cancelVars
  <2>3. QED
    BY <1>1, <2>1, <2>2, QuietFits
<1>9. CASE CheckPid(t)
  <2>1. CASE t \notin pids /\ status' = [status EXCEPT ![t] = "starting"] /\ CheckEnds(t)
             /\ UNCHANGED <<cap, settling, rcode, pending, ends, fin, fcode, can>>
    BY <1>8, <1>9, <2>1 DEF CheckPid, Current
  <2>2. ASSUME NEW p \in Checks, Calls(t), CheckGoes(t, p) PROVE CallStep(t)
    <3>1. check' \in [Tasks -> Checks] /\ watching' \subseteq Tasks
      BY <1>1, <2>2 DEF CheckGoes, TypeOK
    <3>2. QED
      BY <1>1, <1>9, <2>2, <3>1 DEF CheckPid, CallStep, Signalled, TypeOK, hostVars, cancelVars
  <2>3. QED
    BY <1>9, <2>1, <2>2, CallStepFits DEF CheckPid, Calls, Interrupt
<1>10. CASE CheckAlive(t)
  <2>1. CASE wrapper[t] = "alive" /\ status' = [status EXCEPT ![t] = "running"] /\ CheckEnds(t)
             /\ UNCHANGED <<cap, settling, rcode, pending, ends, fin, fcode, can>>
    BY <1>8, <1>10, <2>1 DEF CheckAlive, Current
  <2>2. ASSUME Calls(t), CheckGoes(t, "lateexit") PROVE CallStep(t)
    <3>1. check' \in [Tasks -> Checks] /\ watching' \subseteq Tasks
      BY <1>1, <2>2 DEF CheckGoes, TypeOK
    <3>2. QED
      BY <1>1, <1>10, <2>2, <3>1 DEF CheckAlive, CallStep, Signalled, TypeOK, hostVars,
         cancelVars
  <2>3. QED
    BY <1>10, <2>1, <2>2, CallStepFits DEF CheckAlive, Calls
<1>11. QED
  BY <1>2, <1>3, <1>4, <1>5, <1>6, <1>7, <1>9, <1>10 DEF CheckStep

(* A call of cancel only remembers its task. *)
LEMMA CancelFits ==
    ASSUME Inv, NEW c \in Callers, NEW t \in Tasks, Cancel(c, t)
    PROVE  TypeOK' /\ StepOf(t)
<1>1. TypeOK /\ Fits(t)
  BY DEF Inv
<1>2. Quiet(t)
  BY DEF Cancel, Quiet, hostVars, executionVars, settleVars
<1>3. TypeOK'
  BY <1>1 DEF Cancel, TypeOK, hostVars, executionVars, settleVars, checkVars
<1>4. QED
  BY <1>1, <1>2, <1>3, QuietFits

(* The steps of a call of cancel are steps of its task. *)
LEMMA CancelStepFits ==
    ASSUME Inv, NEW c \in Callers, CancelStep(c)
    PROVE  TypeOK' /\ StepOf(ctask[c])
<1> DEFINE t == ctask[c]
           Pcs == {"idle", "exit", "pid", "kill", "lateexit"}
<1>1. TypeOK /\ t \in Tasks
  BY DEF Inv, TypeOK
<1>2. ASSUME NEW p \in Pcs, CancelGoes(c, p)
      PROVE  cpc' \in [Callers -> Pcs] /\ ctask' \in [Callers -> Tasks]
  BY <1>1, <1>2 DEF CancelGoes, TypeOK
<1>3. CASE CancelExit(c)
  <2>1. Calls(t)
    BY <1>3 DEF CancelExit, Calls, Interrupt
  <2>2. \E p \in Pcs : CancelGoes(c, p)
    BY <1>3 DEF CancelExit
  <2>3. CallStep(t)
    BY <1>1, <1>2, <1>3, <2>1, <2>2 DEF CancelExit, CallStep, Signalled, TypeOK, hostVars,
       checkVars
  <2>4. QED
    BY <1>1, <2>3, CallStepFits
<1>4. CASE CancelPid(c)
  <2>1. Calls(t)
    BY <1>4 DEF CancelPid, Calls, Interrupt
  <2>2. \E p \in Pcs : CancelGoes(c, p)
    BY <1>4 DEF CancelPid
  <2>3. CallStep(t)
    BY <1>1, <1>2, <1>4, <2>1, <2>2 DEF CancelPid, CallStep, Signalled, TypeOK, hostVars,
       checkVars
  <2>4. QED
    BY <1>1, <2>3, CallStepFits
<1>5. CASE CancelFails(c)
  <2>1. Calls(t) /\ CancelGoes(c, "idle") /\ faults' \in Nat
    BY <1>1, <1>5 DEF CancelFails, Calls, Interrupt, Fault, TypeOK
  <2>2. CallStep(t)
    BY <1>1, <1>2, <1>5, <2>1 DEF CancelFails, CallStep, Signalled, TypeOK, hostVars, checkVars
  <2>3. QED
    BY <1>1, <2>2, CallStepFits
<1>6. CASE CancelKill(c)
  <2>1. Signalled(t)
    BY <1>6 DEF CancelKill, Signalled
  <2>2. Calls(t)
    BY <1>1, <1>6 DEF CancelKill, Calls, TypeOK
  <2>3. \E p \in Pcs : CancelGoes(c, p)
    BY <1>6 DEF CancelKill
  <2>4. faults' \in Nat
    BY <1>1, <1>6 DEF CancelKill, Fault, NoFault, TypeOK
  <2>5. CallStep(t)
    BY <1>1, <1>2, <1>6, <2>1, <2>2, <2>3, <2>4 DEF CancelKill, CallStep, TypeOK, checkVars
  <2>6. QED
    BY <1>1, <2>5, CallStepFits
<1>7. QED
  BY <1>3, <1>4, <1>5, <1>6 DEF CancelStep

---------------------------------------------------------------------------
(* The steps of the terminal and of the host. *)

(* A step of the terminal is a step of its task: a launch that fails tells *)
(* of no command, since none was born.                                     *)
LEMMA TerminalFits ==
    ASSUME Inv, NEW t \in Tasks, TerminalStep(t)
    PROVE  TypeOK' /\ StepOf(t)
<1>1. TypeOK /\ Fits(t)
  BY DEF Inv
<1> USE DEF TypeOK, hostVars, checkVars, cancelVars
<1>2. CASE Register(t)
  <2>1. TypeOK'
    BY <1>1, <1>2 DEF Register
  <2>2. Fits(t)' /\ Stays(t)
    BY <1>1, <1>2 DEF Register, Fits, CapabilityFits, CodesFit, NeverBorn, StatusFits, Stays
  <2>3. ASSUME NEW u \in Tasks \ {t} PROVE Same(u)
    BY <1>1, <1>2 DEF Register, Same
  <2>4. QED
    BY <2>1, <2>2, <2>3 DEF StepOf
<1>3. CASE LaunchSeen(t)
  <2>1. TypeOK'
    BY <1>1, <1>3 DEF LaunchSeen, settleVars
  <2>2. Fits(t)' /\ Stays(t)
    BY <1>1, <1>3 DEF LaunchSeen, settleVars, Fits, CapabilityFits, CodesFit, NeverBorn,
       StatusFits, Stays
  <2>3. ASSUME NEW u \in Tasks \ {t} PROVE Same(u)
    BY <1>1, <1>3 DEF LaunchSeen, settleVars, Same
  <2>4. QED
    BY <2>1, <2>2, <2>3 DEF StepOf
<1>4. CASE LaunchFailed(t)
  <2>1. /\ fin' \in [Tasks -> {"none", "join", "complete", "undo"}]
        /\ fcode' \in [Tasks -> Codes]
    BY <1>1, <1>4 DEF LaunchFailed, StartFinalization, Codes
  <2>2. TypeOK'
    BY <1>1, <1>4, <2>1 DEF LaunchFailed
  <2>3. fin[t] = "none"
    BY <1>1, <1>4 DEF LaunchFailed, Fits, CodesFit, NeverBorn
  <2>4. fin' = fin \/ fcode'[t] = "nonzero"
    BY <1>1, <1>4, <2>3 DEF LaunchFailed, StartFinalization
  <2>5. CapabilityFits(t)' /\ StatusFits(t)' /\ Stays(t)
    BY <1>1, <1>4 DEF LaunchFailed, Fits, CapabilityFits, StatusFits, Stays
  <2>6. CodesFit(t)'
    BY <1>1, <1>4, <2>3, <2>4 DEF LaunchFailed, Fits, CodesFit, NeverBorn
  <2>7. ASSUME NEW u \in Tasks \ {t} PROVE Same(u)
    BY <1>1, <1>4 DEF LaunchFailed, StartFinalization, Same
  <2>8. QED
    BY <2>2, <2>5, <2>6, <2>7 DEF StepOf, Fits
<1>5. CASE OtherCancelled(t)
  <2>1. TypeOK'
    BY <1>1, <1>5 DEF OtherCancelled, settleVars
  <2>2. Quiet(t)
    BY <1>5 DEF OtherCancelled, settleVars, Quiet
  <2>3. QED
    BY <1>1, <2>1, <2>2, QuietFits
<1>6. CASE SessionStops(t)
  <2>1. can' \in [Tasks -> {"none", "registry", "undo", "session"}]
    BY <1>1, <1>6 DEF SessionStops
  <2>2. TypeOK'
    BY <1>1, <1>6, <2>1 DEF SessionStops
  <2>3. can'[t] = can[t] \/ (can[t] = "none" /\ can'[t] = "session")
    BY <1>1, <1>6 DEF SessionStops, Cancellable
  <2>4. CapabilityFits(t)'
    BY <1>1, <1>6, <2>3 DEF SessionStops, Fits, CapabilityFits
  <2>5. CodesFit(t)' /\ StatusFits(t)' /\ Stays(t)
    BY <1>1, <1>6 DEF SessionStops, Fits, CodesFit, NeverBorn, StatusFits, Stays
  <2>6. ASSUME NEW u \in Tasks \ {t} PROVE Same(u)
    BY <1>1, <1>6 DEF SessionStops, Same
  <2>7. QED
    BY <2>2, <2>4, <2>5, <2>6 DEF StepOf, Fits
<1>7. QED
  BY <1>2, <1>3, <1>4, <1>5, <1>6 DEF TerminalStep

(* A step of the host is a step of its task: a command exits once, and its *)
(* exit file then says how.                                                *)
LEMMA HostFits ==
    ASSUME Inv, NEW t \in Tasks, HostStep(t)
    PROVE  TypeOK' /\ StepOf(t)
<1>1. TypeOK /\ Fits(t)
  BY DEF Inv
<1>2. UNCHANGED <<executionVars, settleVars, checkVars, cancelVars, late, faults>>
  BY DEF HostStep
<1> USE DEF TypeOK, executionVars, settleVars, checkVars, cancelVars
<1>3. /\ wrapper' \in [Tasks -> {"unborn", "alive", "dead"}]
      /\ payload' \in [Tasks -> {"unborn", "running", "zero", "nonzero"}]
      /\ pids' \subseteq Tasks
  BY <1>1 DEF HostStep, Born, WritesPid, PayloadEnds, WritesExit, WrapperEnds
<1>4. exitFile' \in [Tasks -> Codes]
  <2>1. CASE WritesExit(t)
    <3>1. payload[t] \in Codes
      BY <1>1, <2>1 DEF WritesExit, Fits, CodesFit, Codes
    <3>2. QED
      BY <1>1, <2>1, <3>1 DEF WritesExit
  <2>2. CASE ~WritesExit(t)
    BY <1>1, <2>2 DEF HostStep, Born, WritesPid, PayloadEnds, WrapperEnds
  <2>3. QED
    BY <2>1, <2>2
<1>5. TypeOK'
  BY <1>1, <1>2, <1>3, <1>4
<1>6. CapabilityFits(t)' /\ Stays(t)
  BY <1>1, <1>2 DEF Fits, CapabilityFits, Stays
<1>7. CodesFit(t)' /\ StatusFits(t)'
  <2>1. CASE Born(t)
    BY <1>1, <1>2, <2>1 DEF Born, Fits, CodesFit, NeverBorn, StatusFits
  <2>2. CASE WritesPid(t)
    BY <1>1, <1>2, <2>2 DEF WritesPid, Fits, CodesFit, NeverBorn, StatusFits
  <2>3. CASE PayloadEnds(t)
    BY <1>1, <1>2, <2>3 DEF PayloadEnds, Fits, CodesFit, NeverBorn, StatusFits
  <2>4. CASE WritesExit(t)
    BY <1>1, <1>2, <2>4 DEF WritesExit, Fits, CodesFit, NeverBorn, StatusFits
  <2>5. CASE WrapperEnds(t)
    BY <1>1, <1>2, <2>5 DEF WrapperEnds, Fits, CodesFit, NeverBorn, StatusFits
  <2>6. QED
    BY <2>1, <2>2, <2>3, <2>4, <2>5 DEF HostStep
<1>8. ASSUME NEW u \in Tasks \ {t} PROVE Same(u)
  BY <1>1, <1>2 DEF HostStep, Born, WritesPid, PayloadEnds, WritesExit, WrapperEnds, Same
<1>9. QED
  BY <1>5, <1>6, <1>7, <1>8 DEF StepOf, Fits

---------------------------------------------------------------------------
(* The finalization and the cancellation of an execution. *)

(* What a status says is so once the record is written. *)
True(t, s) ==
    /\ s = "completed" => payload[t] = "zero" /\ tx'[t] = "completed"
    /\ s = "failed" => payload[t] = "nonzero" /\ tx'[t] = "exit-failed"
    /\ s = "cancelled" => wrapper[t] = "dead" /\ tx'[t] \in {"cancelled", "exit-failed"}

(* The record of the operation is written, if it was not before. *)
RecordWritten(t) ==
    \/ tx' = tx
    \/ /\ tx[t] = "executing"
       /\ \E x \in {"completed", "exit-failed", "cancelled"} : tx' = [tx EXCEPT ![t] = x]

(* The result of a finalization or a cancellation, as the registry takes   *)
(* it: with nothing, by a finalization to be tried again, or by the end.   *)
Taken(t) ==
    \/ NotSettled
    \/ settling[t] = "finalize" /\ Retry(t)
    \/ t \in cap /\ \E s \in Final : Finish(t, s) /\ True(t, s)

(* A step that ends or gives up one of the two: the record is written at   *)
(* most once, no finalization starts, and the registry stops waiting for a *)
(* cancellation when it has its result.                                    *)
Ends(t) ==
    /\ UNCHANGED <<wrapper, payload, exitFile, launch, rcode, fcode>>
    /\ RecordWritten(t)
    /\ \E f \in {"none", "complete", "undo"} :
          fin' = fin \/ (fin[t] # "none" /\ fin' = [fin EXCEPT ![t] = f])
    /\ can' = can \/ \E k \in {"none", "undo"} : can' = [can EXCEPT ![t] = k]
    /\ can[t] = "registry" => IF can' = can THEN NotSettled ELSE settling'[t] = "none"
    /\ Taken(t)

(* Such a step is a step of its task. *)
LEMMA EndsFit ==
    ASSUME TypeOK, NEW t \in Tasks, Fits(t), Ends(t)
    PROVE  StepOf(t)
<1>1. /\ can'[t] = "registry" => can' = can
      /\ (settling[t] \in {"cancelled", "unknown"}) <=> (can[t] = "registry")
      /\ can[t] = "registry" => IF can' = can THEN NotSettled ELSE settling'[t] = "none"
  BY DEF Ends, RecordWritten, TypeOK, Fits, CapabilityFits
<1>2. CapabilityFits(t)' /\ Stays(t)
  <2>1. CASE NotSettled
    BY <1>1, <2>1 DEF NotSettled, TypeOK, Ends, Fits, CapabilityFits, Stays
  <2>2. CASE settling[t] = "finalize" /\ Retry(t)
    BY <1>1, <2>2 DEF Retry, TypeOK, Ends, Fits, CapabilityFits, Stays
  <2>3. ASSUME t \in cap, NEW s \in Final, Finish(t, s) PROVE CapabilityFits(t)' /\ Stays(t)
    <3>1. /\ t \notin cap' /\ status'[t] = s /\ settling'[t] = "none" /\ ends'[t] = ends[t] + 1
          /\ s # "absent" /\ launch' = launch
      BY <2>3 DEF Finish, Final, TypeOK, Ends
    <3>2. can'[t] # "registry"
      BY <1>1, <2>3 DEF Finish, NotSettled
    <3>3. ends[t] = 0
      BY <2>3 DEF Fits, CapabilityFits
    <3>4. QED
      BY <2>3, <3>1, <3>2, <3>3 DEF CapabilityFits, Stays
  <2>4. QED
    BY <2>1, <2>2, <2>3 DEF Ends, Taken
<1>3. settling'[t] = settling[t] \/ settling'[t] = "none"
  BY DEF Ends, Taken, NotSettled, Retry, Finish, TypeOK
<1>4. fin'[t] # "none" => fin[t] # "none"
  BY DEF Ends, TypeOK
<1>5. CodesFit(t)'
  BY <1>3, <1>4 DEF Ends, Fits, CodesFit, NeverBorn
<1>6. tx'[t] = tx[t] \/ tx[t] = "executing"
  BY DEF Ends, RecordWritten
<1>7. StatusFits(t)'
  <2>1. CASE NotSettled
    BY <1>6, <2>1 DEF NotSettled, TypeOK, Ends, Fits, StatusFits
  <2>2. CASE Retry(t)
    BY <2>2 DEF Retry, TypeOK, StatusFits
  <2>3. ASSUME NEW s \in Final, Finish(t, s), True(t, s) PROVE StatusFits(t)'
    BY <2>3 DEF Finish, True, TypeOK, Ends, StatusFits
  <2>4. QED
    BY <2>1, <2>2, <2>3 DEF Ends, Taken
<1>8. ASSUME NEW u \in Tasks \ {t} PROVE Same(u)
  <2>1. (u \in cap' <=> u \in cap) /\ status'[u] = status[u] /\ settling'[u] = settling[u]
        /\ ends'[u] = ends[u]
    BY <1>8 DEF Ends, Taken, NotSettled, Retry, Finish, TypeOK
  <2>2. tx'[u] = tx[u] /\ fin'[u] = fin[u] /\ can'[u] = can[u]
    BY <1>8 DEF Ends, RecordWritten, TypeOK
  <2>3. QED
    BY <2>1, <2>2 DEF Ends, Same
<1>9. QED
  BY <1>2, <1>5, <1>7, <1>8 DEF StepOf, Fits

(* It keeps the types. *)
LEMMA EndsTyped ==
    ASSUME TypeOK, NEW t \in Tasks, Ends(t), settled' \subseteq Tasks, cancelled' \subseteq Tasks,
           faults' \in Nat, UNCHANGED <<pids, session, launched, checkVars, cancelVars, late>>
    PROVE  TypeOK'
<1>1. /\ cap' \subseteq Tasks /\ pending' \subseteq Tasks /\ timer' \subseteq Tasks
      /\ status' \in [Tasks -> Final \cup {"absent", "started", "starting", "running"}]
      /\ settling' \in [Tasks -> {"none", "finalize", "cancelled", "unknown"}]
      /\ ends' \in [Tasks -> Nat]
  <2>1. CASE NotSettled
    BY <2>1 DEF NotSettled, TypeOK
  <2>2. CASE Retry(t)
    BY <2>2 DEF Retry, TypeOK, Final
  <2>3. ASSUME NEW s \in Final, Finish(t, s)
        PROVE  /\ cap' \subseteq Tasks /\ pending' \subseteq Tasks /\ timer' \subseteq Tasks
               /\ status' \in [Tasks -> Final \cup {"absent", "started", "starting", "running"}]
               /\ settling' \in [Tasks -> {"none", "finalize", "cancelled", "unknown"}]
               /\ ends' \in [Tasks -> Nat]
    BY <2>3 DEF Finish, TypeOK
  <2>4. QED
    BY <2>1, <2>2, <2>3 DEF Ends, Taken
<1>2. /\ fin' \in [Tasks -> {"none", "join", "complete", "undo"}]
      /\ can' \in [Tasks -> {"none", "registry", "undo", "session"}]
      /\ tx' \in [Tasks -> {"executing", "completed", "exit-failed", "cancelled"}]
  BY DEF Ends, RecordWritten, TypeOK
<1>3. QED
  BY <1>1, <1>2 DEF TypeOK, Ends, checkVars, cancelVars

(* The registry waits for the finalization or for a cancellation. *)
LEMMA Waiting ==
    ASSUME TypeOK, NEW t \in Tasks, Fits(t)
    PROVE  /\ settling[t] = "none" \/ settling[t] = "finalize" => can[t] # "registry"
           /\ can[t] # "registry" => settling[t] \in {"none", "finalize"}
           /\ can[t] = "registry" => t \in cap /\ settling[t] \in {"cancelled", "unknown"}
           /\ settling[t] # "none" => t \in cap
BY DEF TypeOK, Fits, CapabilityFits

(* A finalization that does not succeed, and one that does. *)
LEMMA FinalizedTaken ==
    ASSUME TypeOK, NEW t \in Tasks, Fits(t), NEW ok \in BOOLEAN, Finalized(t, ok),
           ok => True(t, Outcome(rcode[t])) \/ settling[t] # "finalize"
    PROVE  Taken(t) /\ (can[t] = "registry" => NotSettled)
<1>1. Outcome(rcode[t]) \in Final /\ "unknown" \in Final
  BY DEF Outcome, Final
<1>2. True(t, "unknown")
  BY DEF True
<1>3. CASE settling[t] = "finalize" /\ ok
  BY <1>1, <1>3, Waiting DEF Finalized, Taken
<1>4. CASE settling[t] = "finalize" /\ ~ok
  BY <1>4, Waiting DEF Finalized, Taken
<1>5. CASE settling[t] # "finalize" /\ ok
  BY <1>1, <1>2, <1>5, Waiting DEF Finalized, Lifecycle, Taken
<1>6. CASE settling[t] # "finalize" /\ ~ok
  BY <1>6 DEF Finalized, Taken
<1>7. QED
  BY <1>3, <1>4, <1>5, <1>6

(* The record of a completion is written with the code of the command, and *)
(* a record that was written stays as it is.                               *)
LEMMA RecordIsWritten ==
    ASSUME TypeOK, NEW t \in Tasks, Fits(t), fin[t] = "complete", Accepts(t),
           tx' = [tx EXCEPT ![t] = Completed(fcode[t])]
    PROVE  /\ RecordWritten(t)
           /\ tx'[t] = Completed(fcode[t])
<1>1. Completed(fcode[t]) \in {"completed", "exit-failed", "cancelled"}
  BY DEF Completed
<1>2. tx[t] = "executing" \/ tx[t] = Completed(fcode[t])
  BY DEF Accepts
<1>3. QED
  BY <1>1, <1>2, tx = [tx EXCEPT ![t] = tx[t]] DEF TypeOK, RecordWritten

(* A finalization that gives up is a step that ends it. *)
LEMMA GivesUpEnds ==
    ASSUME TypeOK, NEW t \in Tasks, Fits(t), fin[t] # "none", GivesUp(t),
           UNCHANGED <<wrapper, payload, exitFile, launch, rcode, fcode>>,
           RecordWritten(t)
    PROVE  Ends(t)
<1>1. CASE Cancellable(t)
  <2>1. /\ can' = [can EXCEPT ![t] = "undo"] /\ fin' = [fin EXCEPT ![t] = "undo"]
        /\ NotSettled
    BY <1>1 DEF GivesUp
  <2>2. can[t] # "registry"
    BY <1>1 DEF Cancellable
  <2>3. QED
    BY <2>1, <2>2 DEF Ends, Taken
<1>2. CASE ~Cancellable(t)
  <2>1. fin' = [fin EXCEPT ![t] = "none"] /\ Finalized(t, FALSE) /\ can' = can
    BY <1>2 DEF GivesUp
  <2>2. Taken(t) /\ (can[t] = "registry" => NotSettled)
    BY <2>1, FinalizedTaken
  <2>3. QED
    BY <2>1, <2>2 DEF Ends
<1>3. QED
  BY <1>1, <1>2

(* A completion ends the finalization: the code it writes is the one the   *)
(* registry has, if the registry waits for it.                             *)
LEMMA CompletesEnds ==
    ASSUME Inv, NEW t \in Tasks, Completes(t)
    PROVE  TypeOK' /\ StepOf(t)
<1>1. TypeOK /\ Fits(t) /\ fin[t] = "complete" /\ Accepts(t)
      /\ tx' = [tx EXCEPT ![t] = Completed(fcode[t])]
      /\ UNCHANGED <<wrapper, payload, exitFile, launch, rcode, fcode>>
  BY DEF Inv, Completes, hostVars
<1>2. /\ RecordWritten(t)
      /\ tx'[t] = Completed(fcode[t])
  BY <1>1, RecordIsWritten
<1>3. ASSUME t \in cancelled \/ session[t] # "current" PROVE Ends(t)
  <2>1. GivesUp(t) /\ settled' = settled
    BY <1>3 DEF Completes
  <2>2. QED
    BY <1>1, <1>2, <2>1, GivesUpEnds
<1>4. ASSUME ~(t \in cancelled \/ session[t] # "current") PROVE Ends(t)
  <2>1. fin' = [fin EXCEPT ![t] = "none"] /\ Finalized(t, TRUE) /\ can' = can
    BY <1>4 DEF Completes
  <2>2. settling[t] = "finalize" => True(t, Outcome(rcode[t]))
    BY <1>1, <1>2 DEF Fits, CodesFit, NeverBorn, True, Outcome, Completed, TypeOK
  <2>3. Taken(t) /\ (can[t] = "registry" => NotSettled)
    BY <1>1, <2>1, <2>2, FinalizedTaken
  <2>4. QED
    BY <1>1, <1>2, <2>1, <2>3 DEF Ends
<1>5. Ends(t)
  BY <1>3, <1>4
<1>6. settled' \subseteq Tasks /\ cancelled' \subseteq Tasks /\ faults' \in Nat
      /\ UNCHANGED <<pids, session, launched, checkVars, cancelVars, late>>
  <2>1. settled \subseteq Tasks /\ cancelled \subseteq Tasks /\ faults \in Nat
    BY <1>1 DEF TypeOK
  <2>2. settled' = settled \/ settled' = settled \cup {t}
    BY DEF Completes
  <2>3. UNCHANGED <<pids, cancelled, faults, session, launched, checkVars, cancelVars, late>>
    BY DEF Completes, hostVars
  <2>4. QED
    BY <2>1, <2>2, <2>3
<1>7. QED
  BY <1>1, <1>5, <1>6, EndsFit, EndsTyped

(* A completion that throws ends the finalization, or hands it to a        *)
(* cancellation.                                                           *)
LEMMA CompletionFailsEnds ==
    ASSUME Inv, NEW t \in Tasks, CompletionFails(t)
    PROVE  TypeOK' /\ StepOf(t)
<1>1. TypeOK /\ Fits(t) /\ fin[t] = "complete"
      /\ UNCHANGED <<wrapper, payload, exitFile, launch, rcode, fcode>>
  BY DEF Inv, CompletionFails, hostVars
<1>2. RecordWritten(t)
  BY <1>1, RecordIsWritten DEF CompletionFails, RecordWritten
<1>3. ASSUME t \in cancelled \/ t \in launched PROVE Ends(t)
  <2>1. fin' = [fin EXCEPT ![t] = "none"] /\ Finalized(t, FALSE) /\ can' = can
    BY <1>3 DEF CompletionFails
  <2>2. Taken(t) /\ (can[t] = "registry" => NotSettled)
    BY <1>1, <2>1, FinalizedTaken
  <2>3. QED
    BY <1>1, <1>2, <2>1, <2>2 DEF Ends
<1>4. ASSUME ~(t \in cancelled \/ t \in launched) PROVE Ends(t)
  <2>1. GivesUp(t)
    BY <1>4 DEF CompletionFails
  <2>2. QED
    BY <1>1, <1>2, <2>1, GivesUpEnds
<1>5. Ends(t)
  BY <1>3, <1>4
<1>6. settled' \subseteq Tasks /\ cancelled' \subseteq Tasks /\ faults' \in Nat
      /\ UNCHANGED <<pids, session, launched, checkVars, cancelVars, late>>
  BY <1>1 DEF CompletionFails, TypeOK, Fault, NoFault, hostVars
<1>7. QED
  BY <1>1, <1>5, <1>6, EndsFit, EndsTyped

(* A cancellation that stops the record settles the task with what the     *)
(* registry asked for, if the registry asked.                              *)
LEMMA StopsEnds ==
    ASSUME Inv, NEW t \in Tasks, Stops(t)
    PROVE  TypeOK' /\ StepOf(t)
<1>1. TypeOK /\ Fits(t) /\ tx[t] # "completed" /\ can[t] # "none"
      /\ UNCHANGED <<wrapper, payload, exitFile, launch, rcode, fcode>>
      /\ tx' = [tx EXCEPT ![t] = IF @ = "executing" THEN "cancelled" ELSE @]
      /\ can' = [can EXCEPT ![t] = "none"]
      /\ fin' = [fin EXCEPT ![t] = IF @ \in {"join", "undo"} THEN "none" ELSE @]
  BY DEF Inv, Stops, hostVars
<1>2. RecordWritten(t)
  BY <1>1, tx = [tx EXCEPT ![t] = tx[t]] DEF TypeOK, RecordWritten
<1>3. \E f \in {"none", "complete", "undo"} :
          fin' = fin \/ (fin[t] # "none" /\ fin' = [fin EXCEPT ![t] = f])
  BY <1>1, fin = [fin EXCEPT ![t] = fin[t]] DEF TypeOK
<1>4. Taken(t) /\ (can[t] = "registry" => settling'[t] = "none" /\ can' # can)
  <2>1. CASE can[t] = "registry"
    <3>1. Finish(t, settling[t]) /\ t \in cap /\ settling[t] \in {"cancelled", "unknown"}
      BY <1>1, <2>1, Waiting DEF Stops
    <3>2. True(t, settling[t])
      BY <1>1, <3>1 DEF True, Fits, CodesFit, TypeOK
    <3>3. settling'[t] = "none" /\ can' # can
      BY <1>1, <2>1, <3>1 DEF Finish, TypeOK
    <3>4. QED
      BY <3>1, <3>2, <3>3 DEF Taken, Final
  <2>2. CASE can[t] # "registry" /\ fin[t] \in {"join", "undo"} /\ settling[t] = "finalize"
    BY <2>2 DEF Stops, Taken
  <2>3. CASE can[t] # "registry" /\ ~(fin[t] \in {"join", "undo"} /\ settling[t] = "finalize")
    <3>1. Lifecycle(t) /\ True(t, "unknown")
      BY <2>3 DEF Stops, True
    <3>2. QED
      BY <2>3, <3>1 DEF Lifecycle, Taken, Final
  <2>4. QED
    BY <2>1, <2>2, <2>3
<1>5. Ends(t)
  BY <1>1, <1>2, <1>3, <1>4 DEF Ends
<1>6. settled' \subseteq Tasks /\ cancelled' \subseteq Tasks /\ faults' \in Nat
      /\ UNCHANGED <<pids, session, launched, checkVars, cancelVars, late>>
  BY <1>1 DEF Stops, TypeOK, hostVars
<1>7. QED
  BY <1>1, <1>5, <1>6, EndsFit, EndsTyped

(* A cancellation that fails settles the task as unknown, if the registry  *)
(* asked for it.                                                           *)
LEMMA StopFailsEnds ==
    ASSUME Inv, NEW t \in Tasks, StopFails(t)
    PROVE  TypeOK' /\ StepOf(t)
<1>1. TypeOK /\ Fits(t) /\ can[t] # "none"
      /\ UNCHANGED <<wrapper, payload, exitFile, launch, rcode, fcode>>
      /\ can' = [can EXCEPT ![t] = "none"]
      /\ fin' = [fin EXCEPT ![t] =
              IF @ = "join" THEN "complete" ELSE IF @ = "undo" THEN "none" ELSE @]
  BY DEF Inv, StopFails, hostVars
<1>2. RecordWritten(t)
  <2>1. tx' \in {tx, [tx EXCEPT ![t] = IF @ = "executing" THEN "cancelled" ELSE @]}
    BY DEF StopFails
  <2>2. QED
    BY <1>1, <2>1, tx = [tx EXCEPT ![t] = tx[t]] DEF TypeOK, RecordWritten
<1>3. \E f \in {"none", "complete", "undo"} :
          fin' = fin \/ (fin[t] # "none" /\ fin' = [fin EXCEPT ![t] = f])
  BY <1>1, fin = [fin EXCEPT ![t] = fin[t]] DEF TypeOK
<1>4. Taken(t) /\ (can[t] = "registry" => settling'[t] = "none" /\ can' # can)
  <2>1. CASE can[t] = "registry"
    <3>1. Finish(t, "unknown") /\ t \in cap /\ True(t, "unknown")
      BY <1>1, <2>1, Waiting DEF StopFails, True
    <3>2. settling'[t] = "none" /\ can' # can
      BY <1>1, <2>1, <3>1 DEF Finish, TypeOK
    <3>3. QED
      BY <3>1, <3>2 DEF Taken, Final
  <2>2. CASE can[t] = "undo"
    <3>1. Finalized(t, FALSE)
      BY <2>2 DEF StopFails
    <3>2. QED
      BY <1>1, <2>2, <3>1, FinalizedTaken
  <2>3. CASE can[t] \notin {"registry", "undo"}
    BY <2>3 DEF StopFails, Taken
  <2>4. QED
    BY <2>1, <2>2, <2>3
<1>5. Ends(t)
  BY <1>1, <1>2, <1>3, <1>4 DEF Ends
<1>6. settled' \subseteq Tasks /\ cancelled' \subseteq Tasks /\ faults' \in Nat
      /\ UNCHANGED <<pids, session, launched, checkVars, cancelVars, late>>
  BY <1>1 DEF StopFails, TypeOK, Fault, NoFault, hostVars
<1>7. QED
  BY <1>1, <1>5, <1>6, EndsFit, EndsTyped

---------------------------------------------------------------------------
(* Init establishes the invariant. *)
LEMMA InitInv == Init => Inv
<1> SUFFICES ASSUME Init PROVE Inv
  OBVIOUS
<1>1. TypeOK
  BY TasksAssumption DEF Init, TypeOK, Codes, Final, Checks
<1>2. \A t \in Tasks : Fits(t)
  <2>1. SUFFICES ASSUME NEW t \in Tasks PROVE Fits(t)
    OBVIOUS
  <2>2. CapabilityFits(t) /\ StatusFits(t)
    BY DEF Init, CapabilityFits, StatusFits
  <2>3. CodesFit(t)
    BY DEF Init, CodesFit
  <2>4. QED
    BY <2>2, <2>3 DEF Fits
<1>3. QED
  BY <1>1, <1>2 DEF Inv

(* Every step is of one task, and keeps the invariant and the status of a  *)
(* settled task.                                                           *)
LEMMA NextInv ==
    ASSUME Inv, [Next]_vars
    PROVE  Inv' /\ \A t \in Tasks : Stays(t)
<1>1. ASSUME NEW t \in Tasks, TypeOK', StepOf(t) PROVE Inv' /\ \A u \in Tasks : Stays(u)
  BY <1>1, OthersFit DEF Inv
<1>2. ASSUME NEW t \in Tasks, TimerFires(t) \/ TimesOut(t) \/ Status(t) \/ CheckStep(t)
      PROVE  Inv' /\ \A u \in Tasks : Stays(u)
  BY <1>1, <1>2, CheckFits
<1>3. ASSUME NEW t \in Tasks, Completion(t) PROVE Inv' /\ \A u \in Tasks : Stays(u)
  BY <1>1, <1>3, CompletesEnds, CompletionFailsEnds DEF Completion
<1>4. ASSUME NEW t \in Tasks, Stopping(t) PROVE Inv' /\ \A u \in Tasks : Stays(u)
  BY <1>1, <1>4, StopsEnds, StopFailsEnds DEF Stopping
<1>5. ASSUME NEW t \in Tasks, TerminalStep(t) PROVE Inv' /\ \A u \in Tasks : Stays(u)
  BY <1>1, <1>5, TerminalFits
<1>6. ASSUME NEW t \in Tasks, HostStep(t) PROVE Inv' /\ \A u \in Tasks : Stays(u)
  BY <1>1, <1>6, HostFits
<1>7. ASSUME NEW c \in Callers, CancelStep(c) PROVE Inv' /\ \A u \in Tasks : Stays(u)
  <2>1. ctask[c] \in Tasks
    BY DEF Inv, TypeOK
  <2>2. QED
    BY <1>1, <1>7, <2>1, CancelStepFits
<1>8. ASSUME NEW c \in Callers, NEW t \in Tasks, Cancel(c, t)
      PROVE  Inv' /\ \A u \in Tasks : Stays(u)
  BY <1>1, <1>8, CancelFits
<1>9. CASE UNCHANGED vars
  <2>1. TypeOK'
    BY <1>9 DEF Inv, TypeOK, vars, hostVars, executionVars, settleVars, checkVars, cancelVars
  <2>2. ASSUME NEW t \in Tasks PROVE Fits(t)' /\ Stays(t)
    BY <1>9 DEF Inv, Fits, CapabilityFits, CodesFit, NeverBorn, StatusFits, Stays, vars,
       hostVars, executionVars, settleVars
  <2>3. QED
    BY <2>1, <2>2 DEF Inv
<1>10. QED
  BY <1>2, <1>3, <1>4, <1>5, <1>6, <1>7, <1>8, <1>9 DEF Next

(* The invariant holds throughout. *)
THEOREM InvAlways == Spec => []Inv
<1>1. Inv /\ [Next]_vars => Inv'
  BY NextInv
<1>2. QED
  BY InitInv, <1>1, PTL DEF Spec

(* Every variable keeps to its set, whatever the number of tasks.          *)
THEOREM TypesAlways == Spec => []TypeOK
<1>1. Inv => TypeOK
  BY DEF Inv
<1>2. QED
  BY InvAlways, <1>1, PTL

(* A task said to be completed or failed has exited with that outcome and  *)
(* its record says so; one said to be cancelled had its signal and its     *)
(* record was stopped (finishTerminal and settleTerminal of the registry). *)
THEOREM StatusIsTrueAlways == Spec => []StatusIsTrue
<1>1. Inv => StatusIsTrue
  BY DEF Inv, Fits, StatusFits, StatusIsTrue
<1>2. QED
  BY InvAlways, <1>1, PTL

(* The agent bound to a task hears of its end at most once, whoever        *)
(* settles it: finishTerminal runs only while the task has its capability. *)
THEOREM NotifiedOnceAlways == Spec => []NotifiedOnce
<1>1. Inv => NotifiedOnce
  BY DEF Inv, Fits, CapabilityFits, NotifiedOnce
<1>2. QED
  BY InvAlways, <1>1, PTL

(* No late answer of a check, a cancel, a finalization or a cancellation   *)
(* changes the status of a settled task.                                   *)
THEOREM SettledStaysAlways == Spec => SettledStays
<1>1. Inv /\ [Next]_vars =>
          [\A t \in Tasks : status[t] # "absent" /\ t \notin cap => status'[t] = status[t]]_vars
  BY NextInv DEF Stays
<1>2. QED
  BY InvAlways, <1>1, PTL DEF Spec, SettledStays
=============================================================================
