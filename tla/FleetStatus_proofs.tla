------------------------- MODULE FleetStatus_proofs -------------------------
(***************************************************************************)
(* Proofs about FleetStatus: types, that no child of a session strays,     *)
(* that ports are distinct, that the newest call wins a session, that a    *)
(* collection leaves no session behind and that its report is true, for    *)
(* any number of requests, targets, ports and pids.                        *)
(***************************************************************************)
EXTENDS FleetStatus, SessionProcess_proofs

(* A target is taken in its turn, and goes with its opening call: it is    *)
(* given up with the call aborted or over, and has an outcome from then on.*)
TargetFits(t) ==
    /\ (target[t] = "queued") <=> (t > nextIndex)
    /\ target[t] = "queued" => call[t] = "idle"
    /\ target[t] = "probing" => call[t] = "opened"
    /\ target[t] \in {"opening", "probing"} => ~aborted[t] /\ outcome[t] = "none"
    /\ target[t] \in {"closing", "done"} =>
          (aborted[t] \/ call[t] \in {"opened", "failed"}) /\ outcome[t] # "none"
    /\ target[t] = "queued" /\ task \in {"idle", "collecting"} => outcome[t] = "none"

(* Once the workers have returned no target has anything on its way, and   *)
(* the task waits for the entries that are left.                           *)
ReturnFits(t) ==
    /\ task \in {"closing", "done"} => target[t] \in {"queued", "done"}
    /\ task = "closing" /\ entry[t] \in {"open", "terminating"} => t \in taskWaits
    /\ task = "done" => entry[t] \in {"none", "ended"}

(* An outcome says what became of the target, and the status agrees.       *)
OutcomeFits(t) ==
    /\ outcome[t] = "success" => call[t] = "opened" /\ ~aborted[t]
    /\ outcome[t] = "totalTimeout" => totalTimedOut
    /\ outcome[t] = "cancelled" => TaskAborted
    /\ status # "none" => outcome[t] # "none"
    /\ status = "completed" => outcome[t] \in {"success", "error", "targetTimeout"}
    /\ status = "cancelled" => outcome[t] # "totalTimeout"

StatusFits == status # "none" => task \in {"closing", "done"}

FleetFits == \A t \in Targets : TargetFits(t) /\ ReturnFits(t) /\ OutcomeFits(t)
Inv == TypeOK /\ SessionInv /\ StatusFits /\ FleetFits

---------------------------------------------------------------------------
(* Every target is a call of a session, alone with its pid. *)
LEMMA TargetsAlone ==
    ASSUME NEW t \in Targets
    PROVE  t \in Requests /\ t \in Nat /\ Alone(t) /\ PidOf[t] \in Pids
BY FleetAssumption, RequestsAssumption DEF RequestsAssumption, Alone

(* A step of the sessions alone leaves what holds of the collection. *)
LEMMA SessionFits ==
    ASSUME Inv, SessionNext, UNCHANGED fleetVars
    PROVE  Inv'
<1>1. PICK r \in Requests : StepOf(r)
  BY RequestsAssumption, SessionSteps DEF Inv
<1>2. SessionTypeOK'
  BY RequestsAssumption, PortAssumption, TypeMoves DEF Inv, SessionInv
<1>3. SessionInv'
  BY <1>1, <1>2, StepKeeps DEF Inv
<1>4. TypeOK' /\ StatusFits'
  BY <1>2 DEF Inv, TypeOK, StatusFits, fleetVars
<1>5. ASSUME NEW t \in Targets PROVE TargetFits(t)' /\ ReturnFits(t)' /\ OutcomeFits(t)'
  <2>1. /\ aborted'[t] = aborted[t] /\ (call'[t] = "idle" <=> call[t] = "idle")
        /\ call[t] \in {"opened", "failed"} => call'[t] = call[t]
        /\ entry[t] = "ended" => entry'[t] = "ended"
        /\ entry[t] = "none" /\ entry'[t] # "none" =>
              ~aborted[t] /\ call[t] \in {"port", "closing"}
    <3>1. t \in Requests \ Tests
      BY TargetsAlone DEF Alone
    <3>2. CASE t = r
      BY <1>1, <3>1, <3>2 DEF StepOf, Moves
    <3>3. CASE t # r
      <4>1. Other(t) /\ aborted' = aborted
        BY <1>1, <3>1, <3>3 DEF StepOf
      <4>2. QED
        BY <4>1 DEF Other
    <3>4. QED
      BY <3>2, <3>3
  <2>2. TargetFits(t) /\ ReturnFits(t) /\ OutcomeFits(t)
    BY DEF Inv, FleetFits
  <2>3. entry[t] \in {"none", "open", "terminating", "ended"}
    BY TargetsAlone DEF Inv, SessionInv, SessionTypeOK
  <2>4. TargetFits(t)'
    BY <2>1, <2>2 DEF TargetFits, fleetVars
  <2>5. ReturnFits(t)'
    BY <2>1, <2>2, <2>3 DEF TargetFits, ReturnFits, fleetVars
  <2>6. OutcomeFits(t)'
    BY <2>1, <2>2 DEF OutcomeFits, TaskAborted, fleetVars
  <2>7. QED
    BY <2>4, <2>5, <2>6
<1>6. QED
  BY <1>3, <1>4, <1>5 DEF Inv, FleetFits

(* So does a call of the user. *)
LEMMA UserFits ==
    ASSUME Inv, NEW r \in Requests, UserStart(r)
    PROVE  Inv'
<1>1. Start(r) /\ r \notin Targets /\ UNCHANGED fleetVars
  BY DEF UserStart
<1>2. SessionInv'
  BY <1>1, RequestsAssumption, PortAssumption, StartKeeps DEF Inv
<1>3. TypeOK' /\ StatusFits'
  BY <1>1, <1>2 DEF SessionInv, Inv, TypeOK, StatusFits, fleetVars
<1>4. ASSUME NEW t \in Targets PROVE TargetFits(t)' /\ ReturnFits(t)' /\ OutcomeFits(t)'
  <2>1. aborted'[t] = aborted[t] /\ call'[t] = call[t] /\ entry'[t] = entry[t]
    <3>1. t # r /\ t \in Requests
      BY <1>1, TargetsAlone
    <3>2. QED
      BY <1>1, <3>1 DEF Start, childVars, Inv, SessionInv, SessionTypeOK
  <2>2. TargetFits(t) /\ ReturnFits(t) /\ OutcomeFits(t)
    BY DEF Inv, FleetFits
  <2>3. QED
    BY <1>1, <2>1, <2>2 DEF TargetFits, ReturnFits, OutcomeFits, TaskAborted, fleetVars
<1>5. QED
  BY <1>2, <1>3, <1>4 DEF Inv, FleetFits

(* A worker takes the target that is next, whose call was never made. *)
LEMMA TakeFits ==
    ASSUME Inv, NEW t \in Targets, TakeTarget(t)
    PROVE  Inv'
<1>1. /\ Start(t) /\ t \in Requests /\ t \in Nat /\ task = "collecting" /\ t = nextIndex + 1
      /\ nextIndex' = t /\ target' = [target EXCEPT ![t] = "opening"]
      /\ UNCHANGED <<made, task, outcome, targetWaits, taskWaits, cancelled, totalTimedOut,
                     status>>
  BY TargetsAlone DEF TakeTarget
<1>2. SessionInv'
  BY <1>1, RequestsAssumption, PortAssumption, StartKeeps DEF Inv
<1>3. TypeOK' /\ StatusFits'
  BY <1>1, <1>2 DEF SessionInv, Inv, TypeOK, StatusFits, Targets
<1>4. target[t] = "queued" /\ outcome[t] = "none" /\ ~aborted[t]
  BY <1>1, FleetAssumption DEF Inv, TypeOK, FleetFits, TargetFits, Start, Targets
<1>5. ASSUME NEW u \in Targets PROVE TargetFits(u)' /\ ReturnFits(u)' /\ OutcomeFits(u)'
  <2>1. aborted'[u] = aborted[u] /\ entry'[u] = entry[u]
    BY <1>1 DEF Start, childVars
  <2>2. TargetFits(u) /\ ReturnFits(u) /\ OutcomeFits(u) /\ u \in Nat /\ nextIndex \in Nat
    BY TargetsAlone, FleetAssumption DEF Inv, TypeOK, FleetFits
  <2>3. CASE u = t
    <3>1. target'[u] = "opening"
      BY <1>1, <2>3 DEF Inv, TypeOK
    <3>2. QED
      BY <1>1, <1>4, <2>1, <2>2, <2>3, <3>1 DEF TargetFits, ReturnFits, OutcomeFits, TaskAborted
  <2>4. CASE u # t
    <3>1. target'[u] = target[u] /\ (u > nextIndex' <=> u > nextIndex)
      BY <1>1, <2>2, <2>4 DEF Inv, TypeOK
    <3>2. call'[u] = call[u]
      BY <1>1, <2>4, TargetsAlone DEF Start, Inv, SessionInv, SessionTypeOK
    <3>3. QED
      BY <1>1, <2>1, <2>2, <3>1, <3>2 DEF TargetFits, ReturnFits, OutcomeFits, TaskAborted
  <2>5. QED
    BY <2>3, <2>4
<1>6. QED
  BY <1>2, <1>3, <1>5 DEF Inv, FleetFits

---------------------------------------------------------------------------
(* What the steps of the collection do to the sessions. *)

(* closeTerminal tells the children of some targets to end. *)
LEMMA CloseTerminalsEffect ==
    ASSUME SessionTypeOK, NEW T \in SUBSET Targets, CloseTerminals(T)
    PROVE  /\ signal' \in [Requests -> {"none", "ask", "term", "kill"}]
           /\ closing' \in [Pids -> SUBSET Requests]
           /\ \A q \in Requests : Signals(q)
           /\ \A p \in Pids : closing'[p] \subseteq closing[p] \cup EntriesOf(p)
<1>1. \A p \in Pids : ClosingOf(p) \subseteq Requests \cap (closing[p] \cup EntriesOf(p))
  BY DEF ClosingOf, EntriesOf, SessionTypeOK
<1>2. \A p \in Pids : closing'[p] = closing[p] \/ closing'[p] = ClosingOf(p)
  BY DEF CloseTerminals
<1>3. closing' \in [Pids -> SUBSET Requests]
  BY <1>1, <1>2 DEF CloseTerminals, SessionTypeOK
<1>4. /\ signal' \in [Requests -> {"none", "ask", "term", "kill"}]
      /\ \A q \in Requests : Signals(q)
  BY CloseSignals DEF CloseTerminals
<1>5. QED
  BY <1>1, <1>2, <1>3, <1>4

(* What is closed of a target is its entry, if that is there. *)
LEMMA TargetClosing ==
    ASSUME SessionInv, NEW t \in Targets
    PROVE  /\ ClosingOf(PidOf[t]) \subseteq Requests
           /\ entry[t] \in {"open", "terminating"} => t \in ClosingOf(PidOf[t])
<1>1. t \in Requests /\ Alone(t) /\ PidOf[t] \in Pids
  BY TargetsAlone
<1>2. \A q \in EntriesOf(PidOf[t]) \cup closing[PidOf[t]] : q = t
  BY <1>1 DEF SessionInv, MapsFit, Alone
<1>3. entry[t] \in {"open", "terminating"} => t \in EntriesOf(PidOf[t])
  BY <1>1 DEF SessionInv, Fits, FoundFits, Found
<1>4. QED
  BY <1>1, <1>2, <1>3 DEF ClosingOf

(* A step that closes, and sends or receives no more than a command. *)
Closes(T) ==
    /\ CloseTerminals(T)
    /\ UNCHANGED <<call, awaits, child, entry, portOf, holds, active, pending, latest>>
    /\ messages' \in [Requests -> SUBSET {"create", "command"}]
    /\ \A q \in Requests : "create" \in messages'[q] => "create" \in messages[q]
    /\ aborted' \in [Requests -> BOOLEAN]

(* It keeps the invariant of the sessions. *)
LEMMA ClosesKeeps ==
    ASSUME SessionInv, NEW T \in SUBSET Targets, Closes(T)
    PROVE  SessionInv'
<1>1. SessionTypeOK
  BY DEF SessionInv
<1>2. /\ signal' \in [Requests -> {"none", "ask", "term", "kill"}]
      /\ closing' \in [Pids -> SUBSET Requests]
      /\ \A q \in Requests : Signals(q)
      /\ \A p \in Pids : closing'[p] \subseteq closing[p] \cup EntriesOf(p)
  BY <1>1, CloseTerminalsEffect DEF Closes
<1>3. SessionTypeOK'
  BY <1>1, <1>2 DEF Closes, SessionTypeOK
<1>4. CloseStep
  BY <1>2 DEF Closes, CloseStep
<1>5. QED
  BY <1>3, <1>4, RequestsAssumption, CloseKeeps

(* Targets that race leave with a result: the calls of those are aborted   *)
(* or over, and the calls of no others are aborted.                        *)
Leaves(T, result) ==
    /\ \E U \in SUBSET Targets : Closes(U)
    /\ Leave(T, result) /\ result \in Outcomes \ {"none"}
    /\ UNCHANGED <<made, task, nextIndex, taskWaits, status>>
    /\ cancelled' \in {cancelled, TRUE} /\ totalTimedOut' \in {totalTimedOut, TRUE}
    /\ \A t \in Targets :
          IF t \in T THEN aborted'[t] \/ call[t] \in {"opened", "failed"}
          ELSE aborted'[t] = aborted[t]
    /\ result = "success" => \A t \in T : target[t] = "probing" /\ aborted'[t] = aborted[t]
    /\ result = "totalTimeout" => totalTimedOut'
    /\ result = "cancelled" => cancelled'

(* Such a step keeps the invariant. *)
LEMMA LeavesFits ==
    ASSUME Inv, NEW T \in SUBSET Racing, NEW result, Leaves(T, result)
    PROVE  Inv'
<1>1. SessionInv'
  BY ClosesKeeps DEF Inv, Leaves
<1>2. UNCHANGED <<call, entry>>
  BY DEF Leaves, Closes
<1>3. \A t \in Targets : ClosingOf(PidOf[t]) \subseteq Requests
  BY TargetClosing DEF Inv
<1>4. /\ target' \in [Targets -> {"queued", "opening", "probing", "closing", "done"}]
      /\ outcome' \in [Targets -> Outcomes]
      /\ targetWaits' \in [Targets -> SUBSET Requests]
  BY <1>3 DEF Leaves, Leave, Inv, TypeOK
<1>5. TypeOK' /\ StatusFits'
  BY <1>1, <1>4 DEF SessionInv, Leaves, Inv, TypeOK, StatusFits
<1>6. ASSUME NEW t \in Targets PROVE TargetFits(t)' /\ ReturnFits(t)' /\ OutcomeFits(t)'
  <2>1. TargetFits(t) /\ ReturnFits(t) /\ OutcomeFits(t)
    BY DEF Inv, FleetFits
  <2>2. CASE t \in T
    <3>1. /\ target[t] \in {"opening", "probing"} /\ target'[t] = "closing"
          /\ outcome'[t] = result /\ result # "none" /\ (aborted'[t] \/ call[t] \in {"opened", "failed"})
      BY <2>2 DEF Racing, Leaves, Leave
    <3>2. task \notin {"closing", "done"} /\ status = "none"
      BY <2>1, <3>1 DEF ReturnFits, Inv, StatusFits
    <3>3. TargetFits(t)'
      BY <1>2, <2>1, <3>1 DEF TargetFits, Leaves
    <3>4. ReturnFits(t)'
      BY <3>2 DEF ReturnFits, Leaves
    <3>5. result = "success" => call[t] = "opened" /\ ~aborted'[t]
      BY <2>1, <2>2 DEF Leaves, TargetFits
    <3>6. OutcomeFits(t)'
      BY <1>2, <3>1, <3>2, <3>5 DEF OutcomeFits, TaskAborted, Leaves
    <3>7. QED
      BY <3>3, <3>4, <3>6
  <2>3. CASE t \notin T
    <3>1. target'[t] = target[t] /\ outcome'[t] = outcome[t] /\ aborted'[t] = aborted[t]
      BY <2>3 DEF Leaves, Leave
    <3>2. TargetFits(t)' /\ ReturnFits(t)'
      BY <1>2, <2>1, <3>1 DEF TargetFits, ReturnFits, Leaves
    <3>3. OutcomeFits(t)'
      BY <1>2, <2>1, <3>1 DEF OutcomeFits, TaskAborted, Leaves
    <3>4. QED
      BY <3>2, <3>3
  <2>4. QED
    BY <2>2, <2>3
<1>7. QED
  BY <1>1, <1>5, <1>6 DEF Inv, FleetFits

(* The ends of a target, whichever comes first, are such steps. *)
LEMMA TargetLeaves ==
    ASSUME Inv, NEW t \in Targets,
           \/ OpenReturns(t) /\ ~Usable(t)
           \/ OpenFails(t) \/ ProbesAnswered(t) \/ ProbesFail(t) \/ TargetTimeout(t)
    PROVE  Inv'
<1>1. t \in Requests /\ t \in Racing /\ SessionTypeOK /\ TargetFits(t)
  BY TargetsAlone DEF OpenReturns, OpenFails, ProbesAnswered, ProbesFail, TargetTimeout,
     Racing, Inv, SessionInv, FleetFits
<1>2. CloseTerminals({t})
  BY DEF OpenReturns, OpenFails, ProbesAnswered, ProbesFail, TargetTimeout
<1>3. CASE TargetTimeout(t)
  <2>1. Closes({t})
    BY <1>1, <1>2, <1>3 DEF Closes, TargetTimeout, AbortSignals, SessionTypeOK, portVars
  <2>2. Leaves({t}, "targetTimeout")
    BY <1>1, <1>3, <2>1, TargetsAlone DEF Leaves, TargetTimeout, AbortSignals, Outcomes,
       SessionTypeOK
  <2>3. QED
    BY <1>1, <2>2, LeavesFits
<1>4. CASE ~TargetTimeout(t)
  <2>1. Closes({t})
    BY <1>1, <1>2, <1>4 DEF Closes, OpenReturns, OpenFails, ProbesAnswered, ProbesFail,
       SessionTypeOK, callVars, portVars
  <2>2. PICK result \in {"error", "success"} :
          /\ Leave({t}, result)
          /\ result = "success" => ProbesAnswered(t) \/ ProbesFail(t)
    BY <1>4 DEF OpenReturns, OpenFails, ProbesAnswered, ProbesFail
  <2>3. call[t] \in {"opened", "failed"} /\ aborted' = aborted
        /\ UNCHANGED <<made, task, nextIndex, taskWaits, status, cancelled, totalTimedOut>>
    BY <1>1, <1>4 DEF OpenReturns, OpenFails, ProbesAnswered, ProbesFail, TargetFits,
       callVars
  <2>4. result = "success" => target[t] = "probing"
    BY <2>2 DEF ProbesAnswered, ProbesFail
  <2>5. Leaves({t}, result)
    BY <2>1, <2>2, <2>3, <2>4 DEF Leaves, Outcomes, Inv, TypeOK
  <2>6. QED
    BY <1>1, <2>5, LeavesFits
<1>5. QED
  BY <1>3, <1>4

(* The end of the task, by a cancel or its time-out, is such a step of all *)
(* the targets that race.                                                  *)
LEMMA TaskLeaves ==
    ASSUME Inv, Cancel \/ TotalTimeout
    PROVE  Inv'
<1>1. PICK result \in {"totalTimeout", "cancelled"} :
         /\ AbortTask(result)
         /\ result = "totalTimeout" => totalTimedOut'
         /\ result = "cancelled" => cancelled'
  BY DEF Cancel, TotalTimeout
<1>2. cancelled' \in {cancelled, TRUE} /\ totalTimedOut' \in {totalTimedOut, TRUE}
  BY DEF Cancel, TotalTimeout
<1>3. SessionTypeOK /\ Racing \in SUBSET Racing
  BY DEF Inv, SessionInv
<1>4. {t \in Targets : target[t] # "queued"} \in SUBSET Targets
  OBVIOUS
<1>5. Closes({t \in Targets : target[t] # "queued"})
  BY <1>1, <1>3 DEF Closes, AbortTask, AbortSignals, SessionTypeOK, portVars
<1>6. \A t \in Targets : aborted'[t] = (aborted[t] \/ t \in Racing)
  BY <1>1, TargetsAlone DEF AbortTask, AbortSignals
<1>7. \A t \in Targets : aborted[t] \in BOOLEAN
  BY <1>3, TargetsAlone DEF SessionTypeOK
<1>8. Leaves(Racing, result)
  BY <1>1, <1>2, <1>4, <1>5, <1>6, <1>7 DEF Leaves, AbortTask, Outcomes
<1>9. QED
  BY <1>3, <1>8, LeavesFits

---------------------------------------------------------------------------
(* The other steps of the collection. *)

(* The sessions are as they were. *)
LEMMA SessionsStay ==
    ASSUME SessionInv, UNCHANGED sessionVars
    PROVE  SessionInv'
BY DEF SessionInv, SessionTypeOK, PortsApart, UsesPort, MapsFit, EntriesOf, OrderFits,
   LatestFits,
   Fits, EntryFits, PortFits, FoundFits, Found, Running, sessionVars, callVars, childVars,
   portVars, pidVars

(* The collection begins with nothing taken. *)
LEMMA CollectFits ==
    ASSUME Inv, Collect
    PROVE  Inv'
<1>1. UNCHANGED <<sessionVars, made, nextIndex, target, outcome, targetWaits, taskWaits,
                  cancelled, totalTimedOut, status>> /\ task = "idle" /\ task' = "collecting"
  BY DEF Collect
<1>2. SessionInv'
  BY <1>1, SessionsStay DEF Inv
<1>3. TypeOK' /\ StatusFits'
  BY <1>1, <1>2 DEF SessionInv, Inv, TypeOK, StatusFits
<1>4. ASSUME NEW t \in Targets PROVE TargetFits(t)' /\ ReturnFits(t)' /\ OutcomeFits(t)'
  BY <1>1 DEF Inv, StatusFits, FleetFits, TargetFits, ReturnFits, OutcomeFits, TaskAborted,
     sessionVars, callVars, childVars
<1>5. QED
  BY <1>2, <1>3, <1>4 DEF Inv, FleetFits

(* The probes are sent to a session that is there. *)
LEMMA ProbesSent ==
    ASSUME Inv, NEW t \in Targets, OpenReturns(t), Usable(t)
    PROVE  Inv'
<1>1. /\ target[t] = "opening" /\ call[t] = "opened" /\ t \in Requests
      /\ target' = [target EXCEPT ![t] = "probing"]
      /\ messages' = [messages EXCEPT ![t] = @ \cup {"command"}]
      /\ UNCHANGED <<signal, closing, outcome, targetWaits, callVars, child, entry, portVars,
                     active, pending, latest, made, task, nextIndex, taskWaits, cancelled,
                     totalTimedOut, status>>
  BY TargetsAlone DEF OpenReturns
<1>2. SessionTypeOK'
  BY <1>1 DEF Inv, SessionInv, SessionTypeOK, callVars, portVars
<1>3. CloseStep
  BY <1>1 DEF CloseStep, Signals, Inv, SessionInv, SessionTypeOK, callVars, portVars
<1>4. SessionInv'
  BY <1>2, <1>3, RequestsAssumption, CloseKeeps DEF Inv
<1>5. TypeOK' /\ StatusFits'
  BY <1>1, <1>2 DEF Inv, TypeOK, StatusFits
<1>6. ASSUME NEW u \in Targets PROVE TargetFits(u)' /\ ReturnFits(u)' /\ OutcomeFits(u)'
  <2>1. TargetFits(u) /\ ReturnFits(u) /\ OutcomeFits(u)
    BY DEF Inv, FleetFits
  <2>2. target'[u] = IF u = t THEN "probing" ELSE target[u]
    BY <1>1 DEF Inv, TypeOK
  <2>3. QED
    BY <1>1, <2>1, <2>2 DEF TargetFits, ReturnFits, OutcomeFits, TaskAborted, callVars
<1>7. QED
  BY <1>4, <1>5, <1>6 DEF Inv, FleetFits

(* The close of a target's session is over. *)
LEMMA TargetClosedFits ==
    ASSUME Inv, NEW t \in Targets, TargetClosed(t)
    PROVE  Inv'
<1>1. /\ target[t] = "closing" /\ target' = [target EXCEPT ![t] = "done"]
      /\ targetWaits' = [targetWaits EXCEPT ![t] = {}]
      /\ UNCHANGED <<sessionVars, made, task, nextIndex, outcome, taskWaits, cancelled,
                     totalTimedOut, status>>
  BY DEF TargetClosed
<1>2. SessionInv'
  BY <1>1, SessionsStay DEF Inv
<1>3. TypeOK' /\ StatusFits'
  BY <1>1, <1>2 DEF SessionInv, Inv, TypeOK, StatusFits
<1>4. ASSUME NEW u \in Targets PROVE TargetFits(u)' /\ ReturnFits(u)' /\ OutcomeFits(u)'
  <2>1. TargetFits(u) /\ ReturnFits(u) /\ OutcomeFits(u)
    BY DEF Inv, FleetFits
  <2>2. target'[u] = IF u = t THEN "done" ELSE target[u]
    BY <1>1 DEF Inv, TypeOK
  <2>3. QED
    BY <1>1, <2>1, <2>2 DEF TargetFits, ReturnFits, OutcomeFits, TaskAborted, sessionVars,
       callVars, childVars
<1>5. QED
  BY <1>2, <1>3, <1>4 DEF Inv, FleetFits

(* The workers have returned: every target has its outcome, and the task   *)
(* waits for what is left of their sessions.                               *)
LEMMA ReportFits ==
    ASSUME Inv, Report
    PROVE  Inv'
<1> DEFINE taken == {t \in Targets : target[t] # "queued"}
<1>1. /\ task = "collecting" /\ task' = "closing" /\ taken \in SUBSET Targets
      /\ CloseTerminals(taken) /\ taskWaits' = UNION {ClosingOf(PidOf[t]) : t \in taken}
      /\ UNCHANGED <<callVars, child, entry, messages, portVars, active, pending, latest,
                     made, nextIndex, target, targetWaits, cancelled, totalTimedOut>>
  BY DEF Report
<1>2. Closes(taken)
  <2>1. SessionTypeOK
    BY DEF Inv, SessionInv
  <2>2. QED
    BY <1>1, <2>1 DEF Closes, SessionTypeOK, callVars, portVars
<1>3. SessionInv'
  BY <1>1, <1>2, ClosesKeeps DEF Inv
<1>4. \A t \in Targets : outcome'[t] = IF outcome[t] # "none" THEN outcome[t]
                                      ELSE IF totalTimedOut THEN "totalTimeout" ELSE "cancelled"
  BY DEF Report
<1>5. outcome' \in [Targets -> Outcomes]
  BY DEF Report, Inv, TypeOK, Outcomes
<1>6. taskWaits' \subseteq Requests
  BY <1>1, TargetClosing DEF Inv
<1>7. status' = IF ~TaskAborted THEN "completed"
                ELSE IF totalTimedOut THEN "timeout" ELSE "cancelled"
  BY DEF Report
<1>8. TypeOK' /\ StatusFits'
  BY <1>1, <1>3, <1>5, <1>6, <1>7 DEF SessionInv, Inv, TypeOK, StatusFits
<1>9. ASSUME NEW t \in Targets PROVE TargetFits(t)' /\ ReturnFits(t)' /\ OutcomeFits(t)'
  <2>1. /\ TargetFits(t) /\ ReturnFits(t) /\ OutcomeFits(t) /\ target[t] \in {"queued", "done"}
        /\ t \in Requests /\ t \in 1..NTargets
    BY TargetsAlone DEF Inv, TypeOK, FleetFits, Report, InFlight, Targets
  <2>2. TargetFits(t)'
    BY <1>1, <1>4, <2>1 DEF TargetFits, callVars
  <2>3. entry[t] \in {"open", "terminating"} => t \in taskWaits'
    <3>1. SUFFICES ASSUME entry[t] \in {"open", "terminating"} PROVE t \in taskWaits'
      OBVIOUS
    <3>2. call[t] # "idle"
      BY <2>1, <3>1 DEF Inv, SessionInv, Fits, EntryFits
    <3>3. t \in taken
      BY <2>1, <3>2 DEF TargetFits
    <3>4. QED
      BY <1>1, <3>1, <3>3, TargetClosing DEF Inv
  <2>4. ReturnFits(t)'
    BY <1>1, <2>1, <2>3 DEF ReturnFits
  <2>5. ~TaskAborted => /\ outcome'[t] = outcome[t]
                        /\ outcome[t] \in {"success", "error", "targetTimeout"}
    <3>1. SUFFICES ASSUME ~TaskAborted
                   PROVE  outcome[t] \in {"success", "error", "targetTimeout"}
      BY <1>4
    <3>2. ~(t > nextIndex)
      BY <2>1, <3>1, FleetAssumption DEF Report
    <3>3. outcome[t] # "none"
      BY <2>1, <3>2 DEF TargetFits
    <3>4. QED
      BY <2>1, <3>1, <3>3 DEF OutcomeFits, TaskAborted, Inv, TypeOK, Outcomes
  <2>6. OutcomeFits(t)'
    <3>1. outcome'[t] = "success" => outcome[t] = "success"
      BY <1>4
    <3>2. outcome'[t] = "totalTimeout" => totalTimedOut
      BY <1>4, <2>1 DEF OutcomeFits
    <3>3. outcome'[t] = "cancelled" => TaskAborted
      BY <1>4, <2>1, <2>5 DEF OutcomeFits
    <3>4. QED
      BY <1>1, <1>4, <1>7, <2>1, <2>5, <3>1, <3>2, <3>3 DEF OutcomeFits, TaskAborted, callVars
  <2>7. QED
    BY <2>2, <2>4, <2>6
<1>10. QED
  BY <1>3, <1>8, <1>9 DEF Inv, FleetFits

(* What the task waited for has ended. *)
LEMMA TaskClosedFits ==
    ASSUME Inv, TaskClosed
    PROVE  Inv'
<1>1. /\ task = "closing" /\ task' = "done" /\ taskWaits' = {}
      /\ \A r \in taskWaits : entry[r] = "ended"
      /\ UNCHANGED <<sessionVars, made, nextIndex, target, outcome, targetWaits, cancelled,
                     totalTimedOut, status>>
  BY DEF TaskClosed, AllEnded
<1>2. SessionInv'
  BY <1>1, SessionsStay DEF Inv
<1>3. TypeOK' /\ StatusFits'
  BY <1>1, <1>2 DEF SessionInv, Inv, TypeOK, StatusFits
<1>4. ASSUME NEW t \in Targets PROVE TargetFits(t)' /\ ReturnFits(t)' /\ OutcomeFits(t)'
  <2>1. TargetFits(t) /\ ReturnFits(t) /\ OutcomeFits(t)
    BY DEF Inv, FleetFits
  <2>2. entry[t] \in {"none", "open", "terminating", "ended"}
    BY TargetsAlone DEF Inv, SessionInv, SessionTypeOK
  <2>3. entry[t] \in {"none", "ended"}
    BY <1>1, <2>1, <2>2 DEF ReturnFits
  <2>4. QED
    BY <1>1, <2>1, <2>3 DEF TargetFits, ReturnFits, OutcomeFits, TaskAborted, sessionVars,
       callVars, childVars
<1>5. QED
  BY <1>2, <1>3, <1>4 DEF Inv, FleetFits

---------------------------------------------------------------------------
(* The initial states satisfy the invariant. *)
LEMMA InitInv == Init => Inv
<1> SUFFICES ASSUME Init PROVE Inv
  OBVIOUS
<1>1. SessionInv
  BY RequestsAssumption, PortAssumption, InitKeeps DEF Init
<1>2. TypeOK
  <2>1. made \subseteq Requests /\ nextIndex \in 0..NTargets
    BY FleetAssumption DEF Init
  <2>2. outcome \in [Targets -> Outcomes] /\ targetWaits \in [Targets -> SUBSET Requests]
    BY DEF Init, Outcomes
  <2>3. target \in [Targets -> {"queued", "opening", "probing", "closing", "done"}]
    BY DEF Init
  <2>4. QED
    BY <1>1, <2>1, <2>2, <2>3 DEF Init, TypeOK, SessionInv
<1>3. StatusFits
  BY DEF Init, StatusFits
<1>4. ASSUME NEW t \in Targets PROVE TargetFits(t) /\ ReturnFits(t) /\ OutcomeFits(t)
  <2>1. t \in Requests /\ t > 0
    BY TargetsAlone, FleetAssumption DEF Targets
  <2>2. QED
    BY <2>1 DEF Init, SessionInit, TargetFits, ReturnFits, OutcomeFits
<1>5. QED
  BY <1>1, <1>2, <1>3, <1>4 DEF Inv, FleetFits

(* Every step keeps the invariant. *)
LEMMA NextInv ==
    ASSUME Inv, [Next]_vars
    PROVE  Inv'
<1>1. CASE SessionStep
  BY <1>1, SessionFits DEF SessionStep
<1>2. CASE Collect \/ Cancel \/ TotalTimeout \/ Report \/ TaskClosed
  BY <1>2, CollectFits, TaskLeaves, ReportFits, TaskClosedFits
<1>3. ASSUME NEW t \in Targets, TakeTarget(t) \/ TargetTimeout(t) \/ TargetStep(t) PROVE Inv'
  BY <1>3, TakeFits, TargetLeaves, ProbesSent, TargetClosedFits DEF TargetStep
<1>4. ASSUME NEW r \in Requests, UserStart(r) PROVE Inv'
  BY <1>4, UserFits
<1>5. CASE UNCHANGED vars
  <2>1. SessionInv'
    BY <1>5, SessionsStay DEF Inv, vars
  <2>2. TypeOK' /\ StatusFits'
    BY <1>5, <2>1 DEF Inv, SessionInv, TypeOK, StatusFits, vars, fleetVars
  <2>3. FleetFits'
    BY <1>5 DEF Inv, FleetFits, TargetFits, ReturnFits, OutcomeFits, TaskAborted, vars,
       fleetVars, sessionVars, callVars, childVars
  <2>4. QED
    BY <2>1, <2>2, <2>3 DEF Inv
<1>6. QED
  BY <1>1, <1>2, <1>3, <1>4, <1>5 DEF Next

(* The invariant holds throughout. *)
THEOREM InvAlways == Spec => []Inv
<1>1. Inv /\ [Next]_vars => Inv'
  BY NextInv
<1>2. QED
  BY InitInv, <1>1, PTL DEF Spec

(* Every variable keeps to its set, whatever the number of requests. *)
THEOREM TypesAlways == Spec => []TypeOK
<1>1. Inv => TypeOK
  BY DEF Inv
<1>2. QED
  BY InvAlways, <1>1, PTL

(* Whatever superseded, aborted or failed the call that forked a child has *)
(* closed it: a child nobody told to end is found by its pid, or is that   *)
(* of a test in progress (closeEntry and entriesForPid).                   *)
THEOREM NoStrayChildAlways == Spec => []NoStrayChild
<1>1. Inv => NoStrayChild
  BY DEF Inv, SessionInv, Fits, FoundFits, Found, NoStrayChild
<1>2. QED
  BY InvAlways, <1>1, PTL

(* No two calls and children have one port, though it is looked for        *)
(* asynchronously and handed from the call to its child (getPort and       *)
(* releasePort).                                                           *)
THEOREM PortsDistinctAlways == Spec => []PortsDistinct
<1>1. Inv => PortsDistinct
  BY DEF Inv, SessionInv, PortsApart, UsesPort, PortsDistinct, InUse
<1>2. QED
  BY InvAlways, <1>1, PTL

(* A collection that has returned leaves no session behind, not even one   *)
(* whose opening was on its way when the target was given up.              *)
THEOREM NoSessionLeftAlways == Spec => []NoSessionLeft
<1>1. Inv => NoSessionLeft
  <2>1. SUFFICES ASSUME Inv, task = "done", NEW t \in Targets, Running(t)
                 PROVE  signal[t] = "kill"
    BY DEF NoSessionLeft
  <2>2. EntryFits(t) /\ ReturnFits(t) /\ t \notin Tests
    BY <2>1, TargetsAlone DEF Inv, SessionInv, Fits, FleetFits, Alone
  <2>3. QED
    BY <2>1, <2>2 DEF EntryFits, ReturnFits, Running
<1>2. QED
  BY InvAlways, <1>1, PTL

(* What the collection reports of its targets agrees with its status, and  *)
(* a success is that of an open session.                                   *)
THEOREM ReportIsTrueAlways == Spec => []ReportIsTrue
<1>1. Inv => ReportIsTrue
  BY DEF Inv, FleetFits, OutcomeFits, ReportIsTrue
<1>2. QED
  BY InvAlways, <1>1, PTL

(* The session of a pid is only ever replaced by one that was asked for    *)
(* later (latestTerminalRequests).                                         *)
THEOREM NewestWinsAlways == Spec => NewestWins
<1> DEFINE Wins == \A p \in Pids :
              active[p] # active'[p] /\ active'[p] # NoRequest =>
                  \A r \in Requests \ Tests :
                      PidOf[r] = p /\ call[r] \in {"opened", "previous"} => r < active'[p]
<1>1. Inv /\ [Next]_vars => [Wins]_vars
  <2>1. SUFFICES ASSUME Inv, Next PROVE Wins
    OBVIOUS
  <2>2. CASE SessionStep
    BY <2>1, <2>2, RequestsAssumption, NewestMoves DEF Inv, SessionStep
  <2>3. CASE ~SessionStep
    <3>1. active' = active
      BY <2>1, <2>3 DEF Next, Collect, Cancel, TotalTimeout, AbortTask, Report, TaskClosed,
         TakeTarget,
         TargetTimeout, TargetStep, OpenReturns, OpenFails, ProbesAnswered, ProbesFail,
         TargetClosed, UserStart, Start, sessionVars, pidVars
    <3>2. QED
      BY <3>1
  <2>4. QED
    BY <2>2, <2>3
<1>2. QED
  BY InvAlways, <1>1, PTL DEF Spec, NewestWins
=============================================================================
