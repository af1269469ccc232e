-------------------------- MODULE AgentTasks_proofs --------------------------
(***************************************************************************)
(* Proofs about AgentTasks: types, one run at a time in a session, that a  *)
(* cancelled task has stopped and starts nothing more, that the recovery   *)
(* spares the tasks that run, and that records agree with their steps, for *)
(* any number of tasks and steps and any number of restarts.               *)
(*                                                                         *)
(* Each of the five parts of the invariant is preserved by every action;   *)
(* the lemma of a part has one step per action.                            *)
(***************************************************************************)
EXTENDS AgentTasks, TLAPS

(* the awaits before a task is registered, and those of a cancel that      *)
(* waits for nothing but the database                                      *)
Pre == {"idle", "saving", "planning", "confirming"}
Asking == {"serial", "close", "reread", "get"}

(* One task is registered; it runs only while it is, is cancelled only     *)
(* after it was, and a cancel asks the database once the run is over.      *)
SessionOK ==
    /\ \A t, u \in entries : t = u
    /\ \A t \in Tasks : pc[t] \in InRun => t \in entries
    /\ \A t \in Tasks : t \in entries \/ cpc[t] # "idle" => pc[t] \notin Pre
    /\ \A t \in Tasks : cpc[t] \in Asking => pc[t] \notin InRun

(* Where a command may be alive: while its step runs, or after a failure,  *)
(* which no cancel can turn into a cancellation because the record is      *)
(* final.  A step nobody stops is of a task nobody cancels.                *)
HostOK ==
    \A t \in Tasks :
        /\ status[t] = "cancelled" => pc[t] \in {"caught", "ended"} /\ t \notin host
        /\ t \in host => pc[t] \in {"remote", "fail", "caught", "ended"}
        /\ t \in host /\ pc[t] \notin InRun /\ (t \in entries \/ cpc[t] # "idle") =>
              status[t] \in Final
        /\ cpc[t] = "close" => t \notin host
        /\ pc[t] = "remote" /\ stop[t] = "none" => t \notin flags \cup aborted

(* The recovery has to do with tasks that were registered once, and        *)
(* patches those that no longer run.                                       *)
RecoveryOK ==
    \A t \in Tasks :
        /\ status[t] = "running-readonly" \/ t \in scan \/ t = patching => pc[t] \notin Pre
        /\ t = patching => pc[t] \notin InRun

(* The steps before the one that runs are completed and those after it     *)
(* pending; a task that is over and not left by a restart has a status     *)
(* that says so.                                                           *)
Ordered(ss) == \A s \in Steps : ss[s] = "completed" => \A r \in 1..s : ss[r] = "completed"
Untouched == {"starting", "refuse", "dismiss", "mark"}
Stepping == {"check", "begin", "remote", "complete", "fail", "stop"}
StepsFit(t) ==
    /\ Ordered(steps[t]) /\ Ordered(seen[t])
    /\ pc[t] \in Pre \cup InRun => status[t] \notin Final \cup {"awaiting-change-confirmation"}
    /\ pc[t] \in Pre \cup Untouched => at[t] = 1 /\ \A s \in Steps : steps[t][s] = "pending"
    /\ pc[t] \in Stepping =>
          /\ \A s \in Steps : (s < at[t] => steps[t][s] = "completed")
                              /\ (s > at[t] => steps[t][s] = "pending")
          /\ steps[t][at[t]] \in {"pending", "running"}
    /\ pc[t] = "finish" => \A s \in Steps : steps[t][s] = "completed"
    /\ status[t] = "awaiting-change-confirmation" =>
          \A s \in Steps : steps[t][s] = "pending"
    /\ pc[t] \notin InRun /\ (t \in entries \/ cpc[t] # "idle") =>
          status[t] \in Final \cup {"awaiting-change-confirmation"}
    /\ status[t] \in Final => \A s \in Steps : steps[t][s] # "running"
    /\ status[t] = "completed" => \A s \in Steps : steps[t][s] = "completed"
    /\ status[t] = "partially-completed" => \E s \in Steps : steps[t][s] = "completed"
    /\ status[t] = "failed" => \A s \in Steps : steps[t][s] # "completed"

StepsOK == \A t \in Tasks : StepsFit(t)

Inv == TypeOK /\ SessionOK /\ HostOK /\ RecoveryOK /\ StepsOK

---------------------------------------------------------------------------
(* A step's status written into the record keeps its shape. *)
LEMMA StepIsTyped ==
    ASSUME TypeOK, NEW t \in Tasks, NEW ss \in StepStatuses, StepIs(t, ss)
    PROVE  steps' \in [Tasks -> [Steps -> StepStatuses]]
<1>1. steps[t] \in [Steps -> StepStatuses] /\ at[t] \in Steps
  BY DEF TypeOK
<1>2. [steps[t] EXCEPT ![at[t]] = ss] \in [Steps -> StepStatuses]
  BY <1>1
<1>3. steps' = [steps EXCEPT ![t] = [steps[t] EXCEPT ![at[t]] = ss]]
  BY <1>1 DEF StepIs, TypeOK
<1>4. QED
  BY <1>2, <1>3 DEF TypeOK

(* Every step keeps every variable in its set. *)
LEMMA TypeMoves ==
    ASSUME TypeOK, [Next]_vars
    PROVE  TypeOK'
<1> USE TasksAssumption DEF TypeOK, Awaits, InRun, Statuses, Final, StepStatuses, Steps,
       Pending, vars, recordVars, runVars, cancelVars, registryVars, recoveryVars
<1>1. ASSUME NEW t \in Tasks, Create(t) PROVE TypeOK'
  BY <1>1 DEF Create, Goes
<1>2. ASSUME NEW t \in Tasks, Saved(t) PROVE TypeOK'
  BY <1>2 DEF Saved, Writes, Goes
<1>3. ASSUME NEW t \in Tasks, Planned(t) PROVE TypeOK'
  BY <1>3 DEF Planned, Writes, Goes
<1>4. ASSUME NEW t \in Tasks, Confirmed(t) PROVE TypeOK'
  BY <1>4 DEF Confirmed, Conflicting, Goes
<1>5. ASSUME NEW t \in Tasks, Run(t) PROVE TypeOK'
  BY <1>5 DEF Run, Goes, Wanted
<1>6. ASSUME NEW t \in Tasks, Refused(t) PROVE TypeOK'
  BY <1>6 DEF Refused, Writes, Goes
<1>7. ASSUME NEW t \in Tasks, Dismissed(t) PROVE TypeOK'
  BY <1>7 DEF Dismissed, Writes, Goes
<1>8. ASSUME NEW t \in Tasks, Marked(t) PROVE TypeOK'
  BY <1>8 DEF Marked, Writes, Goes
<1>9. ASSUME NEW t \in Tasks, CheckStep(t) PROVE TypeOK'
  BY <1>9 DEF CheckStep, Goes, Wanted
<1>10. ASSUME NEW t \in Tasks, Begun(t) PROVE TypeOK'
  <2>1. StepIs(t, "running")
    BY <1>10 DEF Begun
  <2>2. steps' \in [Tasks -> [Steps -> StepStatuses]]
    <3> HIDE DEF TypeOK, Steps
    <3> QED BY <2>1, StepIsTyped
  <2>3. pc' \in [Tasks -> Awaits]
    <3>1. pc' = [pc EXCEPT ![t] = "stop"] \/ pc' = [pc EXCEPT ![t] = "remote"]
      BY <1>10 DEF Begun, StartsStep, Goes
    <3>2. QED
      BY <3>1
  <2>4. host' \subseteq Tasks
    BY <1>10 DEF Begun, StartsStep
  <2>5. stop' \in [Tasks -> {"none", "cancel", "timeout"}]
    BY <1>10 DEF Begun, StartsStep
  <2>6. QED
    BY <1>10, <2>2, <2>3, <2>4, <2>5 DEF Begun
<1>11. ASSUME NEW t \in Tasks, Completed(t) PROVE TypeOK'
  <2>1. StepIs(t, "completed")
    BY <1>11 DEF Completed
  <2>2. steps' \in [Tasks -> [Steps -> StepStatuses]]
    <3> HIDE DEF TypeOK, Steps
    <3> QED BY <2>1, StepIsTyped
  <2>3. pc' \in [Tasks -> Awaits]
    <3>1. pc' = [pc EXCEPT ![t] = "check"] \/ pc' = [pc EXCEPT ![t] = "finish"]
      BY <1>11 DEF Completed, NextStep, Goes
    <3>2. QED
      BY <3>1
  <2>4. at[t] < StepCount => at[t] + 1 \in 1..StepCount
    BY at[t] \in 1..StepCount
  <2>5. at' \in [Tasks -> 1..StepCount]
    BY <1>11, <2>4 DEF Completed, NextStep
  <2>6. QED
    BY <1>11, <2>2, <2>3, <2>5 DEF Completed
<1>12. ASSUME NEW t \in Tasks, Failed(t) PROVE TypeOK'
  <2>1. StepIs(t, "failed")
    BY <1>12 DEF Failed, FailStep
  <2>2. steps' \in [Tasks -> [Steps -> StepStatuses]]
    <3> HIDE DEF TypeOK, Steps
    <3> QED BY <2>1, StepIsTyped
  <2>3. QED
    BY <1>12, <2>2 DEF Failed, FailStep, FailedStatus, Writes, Goes
<1>13. ASSUME NEW t \in Tasks, Stopped(t) PROVE TypeOK'
  <2>1. StepIs(t, "cancelled")
    BY <1>13 DEF Stopped
  <2>2. steps' \in [Tasks -> [Steps -> StepStatuses]]
    <3> HIDE DEF TypeOK, Steps
    <3> QED BY <2>1, StepIsTyped
  <2>3. QED
    BY <1>13, <2>2 DEF Stopped, Writes, Goes
<1>14. ASSUME NEW t \in Tasks, Finished(t) PROVE TypeOK'
  BY <1>14 DEF Finished, Writes, Goes, Unregister
<1>15. ASSUME NEW t \in Tasks, Caught(t) PROVE TypeOK'
  BY <1>15 DEF Caught, Goes, Unregister
<1>16. ASSUME NEW t \in Tasks, Answers(t) PROVE TypeOK'
  BY <1>16 DEF Answers, Goes, Catches, Wanted
<1>17. ASSUME NEW t \in Tasks, TimesOut(t) PROVE TypeOK'
  BY <1>17 DEF TimesOut, Stop
<1>18. ASSUME NEW t \in Tasks, StopAnswered(t) PROVE TypeOK'
  BY <1>18 DEF StopAnswered, Goes, StopRefused, Wanted
<1>19. ASSUME NEW t \in Tasks, Cancel(t) PROVE TypeOK'
  BY <1>19 DEF Cancel, BeginCancel, Stop, CancelGoes
<1>20. ASSUME NEW t \in Tasks, OwnerEnds(t) PROVE TypeOK'
  <2>1. CASE cpc[t] = "idle"
    <3>1. cpc' \in [Tasks -> {"idle", "stopping", "pending", "serial", "close", "reread", "get"}]
      BY <1>20, <2>1 DEF OwnerEnds, BeginCancel, CancelGoes
    <3>2. stop' \in [Tasks -> {"none", "cancel", "timeout"}]
      BY <1>20, <2>1 DEF OwnerEnds, BeginCancel, Stop
    <3>3. QED
      BY <1>20, <2>1, <3>1, <3>2 DEF OwnerEnds, BeginCancel
  <2>2. CASE cpc[t] # "idle"
    BY <1>20, <2>2 DEF OwnerEnds
  <2>3. QED
    BY <2>1, <2>2
<1>21. ASSUME NEW t \in Tasks, CancelWaited(t) PROVE TypeOK'
  BY <1>21 DEF CancelWaited, CancelGoes, RunReturned
<1>22. ASSUME NEW t \in Tasks, CancelReads(t) PROVE TypeOK'
  BY <1>22 DEF CancelReads, CancelGoes
<1>23. ASSUME NEW t \in Tasks, CancelCloses(t) PROVE TypeOK'
  BY <1>23 DEF CancelCloses, CancelGoes, Writes
<1>24. ASSUME NEW t \in Tasks, CancelFails(t) PROVE TypeOK'
  BY <1>24 DEF CancelFails, Writes, FailedStatus, Returns, CancelGoes
<1>25. ASSUME NEW t \in Tasks, CancelAnswers(t) PROVE TypeOK'
  BY <1>25 DEF CancelAnswers, Returns, CancelGoes
<1>26. ASSUME NEW t \in Tasks, HostEnds(t) PROVE TypeOK'
  BY <1>26 DEF HostEnds
<1>27. CASE ListTasks
  BY <1>27 DEF ListTasks, Advance, Orphans
<1>28. CASE Recovered
  BY <1>28 DEF Recovered, Advance, Orphans, Writes, FailedStatus
<1>29. CASE Restart
  BY <1>29 DEF Restart
<1>30. CASE UNCHANGED vars
  BY <1>30
<1>31. QED
  BY <1>1, <1>2, <1>3, <1>4, <1>5, <1>6, <1>7, <1>8, <1>9, <1>10, <1>11, <1>12, <1>13,
     <1>14, <1>15, <1>16, <1>17, <1>18, <1>19, <1>20, <1>21, <1>22, <1>23, <1>24, <1>25,
     <1>26, <1>27, <1>28, <1>29, <1>30 DEF Next, RunStep, CancelStep

(* Every step keeps the session to one task. *)
LEMMA SessionMoves ==
    ASSUME TypeOK, SessionOK, [Next]_vars
    PROVE  SessionOK'
<1> USE DEF TypeOK, SessionOK, Awaits, InRun, Pre, Asking, vars, recordVars, runVars,
       cancelVars, registryVars, recoveryVars
<1>1. ASSUME NEW t \in Tasks, Create(t) PROVE SessionOK'
  BY <1>1 DEF Create, Goes
<1>2. ASSUME NEW t \in Tasks, Saved(t) PROVE SessionOK'
  BY <1>2 DEF Saved, Writes, Goes
<1>3. ASSUME NEW t \in Tasks, Planned(t) PROVE SessionOK'
  BY <1>3 DEF Planned, Writes, Goes
<1>4. ASSUME NEW t \in Tasks, Confirmed(t) PROVE SessionOK'
  BY <1>4 DEF Confirmed, Conflicting, Goes
<1>5. ASSUME NEW t \in Tasks, Run(t) PROVE SessionOK'
  BY <1>5 DEF Run, Goes, Wanted
<1>6. ASSUME NEW t \in Tasks, Refused(t) PROVE SessionOK'
  BY <1>6 DEF Refused, Writes, Goes
<1>7. ASSUME NEW t \in Tasks, Dismissed(t) PROVE SessionOK'
  BY <1>7 DEF Dismissed, Writes, Goes
<1>8. ASSUME NEW t \in Tasks, Marked(t) PROVE SessionOK'
  BY <1>8 DEF Marked, Writes, Goes
<1>9. ASSUME NEW t \in Tasks, CheckStep(t) PROVE SessionOK'
  BY <1>9 DEF CheckStep, Goes, Wanted
<1>10. ASSUME NEW t \in Tasks, Begun(t) PROVE SessionOK'
  BY <1>10 DEF Begun, StepIs, StartsStep, Goes, Wanted
<1>11. ASSUME NEW t \in Tasks, Completed(t) PROVE SessionOK'
  BY <1>11 DEF Completed, StepIs, NextStep, Goes
<1>12. ASSUME NEW t \in Tasks, Failed(t) PROVE SessionOK'
  BY <1>12 DEF Failed, FailStep, FailedStatus, Writes, StepIs, Goes
<1>13. ASSUME NEW t \in Tasks, Stopped(t) PROVE SessionOK'
  BY <1>13 DEF Stopped, Writes, StepIs, Goes
<1>14. ASSUME NEW t \in Tasks, Finished(t) PROVE SessionOK'
  BY <1>14 DEF Finished, Writes, Goes, Unregister
<1>15. ASSUME NEW t \in Tasks, Caught(t) PROVE SessionOK'
  BY <1>15 DEF Caught, Goes, Unregister
<1>16. ASSUME NEW t \in Tasks, Answers(t) PROVE SessionOK'
  BY <1>16 DEF Answers, Goes, Catches, Wanted
<1>17. ASSUME NEW t \in Tasks, TimesOut(t) PROVE SessionOK'
  BY <1>17 DEF TimesOut, Stop
<1>18. ASSUME NEW t \in Tasks, StopAnswered(t) PROVE SessionOK'
  BY <1>18 DEF StopAnswered, Goes, StopRefused, Wanted
<1>19. ASSUME NEW t \in Tasks, Cancel(t) PROVE SessionOK'
  BY <1>19 DEF Cancel, BeginCancel, Stop, CancelGoes
<1>20. ASSUME NEW t \in Tasks, OwnerEnds(t) PROVE SessionOK'
  BY <1>20 DEF OwnerEnds, BeginCancel, Stop, CancelGoes
<1>21. ASSUME NEW t \in Tasks, CancelWaited(t) PROVE SessionOK'
  BY <1>21 DEF CancelWaited, CancelGoes, RunReturned
<1>22. ASSUME NEW t \in Tasks, CancelReads(t) PROVE SessionOK'
  BY <1>22 DEF CancelReads, CancelGoes
<1>23. ASSUME NEW t \in Tasks, CancelCloses(t) PROVE SessionOK'
  BY <1>23 DEF CancelCloses, CancelGoes, Writes
<1>24. ASSUME NEW t \in Tasks, CancelFails(t) PROVE SessionOK'
  BY <1>24 DEF CancelFails, Writes, FailedStatus, Returns, CancelGoes
<1>25. ASSUME NEW t \in Tasks, CancelAnswers(t) PROVE SessionOK'
  BY <1>25 DEF CancelAnswers, Returns, CancelGoes
<1>26. ASSUME NEW t \in Tasks, HostEnds(t) PROVE SessionOK'
  BY <1>26 DEF HostEnds
<1>27. CASE ListTasks
  BY <1>27 DEF ListTasks, Advance, Orphans
<1>28. CASE Recovered
  BY <1>28 DEF Recovered, Advance, Orphans, Writes, FailedStatus
<1>29. CASE Restart
  BY <1>29 DEF Restart
<1>30. CASE UNCHANGED vars
  BY <1>30
<1>31. QED
  BY <1>1, <1>2, <1>3, <1>4, <1>5, <1>6, <1>7, <1>8, <1>9, <1>10, <1>11, <1>12, <1>13,
     <1>14, <1>15, <1>16, <1>17, <1>18, <1>19, <1>20, <1>21, <1>22, <1>23, <1>24, <1>25,
     <1>26, <1>27, <1>28, <1>29, <1>30 DEF Next, RunStep, CancelStep

(* Every step keeps what is known of the commands alive on the host. *)
LEMMA HostMoves ==
    ASSUME TypeOK, SessionOK, HostOK, [Next]_vars
    PROVE  HostOK'
<1> USE DEF TypeOK, SessionOK, HostOK, Awaits, InRun, Pre, Asking, Final, vars,
       recordVars, runVars, cancelVars, registryVars, recoveryVars
<1>1. ASSUME NEW t \in Tasks, Create(t) PROVE HostOK'
  BY <1>1 DEF Create, Goes
<1>2. ASSUME NEW t \in Tasks, Saved(t) PROVE HostOK'
  BY <1>2 DEF Saved, Writes, Goes
<1>3. ASSUME NEW t \in Tasks, Planned(t) PROVE HostOK'
  BY <1>3 DEF Planned, Writes, Goes
<1>4. ASSUME NEW t \in Tasks, Confirmed(t) PROVE HostOK'
  BY <1>4 DEF Confirmed, Conflicting, Goes
<1>5. ASSUME NEW t \in Tasks, Run(t) PROVE HostOK'
  BY <1>5 DEF Run, Goes, Wanted
<1>6. ASSUME NEW t \in Tasks, Refused(t) PROVE HostOK'
  BY <1>6 DEF Refused, Writes, Goes
<1>7. ASSUME NEW t \in Tasks, Dismissed(t) PROVE HostOK'
  BY <1>7 DEF Dismissed, Writes, Goes
<1>8. ASSUME NEW t \in Tasks, Marked(t) PROVE HostOK'
  BY <1>8 DEF Marked, Writes, Goes
<1>9. ASSUME NEW t \in Tasks, CheckStep(t) PROVE HostOK'
  BY <1>9 DEF CheckStep, Goes, Wanted
<1>10. ASSUME NEW t \in Tasks, Begun(t) PROVE HostOK'
  BY <1>10 DEF Begun, StepIs, StartsStep, Goes, Wanted
<1>11. ASSUME NEW t \in Tasks, Completed(t) PROVE HostOK'
  BY <1>11 DEF Completed, StepIs, NextStep, Goes
<1>12. ASSUME NEW t \in Tasks, Failed(t) PROVE HostOK'
  BY <1>12 DEF Failed, FailStep, FailedStatus, Writes, StepIs, Goes
<1>13. ASSUME NEW t \in Tasks, Stopped(t) PROVE HostOK'
  BY <1>13 DEF Stopped, Writes, StepIs, Goes
<1>14. ASSUME NEW t \in Tasks, Finished(t) PROVE HostOK'
  BY <1>14 DEF Finished, Writes, Goes, Unregister
<1>15. ASSUME NEW t \in Tasks, Caught(t) PROVE HostOK'
  BY <1>15 DEF Caught, Goes, Unregister
<1>16. ASSUME NEW t \in Tasks, Answers(t) PROVE HostOK'
  BY <1>16 DEF Answers, Goes, Catches, Wanted
<1>17. ASSUME NEW t \in Tasks, TimesOut(t) PROVE HostOK'
  BY <1>17 DEF TimesOut, Stop
<1>18. ASSUME NEW t \in Tasks, StopAnswered(t) PROVE HostOK'
  BY <1>18 DEF StopAnswered, Goes, StopRefused, Wanted
<1>19. ASSUME NEW t \in Tasks, Cancel(t) PROVE HostOK'
  BY <1>19 DEF Cancel, BeginCancel, Stop, CancelGoes
<1>20. ASSUME NEW t \in Tasks, OwnerEnds(t) PROVE HostOK'
  BY <1>20 DEF OwnerEnds, BeginCancel, Stop, CancelGoes
<1>21. ASSUME NEW t \in Tasks, CancelWaited(t) PROVE HostOK'
  BY <1>21 DEF CancelWaited, CancelGoes, RunReturned
<1>22. ASSUME NEW t \in Tasks, CancelReads(t) PROVE HostOK'
  BY <1>22 DEF CancelReads, CancelGoes
<1>23. ASSUME NEW t \in Tasks, CancelCloses(t) PROVE HostOK'
  BY <1>23 DEF CancelCloses, CancelGoes, Writes
<1>24. ASSUME NEW t \in Tasks, CancelFails(t) PROVE HostOK'
  BY <1>24 DEF CancelFails, Writes, FailedStatus, Returns, CancelGoes
<1>25. ASSUME NEW t \in Tasks, CancelAnswers(t) PROVE HostOK'
  BY <1>25 DEF CancelAnswers, Returns, CancelGoes
<1>26. ASSUME NEW t \in Tasks, HostEnds(t) PROVE HostOK'
  BY <1>26 DEF HostEnds
<1>27. CASE ListTasks
  BY <1>27 DEF ListTasks, Advance, Orphans
<1>28. CASE Recovered
  BY <1>28 DEF Recovered, Advance, Orphans, Writes, FailedStatus
<1>29. CASE Restart
  BY <1>29 DEF Restart
<1>30. CASE UNCHANGED vars
  BY <1>30
<1>31. QED
  BY <1>1, <1>2, <1>3, <1>4, <1>5, <1>6, <1>7, <1>8, <1>9, <1>10, <1>11, <1>12, <1>13,
     <1>14, <1>15, <1>16, <1>17, <1>18, <1>19, <1>20, <1>21, <1>22, <1>23, <1>24, <1>25,
     <1>26, <1>27, <1>28, <1>29, <1>30 DEF Next, RunStep, CancelStep

(* A task that an action does not touch keeps its steps in order. *)
LEMMA StepsStay ==
    ASSUME NEW u \in Tasks, StepsFit(u), steps'[u] = steps[u], seen'[u] = seen[u],
           pc'[u] = pc[u], status'[u] = status[u], at'[u] = at[u], cpc'[u] = cpc[u],
           u \in entries' => u \in entries
    PROVE  StepsFit(u)'
BY DEF StepsFit

(* What a write of the step that runs makes of a task's steps. *)
LEMMA StepIsWritten ==
    ASSUME TypeOK, NEW t \in Tasks, NEW ss \in StepStatuses, StepIs(t, ss)
    PROVE  /\ \A s \in Steps : steps'[t][s] = IF s = at[t] THEN ss ELSE steps[t][s]
           /\ \A u \in Tasks : u # t => steps'[u] = steps[u]
<1>1. steps[t] \in [Steps -> StepStatuses] /\ at[t] \in Steps
  BY DEF TypeOK
<1>2. steps' = [steps EXCEPT ![t] = [steps[t] EXCEPT ![at[t]] = ss]]
  BY <1>1 DEF StepIs, TypeOK
<1>3. steps'[t] = [steps[t] EXCEPT ![at[t]] = ss]
  BY <1>2 DEF TypeOK
<1>4. QED
  BY <1>1, <1>2, <1>3 DEF TypeOK

(* The steps of a task at the step that runs: those before are completed,  *)
(* those after pending, and so what is completed is in order.              *)
LEMMA StepsAt ==
    ASSUME TypeOK, NEW t \in Tasks, StepsFit(t), pc[t] \in Stepping
    PROVE  /\ at[t] \in Steps /\ Steps = 1..StepCount /\ StepCount \in Nat /\ Steps \subseteq Nat
           /\ \A s \in Steps : (s < at[t] => steps[t][s] = "completed")
                               /\ (s > at[t] => steps[t][s] = "pending")
           /\ steps[t][at[t]] \in {"pending", "running"}
           /\ Ordered(steps[t]) /\ Ordered(seen[t])
           /\ status[t] \notin Final
           /\ pc[t] \in InRun
<1>1. pc[t] \in InRun
  BY DEF Stepping, InRun
<1>2. QED
  BY <1>1, TasksAssumption DEF TypeOK, StepsFit, Steps

(* A step that begins leaves the steps before it completed, those after it pending. *)
LEMMA StepBegins ==
    ASSUME TypeOK, StepsOK, NEW t \in Tasks, Begun(t)
    PROVE  StepsOK'
<1>1. \A s \in Steps : steps'[t][s] = IF s = at[t] THEN "running" ELSE steps[t][s]
  BY StepIsWritten DEF Begun, StepStatuses
<1>2. /\ pc[t] = "begin" /\ pc[t] \in Stepping /\ StepsFit(t)
      /\ pc'[t] \in {"stop", "remote"} /\ at' = at /\ status' = status /\ seen' = seen
  BY DEF Begun, StartsStep, Goes, TypeOK, StepsOK, Stepping, recoveryVars
<1>3. \A s \in Steps : steps'[t][s] = "completed" <=> steps[t][s] = "completed"
  BY <1>1, <1>2, StepsAt
<1>4. Ordered(steps'[t])
  BY <1>2, <1>3, StepsAt DEF Ordered
<1>5. \A s \in Steps : (s < at[t] => steps'[t][s] = "completed")
                       /\ (s > at[t] => steps'[t][s] = "pending")
  BY <1>1, <1>2, StepsAt
<1>6. steps'[t][at[t]] = "running"
  BY <1>1, <1>2, StepsAt
<1>7. status[t] # "awaiting-change-confirmation"
  BY <1>2 DEF StepsFit, InRun
<1>8. StepsFit(t)'
  BY <1>2, <1>4, <1>5, <1>6, <1>7, StepsAt DEF StepsFit, Pre, InRun, Untouched, Stepping, Final
<1>9. ASSUME NEW u \in Tasks, u # t PROVE StepsFit(u)'
  <2>1. steps'[u] = steps[u]
    BY <1>9, StepIsWritten DEF Begun, StepStatuses
  <2>2. /\ seen'[u] = seen[u] /\ pc'[u] = pc[u] /\ status'[u] = status[u] /\ at'[u] = at[u]
        /\ cpc'[u] = cpc[u] /\ entries' = entries
    BY <1>9 DEF Begun, StartsStep, Goes, TypeOK, recoveryVars, cancelVars, registryVars
  <2>3. QED
    BY <2>1, <2>2, StepsStay DEF StepsOK
<1>10. QED
  BY <1>8, <1>9 DEF StepsOK

(* A completed step moves the run to the next one, or leaves all completed. *)
LEMMA StepCompletes ==
    ASSUME TypeOK, StepsOK, NEW t \in Tasks, Completed(t)
    PROVE  StepsOK'
<1>1. \A s \in Steps : steps'[t][s] = IF s = at[t] THEN "completed" ELSE steps[t][s]
  BY StepIsWritten DEF Completed, StepStatuses
<1>2. /\ pc[t] = "complete" /\ pc[t] \in Stepping /\ StepsFit(t)
      /\ status' = status /\ seen' = seen
      /\ \/ at[t] < StepCount /\ pc'[t] = "check" /\ at'[t] = at[t] + 1
         \/ ~(at[t] < StepCount) /\ pc'[t] = "finish" /\ at'[t] = at[t]
  BY DEF Completed, NextStep, Goes, TypeOK, StepsOK, Stepping, recoveryVars
<1>3. \A s \in Steps : IF s <= at[t] THEN steps'[t][s] = "completed"
                       ELSE steps'[t][s] = "pending"
  BY <1>1, <1>2, StepsAt
<1>4. Ordered(steps'[t])
  BY <1>2, <1>3, StepsAt DEF Ordered
<1>5. status[t] # "awaiting-change-confirmation"
  BY <1>2 DEF StepsFit, InRun
<1>6. ASSUME at[t] < StepCount PROVE StepsFit(t)'
  <2>1. at'[t] \in Steps
    BY <1>2, <1>6, StepsAt
  <2>2. \A s \in Steps : (s < at'[t] => steps'[t][s] = "completed")
                         /\ (s > at'[t] => steps'[t][s] = "pending")
    BY <1>2, <1>3, <1>6, StepsAt
  <2>3. steps'[t][at'[t]] = "pending"
    BY <1>2, <1>3, <1>6, <2>1, StepsAt
  <2>4. QED
    BY <1>2, <1>4, <1>5, <1>6, <2>2, <2>3, StepsAt
       DEF StepsFit, Pre, InRun, Untouched, Stepping, Final
<1>7. ASSUME ~(at[t] < StepCount) PROVE StepsFit(t)'
  <2>1. \A s \in Steps : steps'[t][s] = "completed"
    BY <1>2, <1>3, <1>7, StepsAt
  <2>2. QED
    BY <1>2, <1>4, <1>5, <1>7, <2>1, StepsAt
       DEF StepsFit, Pre, InRun, Untouched, Stepping, Final
<1>8. StepsFit(t)'
  BY <1>6, <1>7
<1>9. ASSUME NEW u \in Tasks, u # t PROVE StepsFit(u)'
  <2>1. steps'[u] = steps[u]
    BY <1>9, StepIsWritten DEF Completed, StepStatuses
  <2>2. /\ seen'[u] = seen[u] /\ pc'[u] = pc[u] /\ status'[u] = status[u] /\ at'[u] = at[u]
        /\ cpc'[u] = cpc[u] /\ entries' = entries
    BY <1>9 DEF Completed, NextStep, Goes, TypeOK, recoveryVars, cancelVars, registryVars
  <2>3. QED
    BY <2>1, <2>2, StepsStay DEF StepsOK
<1>10. QED
  BY <1>8, <1>9 DEF StepsOK

(* A failed step ends the task with the status its completed steps call for. *)
LEMMA StepFails ==
    ASSUME TypeOK, StepsOK, NEW t \in Tasks, Failed(t)
    PROVE  StepsOK'
<1>1. \A s \in Steps : steps'[t][s] = IF s = at[t] THEN "failed" ELSE steps[t][s]
  BY StepIsWritten DEF Failed, FailStep, StepStatuses
<1>2. /\ pc[t] = "fail" /\ pc[t] \in Stepping /\ StepsFit(t)
      /\ pc'[t] = "caught" /\ status'[t] = FailedStatus(steps[t]) /\ seen' = seen
  BY DEF Failed, FailStep, Writes, Goes, TypeOK, StepsOK, Stepping, recoveryVars
<1>3. \A s \in Steps : /\ steps'[t][s] = "completed" <=> steps[t][s] = "completed"
                       /\ steps'[t][s] # "running"
  BY <1>1, <1>2, StepsAt
<1>4. Ordered(steps'[t])
  BY <1>2, <1>3, StepsAt DEF Ordered
<1>5. \/ status'[t] = "partially-completed" /\ \E s \in Steps : steps'[t][s] = "completed"
      \/ status'[t] = "failed" /\ \A s \in Steps : steps'[t][s] # "completed"
  BY <1>2, <1>3 DEF FailedStatus
<1>6. StepsFit(t)'
  BY <1>2, <1>3, <1>4, <1>5, StepsAt DEF StepsFit, Pre, InRun, Untouched, Stepping, Final
<1>7. ASSUME NEW u \in Tasks, u # t PROVE StepsFit(u)'
  <2>1. steps'[u] = steps[u]
    BY <1>7, StepIsWritten DEF Failed, FailStep, StepStatuses
  <2>2. /\ seen'[u] = seen[u] /\ pc'[u] = pc[u] /\ status'[u] = status[u] /\ at'[u] = at[u]
        /\ cpc'[u] = cpc[u] /\ entries' = entries
    BY <1>7 DEF Failed, FailStep, Writes, Goes, TypeOK, recoveryVars, cancelVars, registryVars
  <2>3. QED
    BY <2>1, <2>2, StepsStay DEF StepsOK
<1>8. QED
  BY <1>6, <1>7 DEF StepsOK

(* A stopped step leaves no step running in a cancelled task.              *)
LEMMA StepStops ==
    ASSUME TypeOK, StepsOK, NEW t \in Tasks, Stopped(t)
    PROVE  StepsOK'
<1>1. \A s \in Steps : steps'[t][s] = IF s = at[t] THEN "cancelled" ELSE steps[t][s]
  BY StepIsWritten DEF Stopped, StepStatuses
<1>2. /\ pc[t] = "stop" /\ pc[t] \in Stepping /\ StepsFit(t)
      /\ pc'[t] = "caught" /\ status'[t] = "cancelled" /\ seen' = seen
  BY DEF Stopped, Writes, Goes, TypeOK, StepsOK, Stepping, recoveryVars
<1>3. \A s \in Steps : /\ steps'[t][s] = "completed" <=> steps[t][s] = "completed"
                       /\ steps'[t][s] # "running"
  BY <1>1, <1>2, StepsAt
<1>4. Ordered(steps'[t])
  BY <1>2, <1>3, StepsAt DEF Ordered
<1>5. StepsFit(t)'
  BY <1>2, <1>3, <1>4, StepsAt DEF StepsFit, Pre, InRun, Untouched, Stepping, Final
<1>6. ASSUME NEW u \in Tasks, u # t PROVE StepsFit(u)'
  <2>1. steps'[u] = steps[u]
    BY <1>6, StepIsWritten DEF Stopped, StepStatuses
  <2>2. /\ seen'[u] = seen[u] /\ pc'[u] = pc[u] /\ status'[u] = status[u] /\ at'[u] = at[u]
        /\ cpc'[u] = cpc[u] /\ entries' = entries
    BY <1>6 DEF Stopped, Writes, Goes, TypeOK, recoveryVars, cancelVars, registryVars
  <2>3. QED
    BY <2>1, <2>2, StepsStay DEF StepsOK
<1>7. QED
  BY <1>5, <1>6 DEF StepsOK

(* The recovery writes what it read, in order, with no step left running.  *)
LEMMA OrphanFails ==
    ASSUME TypeOK, RecoveryOK, StepsOK, Recovered, NEW u \in Tasks
    PROVE  StepsFit(u)'
<1> DEFINE t == patching
           ss == [s \in Steps |-> IF seen[t][s] = "running" THEN "failed" ELSE seen[t][s]]
<1>1. /\ t \in Tasks /\ steps' = [steps EXCEPT ![t] = ss]
      /\ status' = [status EXCEPT ![t] = FailedStatus(ss)]
      /\ seen' = seen \/ seen' = [v \in Tasks |-> Pending]
      /\ pc' = pc /\ at' = at /\ entries' = entries /\ cpc' = cpc
  BY DEF Recovered, Writes, TypeOK, runVars, registryVars, cancelVars
<1>2. steps'[t] = ss /\ status'[t] = FailedStatus(ss)
  BY <1>1 DEF TypeOK
<1>3. \A s \in Steps : ss[s] # "running" /\ (ss[s] = "completed" <=> seen[t][s] = "completed")
  OBVIOUS
<1>4. pc[t] \notin InRun \cup Pre
  BY <1>1 DEF RecoveryOK
<1> HIDE DEF ss, t
<1>5. Steps = 1..StepCount /\ StepCount \in Nat
  BY TasksAssumption DEF Steps
<1>6. Ordered(Pending)
  BY <1>5 DEF Ordered, Pending
<1>7. \A v \in Tasks : Ordered(seen[v]) /\ Ordered(seen'[v])
  BY <1>1, <1>6 DEF StepsOK, StepsFit
<1>8. CASE u = t
  <2>1. Ordered(steps'[t])
    BY <1>1, <1>2, <1>3, <1>5, <1>7 DEF Ordered
  <2>2. \/ status'[t] = "partially-completed" /\ \E s \in Steps : steps'[t][s] = "completed"
        \/ status'[t] = "failed" /\ \A s \in Steps : steps'[t][s] # "completed"
    BY <1>2 DEF FailedStatus
  <2>3. \A s \in Steps : steps'[t][s] # "running"
    BY <1>2, <1>3
  <2>4. QED
    BY <1>1, <1>4, <1>7, <1>8, <2>1, <2>2, <2>3
       DEF StepsFit, Pre, InRun, Untouched, Stepping, Final
<1>9. CASE u # t
  <2>1. steps'[u] = steps[u] /\ status'[u] = status[u]
    BY <1>1, <1>9 DEF TypeOK
  <2>2. QED
    BY <1>1, <1>7, <2>1 DEF StepsOK, StepsFit
<1>10. QED
  BY <1>8, <1>9

(* Every step keeps steps and statuses in agreement.                       *)
LEMMA StepsMove ==
    ASSUME TypeOK, SessionOK, RecoveryOK, StepsOK, [Next]_vars
    PROVE  StepsOK'
<1> USE TasksAssumption DEF TypeOK, SessionOK, StepsOK, StepsFit, Ordered, Untouched, Stepping,
       Awaits, InRun, Pre, Asking, Final, Steps, StepStatuses, Pending, vars, recordVars,
       runVars, cancelVars, registryVars, recoveryVars
<1>1. ASSUME NEW t \in Tasks, Create(t) PROVE StepsOK'
  BY <1>1 DEF Create, Goes
<1>2. ASSUME NEW t \in Tasks, Saved(t) PROVE StepsOK'
  BY <1>2 DEF Saved, Writes, Goes
<1>3. ASSUME NEW t \in Tasks, Planned(t) PROVE StepsOK'
  BY <1>3 DEF Planned, Writes, Goes
<1>4. ASSUME NEW t \in Tasks, Confirmed(t) PROVE StepsOK'
  BY <1>4 DEF Confirmed, Conflicting, Goes
<1>5. ASSUME NEW t \in Tasks, Run(t) PROVE StepsOK'
  BY <1>5 DEF Run, Goes, Wanted
<1>6. ASSUME NEW t \in Tasks, Refused(t) PROVE StepsOK'
  BY <1>6 DEF Refused, Writes, Goes
<1>7. ASSUME NEW t \in Tasks, Dismissed(t) PROVE StepsOK'
  BY <1>7 DEF Dismissed, Writes, Goes
<1>8. ASSUME NEW t \in Tasks, Marked(t) PROVE StepsOK'
  BY <1>8 DEF Marked, Writes, Goes
<1>9. ASSUME NEW t \in Tasks, CheckStep(t) PROVE StepsOK'
  BY <1>9 DEF CheckStep, Goes, Wanted
<1>10. ASSUME NEW t \in Tasks, Begun(t) PROVE StepsOK'
  BY <1>10, StepBegins
<1>11. ASSUME NEW t \in Tasks, Completed(t) PROVE StepsOK'
  BY <1>11, StepCompletes
<1>12. ASSUME NEW t \in Tasks, Failed(t) PROVE StepsOK'
  BY <1>12, StepFails
<1>13. ASSUME NEW t \in Tasks, Stopped(t) PROVE StepsOK'
  BY <1>13, StepStops
<1>14. ASSUME NEW t \in Tasks, Finished(t) PROVE StepsOK'
  BY <1>14 DEF Finished, Writes, Goes, Unregister
<1>15. ASSUME NEW t \in Tasks, Caught(t) PROVE StepsOK'
  BY <1>15 DEF Caught, Goes, Unregister
<1>16. ASSUME NEW t \in Tasks, Answers(t) PROVE StepsOK'
  BY <1>16 DEF Answers, Goes, Catches, Wanted
<1>17. ASSUME NEW t \in Tasks, TimesOut(t) PROVE StepsOK'
  BY <1>17 DEF TimesOut, Stop
<1>18. ASSUME NEW t \in Tasks, StopAnswered(t) PROVE StepsOK'
  BY <1>18 DEF StopAnswered, Goes, StopRefused, Wanted
<1>19. ASSUME NEW t \in Tasks, Cancel(t) PROVE StepsOK'
  BY <1>19 DEF Cancel, BeginCancel, Stop, CancelGoes
<1>20. ASSUME NEW t \in Tasks, OwnerEnds(t) PROVE StepsOK'
  BY <1>20 DEF OwnerEnds, BeginCancel, Stop, CancelGoes
<1>21. ASSUME NEW t \in Tasks, CancelWaited(t) PROVE StepsOK'
  BY <1>21 DEF CancelWaited, CancelGoes, RunReturned
<1>22. ASSUME NEW t \in Tasks, CancelReads(t) PROVE StepsOK'
  BY <1>22 DEF CancelReads, CancelGoes
<1>23. ASSUME NEW t \in Tasks, CancelCloses(t) PROVE StepsOK'
  BY <1>23 DEF CancelCloses, CancelGoes, Writes
<1>24. ASSUME NEW t \in Tasks, CancelFails(t) PROVE StepsOK'
  <2> DEFINE ss == [s \in Steps |-> IF steps[t][s] \in {"running", "cancelled"} THEN "failed"
                                    ELSE steps[t][s]]
  <2>1. steps' = [steps EXCEPT ![t] = ss] /\ status' = [status EXCEPT ![t] = FailedStatus(ss)]
    BY <1>24 DEF CancelFails, Writes
  <2>2. steps'[t] = ss /\ status'[t] = FailedStatus(ss)
    BY <2>1
  <2>3. \A s \in Steps : ss[s] # "running" /\ (ss[s] = "completed" <=> steps[t][s] = "completed")
    OBVIOUS
  <2> HIDE DEF ss
  <2>4. StepsFit(t)'
    BY <1>24, <2>2, <2>3 DEF CancelFails, FailedStatus
  <2>5. ASSUME NEW u \in Tasks, u # t PROVE StepsFit(u)'
    BY <1>24, <2>1, <2>5, StepsStay DEF CancelFails, Returns, CancelGoes
  <2>6. QED
    BY <2>4, <2>5
<1>25. ASSUME NEW t \in Tasks, CancelAnswers(t) PROVE StepsOK'
  BY <1>25 DEF CancelAnswers, Returns, CancelGoes
<1>26. ASSUME NEW t \in Tasks, HostEnds(t) PROVE StepsOK'
  BY <1>26 DEF HostEnds
<1>27. CASE ListTasks
  BY <1>27 DEF ListTasks, Advance, Orphans
<1>28. CASE Recovered
  BY <1>28, OrphanFails
<1>29. CASE Restart
  BY <1>29 DEF Restart
<1>30. CASE UNCHANGED vars
  BY <1>30
<1>31. QED
  BY <1>1, <1>2, <1>3, <1>4, <1>5, <1>6, <1>7, <1>8, <1>9, <1>10, <1>11, <1>12, <1>13,
     <1>14, <1>15, <1>16, <1>17, <1>18, <1>19, <1>20, <1>21, <1>22, <1>23, <1>24, <1>25,
     <1>26, <1>27, <1>28, <1>29, <1>30 DEF Next, RunStep, CancelStep

(* Every step keeps the recovery away from the tasks that run. *)
LEMMA RecoveryMoves ==
    ASSUME TypeOK, SessionOK, RecoveryOK, [Next]_vars
    PROVE  RecoveryOK'
<1> USE TasksAssumption DEF TypeOK, SessionOK, RecoveryOK, Awaits, InRun, Pre, Final,
       vars, recordVars, runVars, cancelVars, registryVars, recoveryVars
<1>1. ASSUME NEW t \in Tasks, Create(t) PROVE RecoveryOK'
  BY <1>1 DEF Create, Goes
<1>2. ASSUME NEW t \in Tasks, Saved(t) PROVE RecoveryOK'
  BY <1>2 DEF Saved, Writes, Goes
<1>3. ASSUME NEW t \in Tasks, Planned(t) PROVE RecoveryOK'
  BY <1>3 DEF Planned, Writes, Goes
<1>4. ASSUME NEW t \in Tasks, Confirmed(t) PROVE RecoveryOK'
  BY <1>4 DEF Confirmed, Conflicting, Goes
<1>5. ASSUME NEW t \in Tasks, Run(t) PROVE RecoveryOK'
  BY <1>5 DEF Run, Goes, Wanted
<1>6. ASSUME NEW t \in Tasks, Refused(t) PROVE RecoveryOK'
  BY <1>6 DEF Refused, Writes, Goes
<1>7. ASSUME NEW t \in Tasks, Dismissed(t) PROVE RecoveryOK'
  BY <1>7 DEF Dismissed, Writes, Goes
<1>8. ASSUME NEW t \in Tasks, Marked(t) PROVE RecoveryOK'
  BY <1>8 DEF Marked, Writes, Goes
<1>9. ASSUME NEW t \in Tasks, CheckStep(t) PROVE RecoveryOK'
  BY <1>9 DEF CheckStep, Goes, Wanted
<1>10. ASSUME NEW t \in Tasks, Begun(t) PROVE RecoveryOK'
  BY <1>10 DEF Begun, StepIs, StartsStep, Goes, Wanted
<1>11. ASSUME NEW t \in Tasks, Completed(t) PROVE RecoveryOK'
  BY <1>11 DEF Completed, StepIs, NextStep, Goes
<1>12. ASSUME NEW t \in Tasks, Failed(t) PROVE RecoveryOK'
  BY <1>12 DEF Failed, FailStep, FailedStatus, Writes, StepIs, Goes
<1>13. ASSUME NEW t \in Tasks, Stopped(t) PROVE RecoveryOK'
  BY <1>13 DEF Stopped, Writes, StepIs, Goes
<1>14. ASSUME NEW t \in Tasks, Finished(t) PROVE RecoveryOK'
  BY <1>14 DEF Finished, Writes, Goes, Unregister
<1>15. ASSUME NEW t \in Tasks, Caught(t) PROVE RecoveryOK'
  BY <1>15 DEF Caught, Goes, Unregister
<1>16. ASSUME NEW t \in Tasks, Answers(t) PROVE RecoveryOK'
  BY <1>16 DEF Answers, Goes, Catches, Wanted
<1>17. ASSUME NEW t \in Tasks, TimesOut(t) PROVE RecoveryOK'
  BY <1>17 DEF TimesOut, Stop
<1>18. ASSUME NEW t \in Tasks, StopAnswered(t) PROVE RecoveryOK'
  BY <1>18 DEF StopAnswered, Goes, StopRefused, Wanted
<1>19. ASSUME NEW t \in Tasks, Cancel(t) PROVE RecoveryOK'
  BY <1>19 DEF Cancel, BeginCancel, Stop, CancelGoes
<1>20. ASSUME NEW t \in Tasks, OwnerEnds(t) PROVE RecoveryOK'
  BY <1>20 DEF OwnerEnds, BeginCancel, Stop, CancelGoes
<1>21. ASSUME NEW t \in Tasks, CancelWaited(t) PROVE RecoveryOK'
  BY <1>21 DEF CancelWaited, CancelGoes, RunReturned
<1>22. ASSUME NEW t \in Tasks, CancelReads(t) PROVE RecoveryOK'
  BY <1>22 DEF CancelReads, CancelGoes
<1>23. ASSUME NEW t \in Tasks, CancelCloses(t) PROVE RecoveryOK'
  BY <1>23 DEF CancelCloses, CancelGoes, Writes
<1>24. ASSUME NEW t \in Tasks, CancelFails(t) PROVE RecoveryOK'
  BY <1>24 DEF CancelFails, Writes, FailedStatus, Returns, CancelGoes
<1>25. ASSUME NEW t \in Tasks, CancelAnswers(t) PROVE RecoveryOK'
  BY <1>25 DEF CancelAnswers, Returns, CancelGoes
<1>26. ASSUME NEW t \in Tasks, HostEnds(t) PROVE RecoveryOK'
  BY <1>26 DEF HostEnds
<1>27. CASE ListTasks
  BY <1>27 DEF ListTasks, Advance, Orphans
<1>28. CASE Recovered
  BY <1>28 DEF Recovered, Advance, Orphans, Writes, FailedStatus
<1>29. CASE Restart
  BY <1>29 DEF Restart
<1>30. CASE UNCHANGED vars
  BY <1>30
<1>31. QED
  BY <1>1, <1>2, <1>3, <1>4, <1>5, <1>6, <1>7, <1>8, <1>9, <1>10, <1>11, <1>12, <1>13,
     <1>14, <1>15, <1>16, <1>17, <1>18, <1>19, <1>20, <1>21, <1>22, <1>23, <1>24, <1>25,
     <1>26, <1>27, <1>28, <1>29, <1>30 DEF Next, RunStep, CancelStep

---------------------------------------------------------------------------
(* The invariant holds in every state of every behaviour. *)
THEOREM Invariance == Spec => []Inv
<1>1. Init => Inv
  BY TasksAssumption DEF Init, Inv, TypeOK, SessionOK, HostOK, RecoveryOK,
     StepsOK, StepsFit, Ordered, Untouched, Stepping, Statuses, Final, StepStatuses, Steps,
     Pending, Awaits, InRun, Pre, Asking
<1>2. Inv /\ [Next]_vars => Inv'
  BY TypeMoves, SessionMoves, HostMoves, RecoveryMoves, StepsMove DEF Inv
<1>3. QED
  BY <1>1, <1>2, PTL DEF Spec

(* Every variable keeps to its set (task-runner.js and                     *)
(* agent-task-registry.js, for any plan and any number of tasks).          *)
THEOREM TypesHold == Spec => []TypeOK
<1>1. Inv => TypeOK
  BY DEF Inv
<1>2. QED
  BY <1>1, Invariance, PTL

(* Two tasks of a session never run at the same time                       *)
(* (agent-task-registry.js:67), however they were cancelled or torn down.  *)
THEOREM SessionIsExclusive == Spec => []OneRunPerSession
<1>1. Inv => OneRunPerSession
  BY DEF Inv, SessionOK, OneRunPerSession
<1>2. QED
  BY <1>1, Invariance, PTL

(* A task whose record says cancelled has no command alive on the host     *)
(* (task-runner.js:481: a stop that failed is not a cancellation).         *)
THEOREM CancellationIsTrue == Spec => []CancelledHasStopped
<1>1. Inv => CancelledHasStopped
  BY DEF Inv, HostOK, CancelledHasStopped
<1>2. QED
  BY <1>1, Invariance, PTL

(* A record and its steps tell one story (task-runner.js:459-503,          *)
(* agent-task-registry.js:228), whichever of the three writers came last.  *)
THEOREM RecordsAgree == Spec => []StepsMatchStatus
<1>1. Inv => StepsMatchStatus
  <2>1. ASSUME NEW t \in Tasks, Inv, NEW done,
               done = {s \in Steps : steps[t][s] = "completed"}
        PROVE  /\ \A s \in done : \A r \in 1..s : r \in done
               /\ status[t] \in Final => \A s \in Steps : steps[t][s] # "running"
               /\ status[t] = "completed" => done = Steps
               /\ status[t] = "partially-completed" => done # {}
               /\ status[t] = "failed" => done = {}
    <3>1. StepsFit(t) /\ Steps = 1..StepCount /\ StepCount \in Nat
      BY <2>1, TasksAssumption DEF Inv, StepsOK, Steps
    <3>2. \A s \in done : \A r \in 1..s : r \in done
      BY <2>1, <3>1 DEF StepsFit, Ordered
    <3>3. QED
      BY <2>1, <3>1, <3>2 DEF StepsFit
  <2>2. QED
    BY <2>1 DEF StepsMatchStatus
<1>2. QED
  BY <1>1, Invariance, PTL

(* The recovery of orphans never patches a task that runs                  *)
(* (agent-task-registry.js:224), though it goes by an earlier list.        *)
THEOREM RecoveryIsSafe == Spec => []LiveTaskSpared
<1>1. Inv => LiveTaskSpared
  BY DEF Inv, RecoveryOK, LiveTaskSpared
<1>2. QED
  BY <1>1, Invariance, PTL

(* No step of a task starts once its cancellation was asked for            *)
(* (task-runner.js:461), in whichever await the run was.                   *)
THEOREM CancellationIsFinal == Spec => NoStepAfterCancel
<1>1. ASSUME NEW t \in Tasks, Begun(t) PROVE \A u \in aborted : u \in host' => u \in host
  BY <1>1 DEF Begun, StartsStep, Wanted
<1>2. ASSUME NEW t \in Tasks, RunStep(t), ~Begun(t) PROVE host' = host
  BY <1>2 DEF RunStep, Saved, Planned, Confirmed, Run, Refused, Dismissed, Marked, CheckStep,
     Completed, Failed, Stopped, Finished, Caught
<1>3. ASSUME NEW t \in Tasks,
             \/ Create(t) \/ TimesOut(t) \/ Cancel(t) \/ OwnerEnds(t) \/ CancelStep(t)
             \/ Answers(t) \/ StopAnswered(t) \/ HostEnds(t)
      PROVE  host' \subseteq host
  BY <1>3 DEF Create, Answers, TimesOut, StopAnswered, Cancel, OwnerEnds, CancelStep, HostEnds,
     CancelWaited, CancelReads, CancelCloses, CancelFails, CancelAnswers
<1>4. ASSUME ListTasks \/ Recovered \/ Restart PROVE host' = host
  BY <1>4 DEF ListTasks, Recovered, Restart
<1>5. [Next]_vars => [\A t \in aborted : t \in host' => t \in host]_vars
  <2>1. ASSUME NEW t \in Tasks, RunStep(t) PROVE \A u \in aborted : u \in host' => u \in host
    BY <1>1, <1>2, <2>1
  <2>2. ASSUME Next PROVE \A u \in aborted : u \in host' => u \in host
    BY <1>3, <1>4, <2>1, <2>2 DEF Next
  <2>3. QED
    BY <2>2
<1>6. QED
  BY <1>5, PTL DEF Spec, NoStepAfterCancel

==============================================================================
