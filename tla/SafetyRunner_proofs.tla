------------------------ MODULE SafetyRunner_proofs ------------------------
(***************************************************************************)
(* Proofs about SafetyRunner, for every set of operations, of cancel calls *)
(* and of endpoints and for every bound.                                   *)
(*                                                                         *)
(* The inductive invariant has six parts, each a section below:            *)
(*   Typed       the variables other than the two queues keep to their     *)
(*               sets;                                                     *)
(*   QueuesOK    the store's queues hold exactly the callers whose await   *)
(*               is an answer of the store, so a settled patch finds its   *)
(*               caller first in the record's queue;                       *)
(*   LockOK      a job between the endpoint check and its last step is     *)
(*               first in its endpoint's queue;                            *)
(*   RecoveryOK  what lets a job go on towards a change of the host is     *)
(*               evidence of a verified recovery point, carried from       *)
(*               await to await;                                           *)
(*   StartOK     the permission to start the command is held by one job    *)
(*               or by the terminal, and only while it was never started;  *)
(*   BoundOK     a job on its way to a rollback has checked the plan.      *)
(* Two more are kept only where cancels do not meet: FinalOK while no two  *)
(* of one operation overlap, LifeOK for an operation nobody cancels.       *)
(* A section has one lemma with a step for each action.                    *)
(***************************************************************************)
EXTENDS SafetyRunner, OperationStore_proofs, FiniteSetTheorems

---------------------------------------------------------------------------
(* Typed *)

(* TypeOK without the two queues, which Disciplined types *)
RecordTypeOK ==
    /\ state \in [Ops -> States]
    /\ kind \in [Ops -> Kinds]
    /\ plan \in [Ops -> {"none", "bound", "altered"}]
    /\ applied \subseteq Ops /\ external \subseteq Ops /\ revoked \subseteq Ops
    /\ receipt \in [Ops -> Codes]
JobTypeOK ==
    /\ call \in [Ops -> Calls] /\ pc \in [Ops -> Waits] /\ target \in [Ops -> Targets]
    /\ phase \in [Ops -> Phases] /\ code \in [Ops -> Codes]
    /\ seen \in [Ops -> {"none", "bound", "altered"}]
MemoryTypeOK ==
    /\ lockq \in [Endpoints -> Seq(Ops)]
    /\ flags \subseteq Ops /\ bound \subseteq Ops /\ asked \subseteq Ops
    /\ orphans \subseteq Ops
    /\ seq \in [Ops -> Nat]
    /\ cpc \in [Callers -> CancelWaits] /\ cop \in [Callers -> Ops]
    /\ ctarget \in [Callers -> {"rollback-available", "failed", "cancelled"}]
    /\ cseq \in [Callers -> Nat] /\ cerr \in [Callers -> BOOLEAN]
WorldTypeOK ==
    /\ host \in [Ops -> {"original", "changed", "restored"}]
    /\ starts \in [Ops -> Nat] /\ ready \subseteq Ops
    /\ pty \in [Ops -> {"none", "granted", "running", "zero", "nonzero"}]
    /\ rollbacks \in [Ops -> Nat] /\ crashes \in Nat /\ alters \in Nat
Typed == RecordTypeOK /\ JobTypeOK /\ MemoryTypeOK /\ WorldTypeOK

LEMMA ReleaseTyped ==
    ASSUME RunnerAssumption, lockq \in [Endpoints -> Seq(Ops)], NEW o \in Ops, Release(o)
    PROVE  lockq' \in [Endpoints -> Seq(Ops)]
<1>1. EndpointOf[o] \in Endpoints
  BY DEF RunnerAssumption
<1>2. \A q \in Seq(Ops) : q # << >> => Tail(q) \in Seq(Ops)
  OBVIOUS
<1> QED BY <1>1, <1>2 DEF Release, HoldsLock

LEMMA JoinTyped ==
    ASSUME RunnerAssumption, lockq \in [Endpoints -> Seq(Ops)], NEW o \in Ops, JoinEndpoint(o)
    PROVE  lockq' \in [Endpoints -> Seq(Ops)]
<1>1. EndpointOf[o] \in Endpoints
  BY DEF RunnerAssumption
<1>2. \A q \in Seq(Ops) : Append(q, o) \in Seq(Ops)
  OBVIOUS
<1> QED BY <1>1, <1>2 DEF JoinEndpoint

LEMMA RecordsTyped ==
    ASSUME RunnerAssumption, Typed, [Next]_vars
    PROVE  RecordTypeOK'
<1> USE DEF Typed, RecordTypeOK, JobTypeOK, States, Terminal, Cancellable,
           Kinds, Codes, Targets, GoTo, End, Throw, Invoke, JoinEndpoint,
           Written, WriteRecord, AfterPhase, PartlyRolledBack, StateOf,
           storeVars, recordVars, jobVars, memVars, cancelVars, hostVars,
           countVars
<1>1. ASSUME NEW o \in Ops, Prepare(o) PROVE RecordTypeOK'
  BY <1>1 DEF Prepare, RunnerAssumption
<1>2. ASSUME NEW o \in Ops, CallJob(o) PROVE RecordTypeOK'
  BY <1>2 DEF CallJob
<1>3. ASSUME NEW o \in Ops, CallRollback(o) PROVE RecordTypeOK'
  BY <1>3 DEF CallRollback
<1>4. ASSUME NEW o \in Ops, Complete(o) PROVE RecordTypeOK'
  BY <1>4 DEF Complete
<1>5. ASSUME NEW o \in Ops, Saved(o) PROVE RecordTypeOK'
  BY <1>5 DEF Saved
<1>6. ASSUME NEW o \in Ops, FirstRead(o) PROVE RecordTypeOK'
  BY <1>6 DEF FirstRead
<1>7. ASSUME NEW o \in Ops, LockGranted(o) PROVE RecordTypeOK'
  BY <1>7 DEF LockGranted
<1>8. ASSUME NEW o \in Ops, Reread(o) PROVE RecordTypeOK'
  BY <1>8 DEF Reread
<1>9. ASSUME NEW o \in Ops, EndpointChanged(o) PROVE RecordTypeOK'
  BY <1>9 DEF EndpointChanged
<1>10. ASSUME NEW o \in Ops, SameEndpointPrepare(o) PROVE RecordTypeOK'
  BY <1>10 DEF SameEndpointPrepare
<1>11. ASSUME NEW o \in Ops, SameEndpointChange(o) PROVE RecordTypeOK'
  BY <1>11 DEF SameEndpointChange
<1>12. ASSUME NEW o \in Ops, SameEndpointRollback(o) PROVE RecordTypeOK'
  BY <1>12 DEF SameEndpointRollback
<1>13. ASSUME NEW o \in Ops, SameEndpointComplete(o) PROVE RecordTypeOK'
  BY <1>13 DEF SameEndpointComplete
<1>14. ASSUME NEW o \in Ops, TransitionRead(o) PROVE RecordTypeOK'
  BY <1>14 DEF TransitionRead
<1>15. ASSUME NEW o \in Ops, PatchRead(o) PROVE RecordTypeOK'
  BY <1>15 DEF PatchRead
<1>16. ASSUME NEW o \in Ops, GuardedRead(o) PROVE RecordTypeOK'
  BY <1>16 DEF GuardedRead
<1>17. ASSUME NEW o \in Ops, WrittenRecoveryReady(o) PROVE RecordTypeOK'
  BY <1>17 DEF WrittenRecoveryReady
<1>18. ASSUME NEW o \in Ops, WrittenBusy(o) PROVE RecordTypeOK'
  BY <1>18 DEF WrittenBusy
<1>19. ASSUME NEW o \in Ops, WrittenVerified(o) PROVE RecordTypeOK'
  BY <1>19 DEF WrittenVerified
<1>20. ASSUME NEW o \in Ops, WrittenApplied(o) PROVE RecordTypeOK'
  BY <1>20 DEF WrittenApplied
<1>21. ASSUME NEW o \in Ops, WrittenLast(o) PROVE RecordTypeOK'
  BY <1>21 DEF WrittenLast
<1>22. ASSUME NEW o \in Ops, PostRead(o) PROVE RecordTypeOK'
  BY <1>22 DEF PostRead
<1>23. ASSUME NEW o \in Ops, RecoveryChecked(o) PROVE RecordTypeOK'
  BY <1>23 DEF RecoveryChecked, RollbackPhase
<1>24. ASSUME NEW o \in Ops, PhaseStarts(o) PROVE RecordTypeOK'
  BY <1>24 DEF PhaseStarts
<1>25. ASSUME NEW o \in Ops, PhasePasses(o) PROVE RecordTypeOK'
  BY <1>25 DEF PhasePasses
<1>26. ASSUME NEW o \in Ops, PhaseFails(o) PROVE RecordTypeOK'
  BY <1>26 DEF PhaseFails
<1>27. ASSUME NEW o \in Ops, Caught(o) PROVE RecordTypeOK'
  BY <1>27 DEF Caught
<1>28. ASSUME NEW o \in Ops, FailRead(o) PROVE RecordTypeOK'
  BY <1>28 DEF FailRead
<1>29. ASSUME NEW o \in Ops, IntegrityRead(o) PROVE RecordTypeOK'
  BY <1>29 DEF IntegrityRead
<1>30. ASSUME NEW o \in Ops, PtySubmit(o) PROVE RecordTypeOK'
  BY <1>30 DEF PtySubmit
<1>31. ASSUME NEW o \in Ops, PtyEnds(o) PROVE RecordTypeOK'
  BY <1>31 DEF PtyEnds
<1>32. ASSUME NEW o \in Ops, Alter(o) PROVE RecordTypeOK'
  BY <1>32 DEF Alter
<1>33. ASSUME NEW o \in Ops, RecoverOrphan(o) PROVE RecordTypeOK'
  BY <1>33 DEF RecoverOrphan
<1>34. ASSUME NEW c \in Callers, CancelRemote(c) PROVE RecordTypeOK'
  BY <1>34 DEF CancelRemote
<1>35. ASSUME NEW c \in Callers, CancelRead(c) PROVE RecordTypeOK'
  BY <1>35 DEF CancelRead, FlagCleared
<1>36. ASSUME NEW c \in Callers, CancelState(c) PROVE RecordTypeOK'
  BY <1>36 DEF CancelState, CancelOutcome
<1>37. ASSUME NEW c \in Callers, CancelPatchRead(c) PROVE RecordTypeOK'
  BY <1>37 DEF CancelPatchRead
<1>38. ASSUME NEW c \in Callers, CancelWritten(c) PROVE RecordTypeOK'
  <2>1. ctarget[c] \in States /\ cop[c] \in Ops
    BY DEF MemoryTypeOK
  <2> QED BY <1>38, <2>1 DEF CancelWritten
<1>39. ASSUME NEW c \in Callers, NEW o \in Ops, Cancel(c, o) PROVE RecordTypeOK'
  BY <1>39 DEF Cancel
<1>40. CASE Crash
  BY <1>40 DEF Crash
<1>41. CASE UNCHANGED vars
  BY <1>41 DEF vars
<1> QED BY <1>1, <1>2, <1>3, <1>4, <1>5, <1>6, <1>7, <1>8, <1>9, <1>10, <1>11,
           <1>12, <1>13, <1>14, <1>15, <1>16, <1>17, <1>18, <1>19, <1>20,
           <1>21, <1>22, <1>23, <1>24, <1>25, <1>26, <1>27, <1>28, <1>29,
           <1>30, <1>31, <1>32, <1>33, <1>34, <1>35, <1>36, <1>37, <1>38,
           <1>39, <1>40, <1>41 DEF Next, UserStep, JobStep, CancelStep,
           WorldStep

LEMMA JobsTyped ==
    ASSUME RunnerAssumption, Typed, [Next]_vars
    PROVE  JobTypeOK'
<1> USE DEF Typed, JobTypeOK, RecordTypeOK, WorldTypeOK, Calls, Phases, Codes,
           Targets, Waits, States, Terminal, Cancellable, GoTo, End, Throw,
           Invoke, JoinEndpoint, Written, WriteRecord, AfterPhase,
           PartlyRolledBack, StateOf, storeVars, recordVars, jobVars, memVars,
           cancelVars, hostVars, countVars
<1>1. ASSUME NEW o \in Ops, Prepare(o) PROVE JobTypeOK'
  BY <1>1 DEF Prepare
<1>2. ASSUME NEW o \in Ops, CallJob(o) PROVE JobTypeOK'
  BY <1>2 DEF CallJob
<1>3. ASSUME NEW o \in Ops, CallRollback(o) PROVE JobTypeOK'
  BY <1>3 DEF CallRollback
<1>4. ASSUME NEW o \in Ops, Complete(o) PROVE JobTypeOK'
  BY <1>4 DEF Complete
<1>5. ASSUME NEW o \in Ops, Saved(o) PROVE JobTypeOK'
  <2>1. \E p \in {"catch", "lock"} : pc' = [pc EXCEPT ![o] = p]
    BY <1>5 DEF Saved
  <2>2. target' = target
    BY <1>5 DEF Saved
  <2>3. UNCHANGED <<call, phase, code, seen>>
    BY <1>5 DEF Saved
  <2> QED BY <2>1, <2>2, <2>3
<1>6. ASSUME NEW o \in Ops, FirstRead(o) PROVE JobTypeOK'
  <2>1. \E p \in {"idle", "lock", "tget", "patch"} : pc' = [pc EXCEPT ![o] = p]
    BY <1>6 DEF FirstRead
  <2>2. \E t \in {target[o], "kept", "revoked"} : target' = [target EXCEPT ![o] = t]
    BY <1>6 DEF FirstRead
  <2>3. UNCHANGED <<call, phase, code, seen>>
    BY <1>6 DEF FirstRead
  <2> QED BY <2>1, <2>2, <2>3
<1>7. ASSUME NEW o \in Ops, LockGranted(o) PROVE JobTypeOK'
  BY <1>7 DEF LockGranted
<1>8. ASSUME NEW o \in Ops, Reread(o) PROVE JobTypeOK'
  BY <1>8 DEF Reread
<1>9. ASSUME NEW o \in Ops, EndpointChanged(o) PROVE JobTypeOK'
  BY <1>9 DEF EndpointChanged
<1>10. ASSUME NEW o \in Ops, SameEndpointPrepare(o) PROVE JobTypeOK'
  BY <1>10 DEF SameEndpointPrepare
<1>11. ASSUME NEW o \in Ops, SameEndpointChange(o) PROVE JobTypeOK'
  BY <1>11 DEF SameEndpointChange
<1>12. ASSUME NEW o \in Ops, SameEndpointRollback(o) PROVE JobTypeOK'
  BY <1>12 DEF SameEndpointRollback
<1>13. ASSUME NEW o \in Ops, SameEndpointComplete(o) PROVE JobTypeOK'
  BY <1>13 DEF SameEndpointComplete
<1>14. ASSUME NEW o \in Ops, TransitionRead(o) PROVE JobTypeOK'
  BY <1>14 DEF TransitionRead
<1>15. ASSUME NEW o \in Ops, PatchRead(o) PROVE JobTypeOK'
  BY <1>15 DEF PatchRead
<1>16. ASSUME NEW o \in Ops, GuardedRead(o) PROVE JobTypeOK'
  <2>1. \E p \in {"idle", "iget", "write"} : pc' = [pc EXCEPT ![o] = p]
    BY <1>16 DEF GuardedRead
  <2>2. target' = target
    BY <1>16 DEF GuardedRead
  <2>3. UNCHANGED <<call, phase, code, seen>>
    BY <1>16 DEF GuardedRead
  <2> QED BY <2>1, <2>2, <2>3
<1>17. ASSUME NEW o \in Ops, WrittenRecoveryReady(o) PROVE JobTypeOK'
  BY <1>17 DEF WrittenRecoveryReady
<1>18. ASSUME NEW o \in Ops, WrittenBusy(o) PROVE JobTypeOK'
  BY <1>18 DEF WrittenBusy
<1>19. ASSUME NEW o \in Ops, WrittenVerified(o) PROVE JobTypeOK'
  BY <1>19 DEF WrittenVerified
<1>20. ASSUME NEW o \in Ops, WrittenApplied(o) PROVE JobTypeOK'
  BY <1>20 DEF WrittenApplied
<1>21. ASSUME NEW o \in Ops, WrittenLast(o) PROVE JobTypeOK'
  BY <1>21 DEF WrittenLast
<1>22. ASSUME NEW o \in Ops, PostRead(o) PROVE JobTypeOK'
  BY <1>22 DEF PostRead
<1>23. ASSUME NEW o \in Ops, RecoveryChecked(o) PROVE JobTypeOK'
  BY <1>23 DEF RecoveryChecked, RollbackPhase
<1>24. ASSUME NEW o \in Ops, PhaseStarts(o) PROVE JobTypeOK'
  BY <1>24 DEF PhaseStarts
<1>25. ASSUME NEW o \in Ops, PhasePasses(o) PROVE JobTypeOK'
  BY <1>25 DEF PhasePasses
<1>26. ASSUME NEW o \in Ops, PhaseFails(o) PROVE JobTypeOK'
  BY <1>26 DEF PhaseFails
<1>27. ASSUME NEW o \in Ops, Caught(o) PROVE JobTypeOK'
  BY <1>27 DEF Caught
<1>28. ASSUME NEW o \in Ops, FailRead(o) PROVE JobTypeOK'
  BY <1>28 DEF FailRead
<1>29. ASSUME NEW o \in Ops, IntegrityRead(o) PROVE JobTypeOK'
  BY <1>29 DEF IntegrityRead
<1>30. ASSUME NEW o \in Ops, PtySubmit(o) PROVE JobTypeOK'
  BY <1>30 DEF PtySubmit
<1>31. ASSUME NEW o \in Ops, PtyEnds(o) PROVE JobTypeOK'
  BY <1>31 DEF PtyEnds
<1>32. ASSUME NEW o \in Ops, Alter(o) PROVE JobTypeOK'
  BY <1>32 DEF Alter
<1>33. ASSUME NEW o \in Ops, RecoverOrphan(o) PROVE JobTypeOK'
  BY <1>33 DEF RecoverOrphan
<1>34. ASSUME NEW c \in Callers, CancelRemote(c) PROVE JobTypeOK'
  BY <1>34 DEF CancelRemote
<1>35. ASSUME NEW c \in Callers, CancelRead(c) PROVE JobTypeOK'
  BY <1>35 DEF CancelRead, FlagCleared
<1>36. ASSUME NEW c \in Callers, CancelState(c) PROVE JobTypeOK'
  BY <1>36 DEF CancelState, CancelOutcome
<1>37. ASSUME NEW c \in Callers, CancelPatchRead(c) PROVE JobTypeOK'
  BY <1>37 DEF CancelPatchRead
<1>38. ASSUME NEW c \in Callers, CancelWritten(c) PROVE JobTypeOK'
  BY <1>38 DEF CancelWritten, FlagCleared
<1>39. ASSUME NEW c \in Callers, NEW o \in Ops, Cancel(c, o) PROVE JobTypeOK'
  BY <1>39 DEF Cancel
<1>40. CASE Crash
  BY <1>40 DEF Crash
<1>41. CASE UNCHANGED vars
  BY <1>41 DEF vars
<1> QED BY <1>1, <1>2, <1>3, <1>4, <1>5, <1>6, <1>7, <1>8, <1>9, <1>10, <1>11,
           <1>12, <1>13, <1>14, <1>15, <1>16, <1>17, <1>18, <1>19, <1>20,
           <1>21, <1>22, <1>23, <1>24, <1>25, <1>26, <1>27, <1>28, <1>29,
           <1>30, <1>31, <1>32, <1>33, <1>34, <1>35, <1>36, <1>37, <1>38,
           <1>39, <1>40, <1>41 DEF Next, UserStep, JobStep, CancelStep,
           WorldStep

LEMMA MemoryTyped ==
    ASSUME RunnerAssumption, Typed, [Next]_vars
    PROVE  MemoryTypeOK'
<1> USE DEF Typed, MemoryTypeOK, JobTypeOK, CancelWaits, GoTo, End, Throw,
           Invoke, Written, WriteRecord, AfterPhase, PartlyRolledBack,
           StateOf, storeVars, recordVars, jobVars, memVars, cancelVars,
           hostVars, countVars
<1>1. ASSUME NEW o \in Ops, Prepare(o) PROVE MemoryTypeOK'
  BY <1>1, ReleaseTyped, JoinTyped DEF Prepare
<1>2. ASSUME NEW o \in Ops, CallJob(o) PROVE MemoryTypeOK'
  BY <1>2, ReleaseTyped, JoinTyped DEF CallJob
<1>3. ASSUME NEW o \in Ops, CallRollback(o) PROVE MemoryTypeOK'
  BY <1>3, ReleaseTyped, JoinTyped DEF CallRollback
<1>4. ASSUME NEW o \in Ops, Complete(o) PROVE MemoryTypeOK'
  BY <1>4, ReleaseTyped, JoinTyped DEF Complete
<1>5. ASSUME NEW o \in Ops, Saved(o) PROVE MemoryTypeOK'
  BY <1>5, ReleaseTyped, JoinTyped DEF Saved, JoinEndpoint
<1>6. ASSUME NEW o \in Ops, FirstRead(o) PROVE MemoryTypeOK'
  BY <1>6, ReleaseTyped, JoinTyped DEF FirstRead, JoinEndpoint
<1>7. ASSUME NEW o \in Ops, LockGranted(o) PROVE MemoryTypeOK'
  BY <1>7, ReleaseTyped, JoinTyped DEF LockGranted
<1>8. ASSUME NEW o \in Ops, Reread(o) PROVE MemoryTypeOK'
  BY <1>8, ReleaseTyped, JoinTyped DEF Reread
<1>9. ASSUME NEW o \in Ops, EndpointChanged(o) PROVE MemoryTypeOK'
  BY <1>9, ReleaseTyped, JoinTyped DEF EndpointChanged
<1>10. ASSUME NEW o \in Ops, SameEndpointPrepare(o) PROVE MemoryTypeOK'
  BY <1>10, ReleaseTyped, JoinTyped DEF SameEndpointPrepare
<1>11. ASSUME NEW o \in Ops, SameEndpointChange(o) PROVE MemoryTypeOK'
  BY <1>11, ReleaseTyped, JoinTyped DEF SameEndpointChange
<1>12. ASSUME NEW o \in Ops, SameEndpointRollback(o) PROVE MemoryTypeOK'
  BY <1>12, ReleaseTyped, JoinTyped DEF SameEndpointRollback
<1>13. ASSUME NEW o \in Ops, SameEndpointComplete(o) PROVE MemoryTypeOK'
  BY <1>13, ReleaseTyped, JoinTyped DEF SameEndpointComplete
<1>14. ASSUME NEW o \in Ops, TransitionRead(o) PROVE MemoryTypeOK'
  BY <1>14, ReleaseTyped, JoinTyped DEF TransitionRead
<1>15. ASSUME NEW o \in Ops, PatchRead(o) PROVE MemoryTypeOK'
  BY <1>15, ReleaseTyped, JoinTyped DEF PatchRead
<1>16. ASSUME NEW o \in Ops, GuardedRead(o) PROVE MemoryTypeOK'
  BY <1>16, ReleaseTyped, JoinTyped DEF GuardedRead
<1>17. ASSUME NEW o \in Ops, WrittenRecoveryReady(o) PROVE MemoryTypeOK'
  BY <1>17, ReleaseTyped, JoinTyped DEF WrittenRecoveryReady
<1>18. ASSUME NEW o \in Ops, WrittenBusy(o) PROVE MemoryTypeOK'
  BY <1>18, ReleaseTyped, JoinTyped DEF WrittenBusy
<1>19. ASSUME NEW o \in Ops, WrittenVerified(o) PROVE MemoryTypeOK'
  BY <1>19, ReleaseTyped, JoinTyped DEF WrittenVerified
<1>20. ASSUME NEW o \in Ops, WrittenApplied(o) PROVE MemoryTypeOK'
  BY <1>20, ReleaseTyped, JoinTyped DEF WrittenApplied
<1>21. ASSUME NEW o \in Ops, WrittenLast(o) PROVE MemoryTypeOK'
  BY <1>21, ReleaseTyped, JoinTyped DEF WrittenLast
<1>22. ASSUME NEW o \in Ops, PostRead(o) PROVE MemoryTypeOK'
  BY <1>22, ReleaseTyped, JoinTyped DEF PostRead
<1>23. ASSUME NEW o \in Ops, RecoveryChecked(o) PROVE MemoryTypeOK'
  BY <1>23, ReleaseTyped, JoinTyped DEF RecoveryChecked, RollbackPhase
<1>24. ASSUME NEW o \in Ops, PhaseStarts(o) PROVE MemoryTypeOK'
  <2>1. lockq' \in [Endpoints -> Seq(Ops)]
    BY <1>24, ReleaseTyped DEF PhaseStarts
  <2>2. seq' \in [Ops -> Nat] /\ asked' \subseteq Ops
    BY <1>24 DEF PhaseStarts
  <2> QED BY <1>24, <2>1, <2>2 DEF PhaseStarts
<1>25. ASSUME NEW o \in Ops, PhasePasses(o) PROVE MemoryTypeOK'
  BY <1>25, ReleaseTyped, JoinTyped DEF PhasePasses
<1>26. ASSUME NEW o \in Ops, PhaseFails(o) PROVE MemoryTypeOK'
  BY <1>26, ReleaseTyped, JoinTyped DEF PhaseFails
<1>27. ASSUME NEW o \in Ops, Caught(o) PROVE MemoryTypeOK'
  BY <1>27, ReleaseTyped, JoinTyped DEF Caught
<1>28. ASSUME NEW o \in Ops, FailRead(o) PROVE MemoryTypeOK'
  BY <1>28, ReleaseTyped, JoinTyped DEF FailRead
<1>29. ASSUME NEW o \in Ops, IntegrityRead(o) PROVE MemoryTypeOK'
  BY <1>29, ReleaseTyped, JoinTyped DEF IntegrityRead
<1>30. ASSUME NEW o \in Ops, PtySubmit(o) PROVE MemoryTypeOK'
  BY <1>30, ReleaseTyped, JoinTyped DEF PtySubmit
<1>31. ASSUME NEW o \in Ops, PtyEnds(o) PROVE MemoryTypeOK'
  BY <1>31, ReleaseTyped, JoinTyped DEF PtyEnds
<1>32. ASSUME NEW o \in Ops, Alter(o) PROVE MemoryTypeOK'
  BY <1>32, ReleaseTyped, JoinTyped DEF Alter
<1>33. ASSUME NEW o \in Ops, RecoverOrphan(o) PROVE MemoryTypeOK'
  BY <1>33, ReleaseTyped, JoinTyped DEF RecoverOrphan
<1>34. ASSUME NEW c \in Callers, CancelRemote(c) PROVE MemoryTypeOK'
  BY <1>34, ReleaseTyped, JoinTyped DEF CancelRemote
<1>35. ASSUME NEW c \in Callers, CancelRead(c) PROVE MemoryTypeOK'
  BY <1>35, ReleaseTyped, JoinTyped DEF CancelRead, FlagCleared
<1>36. ASSUME NEW c \in Callers, CancelState(c) PROVE MemoryTypeOK'
  BY <1>36, ReleaseTyped, JoinTyped DEF CancelState, CancelOutcome
<1>37. ASSUME NEW c \in Callers, CancelPatchRead(c) PROVE MemoryTypeOK'
  BY <1>37, ReleaseTyped, JoinTyped DEF CancelPatchRead
<1>38. ASSUME NEW c \in Callers, CancelWritten(c) PROVE MemoryTypeOK'
  BY <1>38, ReleaseTyped, JoinTyped DEF CancelWritten, FlagCleared
<1>39. ASSUME NEW c \in Callers, NEW o \in Ops, Cancel(c, o) PROVE MemoryTypeOK'
  <2>1. cpc' \in [Callers -> CancelWaits] /\ cop' \in [Callers -> Ops]
    BY <1>39 DEF Cancel
  <2>2. cseq' = cseq \/ cseq' = [cseq EXCEPT ![c] = seq[o]]
    BY <1>39 DEF Cancel
  <2>3. cseq' \in [Callers -> Nat]
    BY <2>2
  <2> QED BY <1>39, <2>1, <2>3 DEF Cancel
<1>40. CASE Crash
  BY <1>40 DEF Crash
<1>41. CASE UNCHANGED vars
  BY <1>41 DEF vars
<1> QED BY <1>1, <1>2, <1>3, <1>4, <1>5, <1>6, <1>7, <1>8, <1>9, <1>10, <1>11,
           <1>12, <1>13, <1>14, <1>15, <1>16, <1>17, <1>18, <1>19, <1>20,
           <1>21, <1>22, <1>23, <1>24, <1>25, <1>26, <1>27, <1>28, <1>29,
           <1>30, <1>31, <1>32, <1>33, <1>34, <1>35, <1>36, <1>37, <1>38,
           <1>39, <1>40, <1>41 DEF Next, UserStep, JobStep, CancelStep,
           WorldStep

LEMMA WorldTyped ==
    ASSUME RunnerAssumption, Typed, [Next]_vars
    PROVE  WorldTypeOK'
<1> USE DEF Typed, WorldTypeOK, GoTo, End, Throw, Invoke, JoinEndpoint,
           Written, WriteRecord, AfterPhase, PartlyRolledBack, StateOf,
           storeVars, recordVars, jobVars, memVars, cancelVars, hostVars,
           countVars
<1>1. ASSUME NEW o \in Ops, Prepare(o) PROVE WorldTypeOK'
  BY <1>1 DEF Prepare
<1>2. ASSUME NEW o \in Ops, CallJob(o) PROVE WorldTypeOK'
  BY <1>2 DEF CallJob
<1>3. ASSUME NEW o \in Ops, CallRollback(o) PROVE WorldTypeOK'
  BY <1>3 DEF CallRollback
<1>4. ASSUME NEW o \in Ops, Complete(o) PROVE WorldTypeOK'
  BY <1>4 DEF Complete
<1>5. ASSUME NEW o \in Ops, Saved(o) PROVE WorldTypeOK'
  BY <1>5 DEF Saved
<1>6. ASSUME NEW o \in Ops, FirstRead(o) PROVE WorldTypeOK'
  BY <1>6 DEF FirstRead
<1>7. ASSUME NEW o \in Ops, LockGranted(o) PROVE WorldTypeOK'
  BY <1>7 DEF LockGranted
<1>8. ASSUME NEW o \in Ops, Reread(o) PROVE WorldTypeOK'
  BY <1>8 DEF Reread
<1>9. ASSUME NEW o \in Ops, EndpointChanged(o) PROVE WorldTypeOK'
  BY <1>9 DEF EndpointChanged
<1>10. ASSUME NEW o \in Ops, SameEndpointPrepare(o) PROVE WorldTypeOK'
  BY <1>10 DEF SameEndpointPrepare
<1>11. ASSUME NEW o \in Ops, SameEndpointChange(o) PROVE WorldTypeOK'
  BY <1>11 DEF SameEndpointChange
<1>12. ASSUME NEW o \in Ops, SameEndpointRollback(o) PROVE WorldTypeOK'
  BY <1>12 DEF SameEndpointRollback
<1>13. ASSUME NEW o \in Ops, SameEndpointComplete(o) PROVE WorldTypeOK'
  BY <1>13 DEF SameEndpointComplete
<1>14. ASSUME NEW o \in Ops, TransitionRead(o) PROVE WorldTypeOK'
  BY <1>14 DEF TransitionRead
<1>15. ASSUME NEW o \in Ops, PatchRead(o) PROVE WorldTypeOK'
  BY <1>15 DEF PatchRead
<1>16. ASSUME NEW o \in Ops, GuardedRead(o) PROVE WorldTypeOK'
  BY <1>16 DEF GuardedRead
<1>17. ASSUME NEW o \in Ops, WrittenRecoveryReady(o) PROVE WorldTypeOK'
  BY <1>17 DEF WrittenRecoveryReady
<1>18. ASSUME NEW o \in Ops, WrittenBusy(o) PROVE WorldTypeOK'
  BY <1>18 DEF WrittenBusy
<1>19. ASSUME NEW o \in Ops, WrittenVerified(o) PROVE WorldTypeOK'
  BY <1>19 DEF WrittenVerified
<1>20. ASSUME NEW o \in Ops, WrittenApplied(o) PROVE WorldTypeOK'
  BY <1>20 DEF WrittenApplied
<1>21. ASSUME NEW o \in Ops, WrittenLast(o) PROVE WorldTypeOK'
  BY <1>21 DEF WrittenLast
<1>22. ASSUME NEW o \in Ops, PostRead(o) PROVE WorldTypeOK'
  BY <1>22 DEF PostRead
<1>23. ASSUME NEW o \in Ops, RecoveryChecked(o) PROVE WorldTypeOK'
  BY <1>23 DEF RecoveryChecked, RollbackPhase
<1>24. ASSUME NEW o \in Ops, PhaseStarts(o) PROVE WorldTypeOK'
  BY <1>24 DEF PhaseStarts
<1>25. ASSUME NEW o \in Ops, PhasePasses(o) PROVE WorldTypeOK'
  BY <1>25 DEF PhasePasses
<1>26. ASSUME NEW o \in Ops, PhaseFails(o) PROVE WorldTypeOK'
  BY <1>26 DEF PhaseFails
<1>27. ASSUME NEW o \in Ops, Caught(o) PROVE WorldTypeOK'
  BY <1>27 DEF Caught
<1>28. ASSUME NEW o \in Ops, FailRead(o) PROVE WorldTypeOK'
  BY <1>28 DEF FailRead
<1>29. ASSUME NEW o \in Ops, IntegrityRead(o) PROVE WorldTypeOK'
  BY <1>29 DEF IntegrityRead
<1>30. ASSUME NEW o \in Ops, PtySubmit(o) PROVE WorldTypeOK'
  BY <1>30 DEF PtySubmit
<1>31. ASSUME NEW o \in Ops, PtyEnds(o) PROVE WorldTypeOK'
  BY <1>31 DEF PtyEnds
<1>32. ASSUME NEW o \in Ops, Alter(o) PROVE WorldTypeOK'
  BY <1>32 DEF Alter
<1>33. ASSUME NEW o \in Ops, RecoverOrphan(o) PROVE WorldTypeOK'
  BY <1>33 DEF RecoverOrphan
<1>34. ASSUME NEW c \in Callers, CancelRemote(c) PROVE WorldTypeOK'
  BY <1>34 DEF CancelRemote
<1>35. ASSUME NEW c \in Callers, CancelRead(c) PROVE WorldTypeOK'
  BY <1>35 DEF CancelRead, FlagCleared
<1>36. ASSUME NEW c \in Callers, CancelState(c) PROVE WorldTypeOK'
  BY <1>36 DEF CancelState, CancelOutcome
<1>37. ASSUME NEW c \in Callers, CancelPatchRead(c) PROVE WorldTypeOK'
  BY <1>37 DEF CancelPatchRead
<1>38. ASSUME NEW c \in Callers, CancelWritten(c) PROVE WorldTypeOK'
  BY <1>38 DEF CancelWritten, FlagCleared
<1>39. ASSUME NEW c \in Callers, NEW o \in Ops, Cancel(c, o) PROVE WorldTypeOK'
  BY <1>39 DEF Cancel
<1>40. CASE Crash
  BY <1>40 DEF Crash
<1>41. CASE UNCHANGED vars
  BY <1>41 DEF vars
<1> QED BY <1>1, <1>2, <1>3, <1>4, <1>5, <1>6, <1>7, <1>8, <1>9, <1>10, <1>11,
           <1>12, <1>13, <1>14, <1>15, <1>16, <1>17, <1>18, <1>19, <1>20,
           <1>21, <1>22, <1>23, <1>24, <1>25, <1>26, <1>27, <1>28, <1>29,
           <1>30, <1>31, <1>32, <1>33, <1>34, <1>35, <1>36, <1>37, <1>38,
           <1>39, <1>40, <1>41 DEF Next, UserStep, JobStep, CancelStep,
           WorldStep

---------------------------------------------------------------------------
(* QueuesOK *)

(* what an await is to the store: none of its business, a request, or a    *)
(* patch, before or after its read                                         *)
JobRole(p) ==
    CASE p \in {"patch", "gread"} -> "patches"
      [] p = "write" -> "writes"
      [] p \in {"idle", "lock", "endpoint", "check", "remote"} -> "out"
      [] OTHER -> "asks"
CancelRole(p) ==
    CASE p = "patch" -> "patches"
      [] p = "write" -> "writes"
      [] p \in {"idle", "kill"} -> "out"
      [] OTHER -> "asks"
Role == [a \in Actors |-> IF a \in Ops THEN JobRole(pc[a]) ELSE CancelRole(cpc[a])]
Of == [a \in Actors |-> IF a \in Ops THEN a ELSE cop[a]]

QueuesOK == Disciplined(Role, Of, dbq, patchq)


LEMMA JobRoles ==
    /\ \A p \in {"idle", "lock", "endpoint", "check", "remote"} : p \in Waits /\ JobRole(p) = "out"
    /\ \A p \in {"save", "first", "get", "tget", "postget", "markget", "iget", "catch",
                 "refused", "failget"} : p \in Waits /\ JobRole(p) = "asks"
    /\ \A p \in {"patch", "gread"} : p \in Waits /\ JobRole(p) = "patches"
    /\ "write" \in Waits /\ JobRole("write") = "writes"
BY DEF Waits, JobRole

LEMMA JobMoves ==
    ASSUME CallersAssumption, JobTypeOK, MemoryTypeOK, NEW o \in Ops, NEW p \in Waits,
           GoTo(o, p), UNCHANGED <<cpc, cop>>
    PROVE  /\ Role' = [Role EXCEPT ![o] = JobRole(p)] /\ Of' = Of
           /\ Role[o] = JobRole(pc[o]) /\ Of[o] = o /\ o \in Actors
<1>1. o \in Actors
  BY DEF Actors
<1>2. Role[o] = JobRole(pc[o]) /\ Of[o] = o
  BY <1>1 DEF Role, Of
<1>3. Of' = Of
  BY DEF Of, Actors
<1>4. ASSUME NEW a \in Actors PROVE Role'[a] = [Role EXCEPT ![o] = JobRole(p)][a]
  <2>1. CASE a = o
    <3>1. pc'[o] = p
      BY DEF GoTo, JobTypeOK
    <3> QED BY <1>1, <2>1, <3>1 DEF Role
  <2>2. CASE a \in Ops /\ a # o
    <3>1. pc'[a] = pc[a]
      BY <2>2 DEF GoTo, JobTypeOK
    <3> QED BY <1>1, <2>2, <3>1 DEF Role
  <2>3. CASE a \notin Ops
    BY <1>1, <2>3 DEF Role
  <2> QED BY <2>1, <2>2, <2>3
<1>5. Role' = [Role EXCEPT ![o] = JobRole(p)]
  BY <1>4 DEF Role
<1> QED BY <1>1, <1>2, <1>3, <1>5

LEMMA JobStays ==
    ASSUME CallersAssumption, JobTypeOK, MemoryTypeOK, QueuesOK, NEW o \in Ops, NEW p \in Waits,
           GoTo(o, p), UNCHANGED <<cpc, cop, dbq, patchq>>, JobRole(pc[o]) = "out", JobRole(p) = "out"
    PROVE  QueuesOK'
<1>1. Role' = Role
  <2>1. Role' = [Role EXCEPT ![o] = "out"] /\ Role[o] = "out"
    BY JobMoves
  <2> QED BY <2>1 DEF QueuesOK, Disciplined
<1> QED BY <1>1, JobMoves DEF QueuesOK

LEMMA JobAsks ==
    ASSUME CallersAssumption, JobTypeOK, MemoryTypeOK, QueuesOK, NEW o \in Ops, NEW p \in Waits,
           GoTo(o, p), UNCHANGED <<cpc, cop>>, Ask(o), UNCHANGED patchq,
           JobRole(pc[o]) = "out", JobRole(p) = "asks"
    PROVE  QueuesOK'
<1>1. /\ Role' = [Role EXCEPT ![o] = "asks"] /\ Of' = Of
      /\ Role[o] = JobRole(pc[o]) /\ Of[o] = o /\ o \in Actors
  BY JobMoves
<1> QED BY <1>1, MoveAsk DEF QueuesOK, Ask

LEMMA JobLeaves ==
    ASSUME CallersAssumption, JobTypeOK, MemoryTypeOK, QueuesOK, NEW o \in Ops, NEW p \in Waits,
           GoTo(o, p), UNCHANGED <<cpc, cop>>, Answered(o), AskNoMore, UNCHANGED patchq,
           JobRole(pc[o]) = "asks", JobRole(p) = "out"
    PROVE  QueuesOK'
<1>1. /\ Role' = [Role EXCEPT ![o] = "out"] /\ Of' = Of
      /\ Role[o] = JobRole(pc[o]) /\ Of[o] = o /\ o \in Actors
  BY JobMoves
<1> QED BY <1>1, MoveAskNoMore DEF QueuesOK, Answered, AskNoMore

LEMMA JobWrites ==
    ASSUME CallersAssumption, JobTypeOK, MemoryTypeOK, QueuesOK, NEW o \in Ops, NEW p \in Waits,
           GoTo(o, p), UNCHANGED <<cpc, cop>>, Answered(o), AskAgain(o), UNCHANGED patchq,
           JobRole(pc[o]) = "patches", JobRole(p) = "writes"
    PROVE  QueuesOK'
<1>1. /\ Role' = [Role EXCEPT ![o] = "writes"] /\ Of' = Of
      /\ Role[o] = JobRole(pc[o]) /\ Of[o] = o /\ o \in Actors
  BY JobMoves
<1> QED BY <1>1, MoveWrite DEF QueuesOK, Answered, AskAgain, Patchers

LEMMA JobQueues ==
    ASSUME CallersAssumption, JobTypeOK, MemoryTypeOK, QueuesOK, NEW o \in Ops, NEW p \in Waits,
           GoTo(o, p), UNCHANGED <<cpc, cop>>, Answered(o), EnqueuePatch(o, o),
           JobRole(pc[o]) = "asks", JobRole(p) = "patches"
    PROVE  QueuesOK'
<1>1. /\ Role' = [Role EXCEPT ![o] = "patches"] /\ Of' = Of
      /\ Role[o] = JobRole(pc[o]) /\ Of[o] = o /\ o \in Actors
  BY JobMoves
<1> QED BY <1>1, MoveEnqueuePatch DEF QueuesOK, Answered, EnqueuePatch

LEMMA JobStarts ==
    ASSUME CallersAssumption, JobTypeOK, MemoryTypeOK, QueuesOK, NEW o \in Ops, NEW p \in Waits,
           GoTo(o, p), UNCHANGED <<cpc, cop>>, StartPatch(o, o),
           JobRole(pc[o]) = "out", JobRole(p) = "patches"
    PROVE  QueuesOK'
<1>1. /\ Role' = [Role EXCEPT ![o] = "patches"] /\ Of' = Of
      /\ Role[o] = JobRole(pc[o]) /\ Of[o] = o /\ o \in Actors
  BY JobMoves
<1> QED BY <1>1, MoveStartPatch DEF QueuesOK, StartPatch

LEMMA JobSettles ==
    ASSUME CallersAssumption, JobTypeOK, MemoryTypeOK, QueuesOK, NEW o \in Ops, NEW p \in Waits,
           GoTo(o, p), UNCHANGED <<cpc, cop>>, Answered(o), SettlePatch(o, << >>),
           JobRole(pc[o]) \in Patchers, JobRole(p) = "out"
    PROVE  QueuesOK'
<1>1. /\ Role' = [Role EXCEPT ![o] = "out"] /\ Of' = Of
      /\ Role[o] = JobRole(pc[o]) /\ Of[o] = o /\ o \in Actors
  BY JobMoves
<1>a. /\ Disciplined(Role, Of, dbq, patchq) /\ dbq # << >> /\ Head(dbq) = o
      /\ Role[o] \in Patchers
  BY <1>1 DEF QueuesOK, Answered
<1>b. patchq' = [patchq EXCEPT ![o] = Tail(@)]
  BY DEF SettlePatch
<1>c. Disciplined([Role EXCEPT ![o] = "out"], Of, Tail(dbq) \o Woken(patchq[o]),
                  [patchq EXCEPT ![o] = Tail(@)])
  BY <1>1, <1>a, MoveSettle, Zenon
<1>2. Disciplined(Role', Of', Tail(dbq) \o Woken(patchq[o]), patchq')
  BY <1>1, <1>b, <1>c
<1>3. Tail(dbq) \o Woken(patchq[o]) \in Seq(Actors)
  BY <1>2 DEF Disciplined
<1>4. dbq' = Tail(dbq) \o Woken(patchq[o])
  BY <1>1, <1>3, QueueJoin DEF SettlePatch, NextPatch, Woken
<1> QED BY <1>2, <1>4 DEF QueuesOK

LEMMA JobSettlesAsks ==
    ASSUME CallersAssumption, JobTypeOK, MemoryTypeOK, QueuesOK, NEW o \in Ops, NEW p \in Waits,
           GoTo(o, p), UNCHANGED <<cpc, cop>>, Answered(o), SettlePatch(o, <<o>>),
           JobRole(pc[o]) \in Patchers, JobRole(p) = "asks"
    PROVE  QueuesOK'
<1>1. /\ Role' = [Role EXCEPT ![o] = "asks"] /\ Of' = Of
      /\ Role[o] = JobRole(pc[o]) /\ Of[o] = o /\ o \in Actors
  BY JobMoves
<1> QED BY <1>1, MoveSettleAsk DEF QueuesOK, Answered, SettlePatch, Patchers, NextPatch, Woken

LEMMA JobAsksAgain ==
    ASSUME CallersAssumption, JobTypeOK, MemoryTypeOK, QueuesOK, NEW o \in Ops, NEW p \in Waits,
           GoTo(o, p), UNCHANGED <<cpc, cop>>, Answered(o), AskAgain(o), UNCHANGED patchq,
           JobRole(pc[o]) = "asks", JobRole(p) = "asks"
    PROVE  QueuesOK'
<1>1. /\ Role' = [Role EXCEPT ![o] = "asks"] /\ Of' = Of
      /\ Role[o] = "asks" /\ o \in Actors
  BY JobMoves
<1>2. Role' = Role
  BY <1>1 DEF QueuesOK, Disciplined
<1> QED BY <1>1, <1>2, MoveAskAgain DEF QueuesOK, Answered, AskAgain

LEMMA JobRequeues ==
    ASSUME CallersAssumption, JobTypeOK, MemoryTypeOK, QueuesOK, NEW o \in Ops, NEW p \in Waits,
           GoTo(o, p), UNCHANGED <<cpc, cop>>, Answered(o),
           patchq' = [patchq EXCEPT ![o] = Append(Tail(@), o)],
           dbq' = Tail(dbq) \o (IF NextPatch(o) = << >> THEN <<o>> ELSE NextPatch(o)),
           JobRole(pc[o]) \in Patchers, JobRole(p) = "patches"
    PROVE  QueuesOK'
<1>1. /\ Role' = [Role EXCEPT ![o] = "patches"] /\ Of' = Of
      /\ Role[o] = JobRole(pc[o]) /\ Of[o] = o /\ o \in Actors
  BY JobMoves
<1>2. NextPatch(o) = Woken(patchq[o])
  BY DEF NextPatch, Woken
<1>3. Disciplined(Role, Of, dbq, patchq) /\ dbq # << >> /\ Head(dbq) = o
      /\ Role[o] \in Patchers
  BY <1>1 DEF QueuesOK, Answered
<1>4. Disciplined([Role EXCEPT ![o] = "patches"], Of,
                  Tail(dbq) \o (IF Woken(patchq[o]) = << >> THEN <<o>> ELSE Woken(patchq[o])),
                  [patchq EXCEPT ![o] = Append(Tail(@), o)])
  BY <1>1, <1>3, MoveRequeue, Zenon
<1> QED BY <1>1, <1>2, <1>4 DEF QueuesOK


LEMMA QueuesCancel ==
    ASSUME CallersAssumption, JobTypeOK, MemoryTypeOK, QueuesOK,
           NEW c \in Callers, NEW o \in Ops, Cancel(c, o)
    PROVE  QueuesOK'
<1> DEFINE moved == [Of EXCEPT ![c] = o]
<1>a. /\ c \in Actors /\ c \notin Ops
      /\ CancelRole("idle") = "out" /\ CancelRole("kill") = "out" /\ CancelRole("get1") = "asks"
  BY DEF Actors, CallersAssumption, CancelRole
<1>b. Role[c] = "out"
  BY <1>a DEF Cancel, Role
<1>c. Of' = moved
  <2>1. cop' = [cop EXCEPT ![c] = o] /\ cop \in [Callers -> Ops]
    BY DEF Cancel, MemoryTypeOK
  <2>2. ASSUME NEW a \in Actors PROVE Of'[a] = moved[a]
    BY <1>a, <2>1 DEF Of, Actors
  <2>3. Of' = [a \in Actors |-> Of'[a]] /\ moved = [a \in Actors |-> moved[a]]
    BY DEF Of
  <2> QED BY <2>2, <2>3
<1>1. /\ c \in Actors /\ Role[c] = "out" /\ Of' = moved
      /\ Disciplined(Role, Of, dbq, patchq)
  BY <1>a, <1>b, <1>c DEF QueuesOK
<1>2. Disciplined(Role, moved, dbq, patchq)
  BY <1>1, MoveNothing
<1> HIDE DEF moved
<1>3. CASE cpc' = [cpc EXCEPT ![c] = "kill"] /\ UNCHANGED dbq
  <2>1. Role' = Role
    BY <1>a, <1>3 DEF Cancel, Role, MemoryTypeOK, jobVars
  <2> QED BY <1>1, <1>2, <1>3, <2>1 DEF Cancel, QueuesOK
<1>4. CASE cpc' = [cpc EXCEPT ![c] = "get1"] /\ Ask(c)
  <2>a. cpc' = [cpc EXCEPT ![c] = "get1"] /\ pc' = pc /\ DOMAIN cpc = Callers
    BY <1>4 DEF Cancel, MemoryTypeOK, jobVars
  <2>b. ASSUME NEW a \in Actors PROVE Role'[a] = [Role EXCEPT ![c] = "asks"][a]
    BY <1>a, <2>a DEF Role, Actors
  <2>1. Role' = [Role EXCEPT ![c] = "asks"]
    BY <2>b DEF Role
  <2> QED BY <1>1, <1>2, <1>4, <2>1, MoveAsk DEF Cancel, QueuesOK, Ask
<1> QED BY <1>3, <1>4 DEF Cancel

LEMMA CancelMoves ==
    ASSUME CallersAssumption, JobTypeOK, MemoryTypeOK, QueuesOK,
           NEW c \in Callers, NEW p \in CancelWaits,
           cpc' = [cpc EXCEPT ![c] = p], UNCHANGED cop,
           \A o \in Ops : pc'[o] # pc[o] => pc[o] = "remote" /\ pc'[o] = "idle"
    PROVE  /\ Role' = [Role EXCEPT ![c] = CancelRole(p)] /\ Of' = Of
           /\ Role[c] = CancelRole(cpc[c]) /\ Of[c] = cop[c] /\ c \in Actors /\ Of[c] \in Ops
<1>1. \A o \in Ops : JobRole(pc'[o]) = JobRole(pc[o])
  BY DEF JobRole
<1> QED BY <1>1 DEF CallersAssumption, MemoryTypeOK, Role, Of, Actors

(* the steps of a call of cancel *)
LEMMA QueuesCancelStep ==
    ASSUME CallersAssumption, JobTypeOK, MemoryTypeOK, QueuesOK,
           NEW c \in Callers, CancelStep(c)
    PROVE  QueuesOK'
<1>0. Disciplined(Role, Of, dbq, patchq)
  BY DEF QueuesOK
<1>1. CASE CancelRemote(c)
  <2>1. /\ Role' = [Role EXCEPT ![c] = "asks"] /\ Of' = Of
        /\ Role[c] = "out" /\ c \in Actors
    BY <1>1, CancelMoves DEF CancelRemote, CancelRole, CancelWaits, End, GoTo, JobTypeOK
  <2> QED BY <2>1, <1>0, <1>1, MoveAsk DEF CancelRemote, QueuesOK, Ask
<1>2. CASE CancelRead(c)
  <2>1. CASE cpc' = [cpc EXCEPT ![c] = "get2"] /\ AskAgain(c)
    <3>1. /\ Role' = [Role EXCEPT ![c] = "asks"] /\ Of' = Of
          /\ Role[c] = "asks" /\ c \in Actors
      BY <1>2, <2>1, CancelMoves DEF CancelRead, CancelRole, CancelWaits, jobVars
    <3>2. Role' = Role
      BY <3>1, <1>0 DEF Disciplined
    <3> QED BY <3>1, <3>2, <1>0, <1>2, <2>1, MoveAskAgain DEF CancelRead, QueuesOK, AskAgain, Answered
  <2>2. CASE cpc' = [cpc EXCEPT ![c] = "idle"] /\ AskNoMore
    <3>1. /\ Role' = [Role EXCEPT ![c] = "out"] /\ Of' = Of
          /\ Role[c] = "asks" /\ c \in Actors
      BY <1>2, <2>2, CancelMoves DEF CancelRead, CancelRole, CancelWaits, jobVars
    <3> QED BY <3>1, <1>0, <1>2, <2>2, MoveAskNoMore DEF CancelRead, QueuesOK, AskNoMore, Answered
  <2> QED BY <1>2, <2>1, <2>2 DEF CancelRead
<1>3. CASE CancelState(c)
  <2>1. /\ Role' = [Role EXCEPT ![c] = "patches"] /\ Of' = Of
        /\ Role[c] = "asks" /\ c \in Actors /\ Of[c] = cop[c] /\ Of[c] \in Ops
    BY <1>3, CancelMoves DEF CancelState, CancelRole, CancelWaits, jobVars
  <2> QED BY <2>1, <1>0, <1>3, MoveEnqueuePatch DEF CancelState, QueuesOK, EnqueuePatch, Answered
<1>4. CASE CancelPatchRead(c)
  <2>1. /\ Role' = [Role EXCEPT ![c] = "writes"] /\ Of' = Of
        /\ Role[c] = "patches" /\ c \in Actors
    BY <1>4, CancelMoves DEF CancelPatchRead, CancelRole, CancelWaits, jobVars
  <2> QED BY <2>1, <1>0, <1>4, MoveWrite DEF CancelPatchRead, QueuesOK, AskAgain, Answered, Patchers
<1>5. CASE CancelWritten(c)
  <2>1. /\ Role' = [Role EXCEPT ![c] = "out"] /\ Of' = Of
        /\ Role[c] = "writes" /\ c \in Actors /\ Of[c] = cop[c] /\ Of[c] \in Ops
    BY <1>5, CancelMoves DEF CancelWritten, CancelRole, CancelWaits, jobVars
  <2>2. Disciplined(Role', Of', Tail(dbq) \o Woken(patchq[cop[c]]), patchq')
    BY <2>1, <1>0, <1>5, MoveSettle DEF CancelWritten, Answered, SettlePatch, Patchers
  <2>3. Tail(dbq) \o Woken(patchq[cop[c]]) \in Seq(Actors)
    BY <2>2 DEF Disciplined
  <2>4. dbq' = Tail(dbq) \o Woken(patchq[cop[c]])
    BY <1>5, <2>1, <2>3, QueueJoin DEF CancelWritten, SettlePatch, NextPatch, Woken
  <2> QED BY <2>2, <2>4 DEF QueuesOK
<1> QED BY <1>1, <1>2, <1>3, <1>4, <1>5 DEF CancelStep

LEMMA QueuesEmpty ==
    ASSUME CallersAssumption, NEW role, NEW of \in [Actors -> Ops],
           role = [a \in Actors |-> "out"]
    PROVE  Disciplined(role, of, << >>, [o \in Ops |-> << >>])
BY EmptyQueue DEF Disciplined, Roles, Patchers

LEMMA QueuesInit ==
    ASSUME CallersAssumption, Init
    PROVE  QueuesOK
<1>1. Role = [a \in Actors |-> "out"] /\ Of \in [Actors -> Ops]
  BY DEF Init, CallersAssumption, Role, Of, Actors, JobRole, CancelRole
<1> QED BY <1>1, QueuesEmpty DEF QueuesOK, Init, StoreInit

LEMMA QueuesCrash ==
    ASSUME CallersAssumption, MemoryTypeOK, Crash
    PROVE  QueuesOK'
<1>1. Role' = [a \in Actors |-> "out"] /\ Of' \in [Actors -> Ops]
  BY DEF Crash, CallersAssumption, Role, Of, Actors, JobRole, CancelRole, MemoryTypeOK
<1> QED BY <1>1, QueuesEmpty DEF QueuesOK, Crash, LoseRequests

LEMMA QueuesNext ==
    ASSUME CallersAssumption, JobTypeOK, MemoryTypeOK, QueuesOK, [Next]_vars
    PROVE  QueuesOK'
<1> USE JobRoles, JobStays, JobAsks, JobLeaves, JobAsksAgain, JobWrites,
           JobQueues, JobStarts, JobSettles, JobSettlesAsks, JobRequeues
           DEF End, Throw, Invoke, JoinEndpoint, Written, AfterPhase, Patchers,
           jobVars, memVars, cancelVars, storeVars
<1>1. ASSUME NEW o \in Ops, Prepare(o) PROVE QueuesOK'
  BY <1>1 DEF Prepare
<1>2. ASSUME NEW o \in Ops, CallJob(o) PROVE QueuesOK'
  BY <1>2 DEF CallJob
<1>3. ASSUME NEW o \in Ops, CallRollback(o) PROVE QueuesOK'
  BY <1>3 DEF CallRollback
<1>4. ASSUME NEW o \in Ops, Complete(o) PROVE QueuesOK'
  BY <1>4 DEF Complete
<1>5. ASSUME NEW o \in Ops, Saved(o) PROVE QueuesOK'
  BY <1>5 DEF Saved
<1>6. ASSUME NEW o \in Ops, FirstRead(o) PROVE QueuesOK'
  BY <1>6 DEF FirstRead
<1>7. ASSUME NEW o \in Ops, LockGranted(o) PROVE QueuesOK'
  BY <1>7 DEF LockGranted
<1>8. ASSUME NEW o \in Ops, Reread(o) PROVE QueuesOK'
  BY <1>8 DEF Reread
<1>9. ASSUME NEW o \in Ops, EndpointChanged(o) PROVE QueuesOK'
  BY <1>9 DEF EndpointChanged
<1>10. ASSUME NEW o \in Ops, SameEndpointPrepare(o) PROVE QueuesOK'
  BY <1>10 DEF SameEndpointPrepare
<1>11. ASSUME NEW o \in Ops, SameEndpointChange(o) PROVE QueuesOK'
  BY <1>11 DEF SameEndpointChange
<1>12. ASSUME NEW o \in Ops, SameEndpointRollback(o) PROVE QueuesOK'
  BY <1>12 DEF SameEndpointRollback
<1>13. ASSUME NEW o \in Ops, SameEndpointComplete(o) PROVE QueuesOK'
  BY <1>13 DEF SameEndpointComplete
<1>14. ASSUME NEW o \in Ops, TransitionRead(o) PROVE QueuesOK'
  BY <1>14 DEF TransitionRead
<1>15. ASSUME NEW o \in Ops, PatchRead(o) PROVE QueuesOK'
  BY <1>15 DEF PatchRead
<1>16. ASSUME NEW o \in Ops, GuardedRead(o) PROVE QueuesOK'
  BY <1>16 DEF GuardedRead
<1>17. ASSUME NEW o \in Ops, WrittenRecoveryReady(o) PROVE QueuesOK'
  BY <1>17 DEF WrittenRecoveryReady
<1>18. ASSUME NEW o \in Ops, WrittenBusy(o) PROVE QueuesOK'
  BY <1>18 DEF WrittenBusy
<1>19. ASSUME NEW o \in Ops, WrittenVerified(o) PROVE QueuesOK'
  BY <1>19 DEF WrittenVerified
<1>20. ASSUME NEW o \in Ops, WrittenApplied(o) PROVE QueuesOK'
  BY <1>20 DEF WrittenApplied
<1>21. ASSUME NEW o \in Ops, WrittenLast(o) PROVE QueuesOK'
  BY <1>21 DEF WrittenLast
<1>22. ASSUME NEW o \in Ops, PostRead(o) PROVE QueuesOK'
  BY <1>22 DEF PostRead
<1>23. ASSUME NEW o \in Ops, RecoveryChecked(o) PROVE QueuesOK'
  BY <1>23 DEF RecoveryChecked
<1>24. ASSUME NEW o \in Ops, PhaseStarts(o) PROVE QueuesOK'
  BY <1>24 DEF PhaseStarts
<1>25. ASSUME NEW o \in Ops, PhasePasses(o) PROVE QueuesOK'
  BY <1>25 DEF PhasePasses
<1>26. ASSUME NEW o \in Ops, PhaseFails(o) PROVE QueuesOK'
  BY <1>26 DEF PhaseFails
<1>27. ASSUME NEW o \in Ops, Caught(o) PROVE QueuesOK'
  BY <1>27 DEF Caught
<1>28. ASSUME NEW o \in Ops, FailRead(o) PROVE QueuesOK'
  BY <1>28 DEF FailRead
<1>29. ASSUME NEW o \in Ops, IntegrityRead(o) PROVE QueuesOK'
  BY <1>29 DEF IntegrityRead
<1>30. ASSUME NEW o \in Ops, PtySubmit(o) \/ PtyEnds(o) \/ Alter(o) \/ RecoverOrphan(o) PROVE QueuesOK'
  BY <1>30 DEF PtySubmit, PtyEnds, Alter, RecoverOrphan, QueuesOK, Role, Of
<1>31. ASSUME NEW c \in Callers, CancelStep(c) PROVE QueuesOK'
  BY <1>31, QueuesCancelStep
<1>32. ASSUME NEW c \in Callers, NEW o \in Ops, Cancel(c, o) PROVE QueuesOK'
  BY <1>32, QueuesCancel
<1>33. CASE Crash
  BY <1>33, QueuesCrash
<1>34. CASE UNCHANGED vars
  BY <1>34 DEF vars, QueuesOK, Role, Of
<1> QED BY <1>1, <1>2, <1>3, <1>4, <1>5, <1>6, <1>7, <1>8, <1>9, <1>10, <1>11,
           <1>12, <1>13, <1>14, <1>15, <1>16, <1>17, <1>18, <1>19, <1>20,
           <1>21, <1>22, <1>23, <1>24, <1>25, <1>26, <1>27, <1>28, <1>29,
           <1>30, <1>31, <1>32, <1>33, <1>34 DEF Next, UserStep, JobStep,
           CancelStep, WorldStep

---------------------------------------------------------------------------
(* LockOK *)

Locked == {"get", "endpoint", "postget", "check", "markget", "remote", "gread"}
StoringWaits == {"tget", "patch", "write"}
Storing(o) == pc[o] \in StoringWaits
Midway == {"recovery-ready", "executing", "rolling-back", "verification-passed",
           "rollback-applied"}
LockOK ==
    /\ \A e \in Endpoints : NoneTwice(lockq[e])
    /\ \A e \in Endpoints, o \in Ops : In(o, lockq[e]) =>
          EndpointOf[o] = e /\ pc[o] \in Locked \cup StoringWaits \cup {"lock", "iget"}
    /\ \A o \in Ops :
          /\ pc[o] = "lock" \/ pc[o] \in Locked \/ (Storing(o) /\ target[o] \in Midway)
                => In(o, lockq[EndpointOf[o]])
          /\ In(o, lockq[EndpointOf[o]]) /\ pc[o] # "lock" => Head(lockq[EndpointOf[o]]) = o

LEMMA LockJoined ==
    ASSUME RunnerAssumption, JobTypeOK, MemoryTypeOK, LockOK, NEW o \in Ops, JoinEndpoint(o),
           ~In(o, lockq[EndpointOf[o]]), UNCHANGED target
    PROVE  LockOK'
<1> DEFINE e == EndpointOf[o]
           q == lockq[e]
           q2 == Append(q, o)
<1>1. e \in Endpoints /\ q \in Seq(Ops) /\ NoneTwice(q) /\ ~In(o, q)
  BY DEF RunnerAssumption, MemoryTypeOK, LockOK
<1>2. /\ q2 \in Seq(Ops) /\ NoneTwice(q2)
      /\ \A y : In(y, q2) <=> In(y, q) \/ y = o
      /\ Head(q2) = IF q = << >> THEN o ELSE Head(q)
  BY <1>1, QueueAppend
<1>3. \A y : In(y, q) => q # << >>
  BY <1>1, QueueIn
<1>4. /\ lockq' = [lockq EXCEPT ![e] = q2]
      /\ pc' = [pc EXCEPT ![o] = "lock"]
  BY DEF JoinEndpoint, GoTo
<1> HIDE DEF q2
<1>5. /\ lockq'[e] = q2 /\ \A f \in Endpoints : f # e => lockq'[f] = lockq[f]
      /\ pc'[o] = "lock" /\ \A p \in Ops : p # o => pc'[p] = pc[p]
  BY <1>1, <1>4 DEF JobTypeOK, MemoryTypeOK
<1>6. \A f \in Endpoints : NoneTwice(lockq'[f])
  BY <1>2, <1>5 DEF LockOK
<1>7. \A f \in Endpoints, p \in Ops : In(p, lockq'[f]) =>
         EndpointOf[p] = f /\ pc'[p] \in Locked \cup StoringWaits \cup {"lock", "iget"}
  BY <1>1, <1>2, <1>5 DEF LockOK
<1>8. \A p \in Ops :
         /\ pc'[p] = "lock" \/ pc'[p] \in Locked \/ (pc'[p] \in StoringWaits /\ target[p] \in Midway)
               => In(p, lockq'[EndpointOf[p]])
         /\ In(p, lockq'[EndpointOf[p]]) /\ pc'[p] # "lock" => Head(lockq'[EndpointOf[p]]) = p
  <2> TAKE p \in Ops
  <2>1. CASE p = o
    BY <2>1, <1>2, <1>5
  <2>2. CASE p # o /\ EndpointOf[p] = e
    BY <2>2, <1>2, <1>3, <1>5 DEF LockOK, Storing
  <2>3. CASE p # o /\ EndpointOf[p] # e
    BY <2>3, <1>5 DEF LockOK, Storing, RunnerAssumption
  <2> QED BY <2>1, <2>2, <2>3
<1> QED BY <1>6, <1>7, <1>8 DEF LockOK, Storing

LEMMA LockReleased ==
    ASSUME RunnerAssumption, JobTypeOK, MemoryTypeOK, LockOK, NEW o \in Ops, Release(o),
           pc[o] # "lock", NEW p \in Waits, GoTo(o, p),
           p \notin Locked \cup StoringWaits \cup {"lock"},
           \A x \in Ops : x # o => target'[x] = target[x]
    PROVE  LockOK'
<1> DEFINE e == EndpointOf[o]
           q == lockq[e]
<1>1. e \in Endpoints /\ q \in Seq(Ops) /\ NoneTwice(q)
  BY DEF RunnerAssumption, MemoryTypeOK, LockOK
<1>2. /\ pc'[o] = p /\ \A x \in Ops : x # o => pc'[x] = pc[x]
  BY DEF JobTypeOK, GoTo
<1>3. CASE HoldsLock(o)
  <2> DEFINE q2 == Tail(q)
  <2>1. q # << >> /\ Head(q) = o /\ lockq' = [lockq EXCEPT ![e] = q2]
    BY <1>3 DEF HoldsLock, Release
  <2>2. q2 \in Seq(Ops) /\ NoneTwice(q2) /\ \A y : In(y, q2) <=> In(y, q) /\ y # o
    BY <1>1, <2>1, QueueTail
  <2> HIDE DEF q2
  <2>3. lockq'[e] = q2 /\ \A f \in Endpoints : f # e => lockq'[f] = lockq[f]
    BY <1>1, <2>1 DEF MemoryTypeOK
  <2>4. \A f \in Endpoints : NoneTwice(lockq'[f])
    BY <2>2, <2>3 DEF LockOK
  <2>5. \A f \in Endpoints, x \in Ops : In(x, lockq'[f]) =>
           EndpointOf[x] = f /\ pc'[x] \in Locked \cup StoringWaits \cup {"lock", "iget"}
    BY <1>1, <1>2, <2>2, <2>3 DEF LockOK
  <2>6. \A x \in Ops :
         /\ pc'[x] = "lock" \/ pc'[x] \in Locked \/ (pc'[x] \in StoringWaits /\ target'[x] \in Midway)
               => In(x, lockq'[EndpointOf[x]])
         /\ In(x, lockq'[EndpointOf[x]]) /\ pc'[x] # "lock" => Head(lockq'[EndpointOf[x]]) = x
    <3> TAKE x \in Ops
    <3>1. CASE x = o
      BY <3>1, <1>2, <2>2, <2>3
    <3>2. CASE x # o /\ EndpointOf[x] = e
      BY <3>2, <1>1, <1>2, <2>1, <2>2, <2>3 DEF LockOK, Storing
    <3>3. CASE x # o /\ EndpointOf[x] # e
      BY <3>3, <1>2, <2>3 DEF LockOK, Storing, RunnerAssumption
    <3> QED BY <3>1, <3>2, <3>3
  <2> QED BY <2>4, <2>5, <2>6 DEF LockOK, Storing
<1>4. CASE ~HoldsLock(o)
  <2>1. lockq' = lockq
    BY <1>4 DEF Release
  <2>2. ~In(o, q)
    BY <1>1, <1>4, QueueIn DEF HoldsLock, LockOK
  <2>3. \A f \in Endpoints : ~In(o, lockq[f])
    BY <2>2 DEF LockOK
  <2>4. \A x \in Ops :
         /\ pc'[x] = "lock" \/ pc'[x] \in Locked \/ (pc'[x] \in StoringWaits /\ target'[x] \in Midway)
               => In(x, lockq[EndpointOf[x]])
         /\ In(x, lockq[EndpointOf[x]]) /\ pc'[x] # "lock" => Head(lockq[EndpointOf[x]]) = x
    BY <1>2, <2>2 DEF LockOK, Storing
  <2>5. \A f \in Endpoints, x \in Ops : In(x, lockq[f]) =>
           EndpointOf[x] = f /\ pc'[x] \in Locked \cup StoringWaits \cup {"lock", "iget"}
    BY <1>2, <2>3 DEF LockOK
  <2> QED BY <2>1, <2>4, <2>5 DEF LockOK, Storing
<1> QED BY <1>3, <1>4

LEMMA LockKept ==
    ASSUME RunnerAssumption, JobTypeOK, MemoryTypeOK, LockOK, NEW o \in Ops, UNCHANGED lockq,
           NEW p \in Waits, GoTo(o, p), p # "lock",
           \A x \in Ops : x # o => target'[x] = target[x],
           In(o, lockq[EndpointOf[o]]) =>
               /\ p \in Locked \cup StoringWaits \cup {"iget"}
               /\ pc[o] = "lock" => HasTurn(o),
           p \in Locked \/ (p \in StoringWaits /\ target'[o] \in Midway)
               => In(o, lockq[EndpointOf[o]])
    PROVE  LockOK'
<1>1. /\ pc'[o] = p /\ \A x \in Ops : x # o => pc'[x] = pc[x]
  BY DEF JobTypeOK, GoTo
<1>2. \A x \in Ops :
         /\ pc'[x] = "lock" \/ pc'[x] \in Locked \/ (pc'[x] \in StoringWaits /\ target'[x] \in Midway)
               => In(x, lockq[EndpointOf[x]])
         /\ In(x, lockq[EndpointOf[x]]) /\ pc'[x] # "lock" => Head(lockq[EndpointOf[x]]) = x
  BY <1>1 DEF LockOK, Storing, HasTurn
<1>3. \A f \in Endpoints, x \in Ops : In(x, lockq[f]) =>
         EndpointOf[x] = f /\ pc'[x] \in Locked \cup StoringWaits \cup {"lock", "iget"}
  BY <1>1 DEF LockOK
<1> QED BY <1>2, <1>3 DEF LockOK, Storing

LEMMA LockInit ==
    ASSUME RunnerAssumption, Init
    PROVE  LockOK
BY EmptyQueue DEF Init, LockOK, Locked, Storing, StoringWaits, RunnerAssumption

LEMMA LockNext ==
    ASSUME RunnerAssumption, JobTypeOK, MemoryTypeOK, LockOK, [Next]_vars
    PROVE  LockOK'
<1> USE DEF End, Throw, Invoke, Written, AfterPhase, jobVars, memVars,
           cancelVars, storeVars, Locked, Midway, Storing, StoringWaits,
           Waits, JobTypeOK
<1>a. ASSUME NEW o \in Ops
      PROVE  /\ In(o, lockq[EndpointOf[o]]) =>
                   pc[o] \in Locked \cup StoringWaits \cup {"lock", "iget"}
             /\ pc[o] = "lock" \/ pc[o] \in Locked \/ (Storing(o) /\ target[o] \in Midway)
                   => In(o, lockq[EndpointOf[o]])
  BY DEF LockOK, RunnerAssumption
<1>1. ASSUME NEW o \in Ops, Prepare(o) PROVE LockOK'
  BY <1>1, <1>a, LockJoined, LockReleased, LockKept DEF Prepare
<1>2. ASSUME NEW o \in Ops, CallJob(o) PROVE LockOK'
  BY <1>2, <1>a, LockJoined, LockReleased, LockKept DEF CallJob
<1>3. ASSUME NEW o \in Ops, CallRollback(o) PROVE LockOK'
  BY <1>3, <1>a, LockJoined, LockReleased, LockKept DEF CallRollback
<1>4. ASSUME NEW o \in Ops, Complete(o) PROVE LockOK'
  BY <1>4, <1>a, LockJoined, LockReleased, LockKept DEF Complete
<1>5. ASSUME NEW o \in Ops, Saved(o) PROVE LockOK'
  BY <1>5, <1>a, LockJoined, LockReleased, LockKept DEF Saved
<1>6. ASSUME NEW o \in Ops, FirstRead(o) PROVE LockOK'
  BY <1>6, <1>a, LockJoined, LockReleased, LockKept DEF FirstRead
<1>7. ASSUME NEW o \in Ops, LockGranted(o) PROVE LockOK'
  BY <1>7, <1>a, LockJoined, LockReleased, LockKept DEF LockGranted
<1>8. ASSUME NEW o \in Ops, Reread(o) PROVE LockOK'
  BY <1>8, <1>a, LockJoined, LockReleased, LockKept DEF Reread
<1>9. ASSUME NEW o \in Ops, EndpointChanged(o) PROVE LockOK'
  BY <1>9, <1>a, LockJoined, LockReleased, LockKept DEF EndpointChanged
<1>10. ASSUME NEW o \in Ops, SameEndpointPrepare(o) PROVE LockOK'
  BY <1>10, <1>a, LockJoined, LockReleased, LockKept DEF SameEndpointPrepare
<1>11. ASSUME NEW o \in Ops, SameEndpointChange(o) PROVE LockOK'
  BY <1>11, <1>a, LockJoined, LockReleased, LockKept DEF SameEndpointChange
<1>12. ASSUME NEW o \in Ops, SameEndpointRollback(o) PROVE LockOK'
  BY <1>12, <1>a, LockJoined, LockReleased, LockKept DEF SameEndpointRollback
<1>13. ASSUME NEW o \in Ops, SameEndpointComplete(o) PROVE LockOK'
  BY <1>13, <1>a, LockJoined, LockReleased, LockKept DEF SameEndpointComplete
<1>14. ASSUME NEW o \in Ops, TransitionRead(o) PROVE LockOK'
  BY <1>14, <1>a, LockJoined, LockReleased, LockKept DEF TransitionRead
<1>15. ASSUME NEW o \in Ops, PatchRead(o) PROVE LockOK'
  BY <1>15, <1>a, LockJoined, LockReleased, LockKept DEF PatchRead
<1>16. ASSUME NEW o \in Ops, GuardedRead(o) PROVE LockOK'
  BY <1>16, <1>a, LockJoined, LockReleased, LockKept DEF GuardedRead
<1>17. ASSUME NEW o \in Ops, WrittenRecoveryReady(o) PROVE LockOK'
  BY <1>17, <1>a, LockJoined, LockReleased, LockKept DEF WrittenRecoveryReady
<1>18. ASSUME NEW o \in Ops, WrittenBusy(o) PROVE LockOK'
  BY <1>18, <1>a, LockJoined, LockReleased, LockKept DEF WrittenBusy
<1>19. ASSUME NEW o \in Ops, WrittenVerified(o) PROVE LockOK'
  BY <1>19, <1>a, LockJoined, LockReleased, LockKept DEF WrittenVerified
<1>20. ASSUME NEW o \in Ops, WrittenApplied(o) PROVE LockOK'
  BY <1>20, <1>a, LockJoined, LockReleased, LockKept DEF WrittenApplied
<1>21. ASSUME NEW o \in Ops, WrittenLast(o) PROVE LockOK'
  BY <1>21, <1>a, LockJoined, LockReleased, LockKept DEF WrittenLast
<1>22. ASSUME NEW o \in Ops, PostRead(o) PROVE LockOK'
  BY <1>22, <1>a, LockJoined, LockReleased, LockKept DEF PostRead
<1>23. ASSUME NEW o \in Ops, RecoveryChecked(o) PROVE LockOK'
  BY <1>23, <1>a, LockJoined, LockReleased, LockKept DEF RecoveryChecked
<1>24. ASSUME NEW o \in Ops, PhaseStarts(o) PROVE LockOK'
  BY <1>24, <1>a, LockJoined, LockReleased, LockKept DEF PhaseStarts
<1>25. ASSUME NEW o \in Ops, PhasePasses(o) PROVE LockOK'
  BY <1>25, <1>a, LockJoined, LockReleased, LockKept DEF PhasePasses
<1>26. ASSUME NEW o \in Ops, PhaseFails(o) PROVE LockOK'
  BY <1>26, <1>a, LockJoined, LockReleased, LockKept DEF PhaseFails
<1>27. ASSUME NEW o \in Ops, Caught(o) PROVE LockOK'
  BY <1>27, <1>a, LockJoined, LockReleased, LockKept DEF Caught
<1>28. ASSUME NEW o \in Ops, FailRead(o) PROVE LockOK'
  BY <1>28, <1>a, LockJoined, LockReleased, LockKept DEF FailRead
<1>29. ASSUME NEW o \in Ops, IntegrityRead(o) PROVE LockOK'
  BY <1>29, <1>a, LockJoined, LockReleased, LockKept DEF IntegrityRead
<1>30. ASSUME NEW o \in Ops, PtySubmit(o) \/ PtyEnds(o) \/ Alter(o) \/ RecoverOrphan(o) PROVE LockOK'
  BY <1>30 DEF PtySubmit, PtyEnds, Alter, RecoverOrphan, LockOK
<1>31. ASSUME NEW c \in Callers, CancelRemote(c) PROVE LockOK'
  <2>1. cop[c] \in Ops
    BY DEF MemoryTypeOK
  <2>2. CASE UNCHANGED <<pc, lockq>>
    BY <1>31, <2>2 DEF CancelRemote, LockOK
  <2>3. CASE pc[cop[c]] = "remote" /\ End(cop[c])
    BY <1>31, <2>1, <2>3, LockReleased DEF CancelRemote
  <2> QED BY <1>31, <2>2, <2>3 DEF CancelRemote
<1>32. ASSUME NEW c \in Callers, CancelRead(c) \/ CancelState(c) \/ CancelPatchRead(c) \/ CancelWritten(c)
      PROVE LockOK'
  BY <1>32 DEF CancelRead, CancelState, CancelPatchRead, CancelWritten, LockOK
<1>33. ASSUME NEW c \in Callers, NEW o \in Ops, Cancel(c, o) PROVE LockOK'
  BY <1>33 DEF Cancel, LockOK
<1>34. CASE Crash
  <2>1. \A e \in Endpoints : lockq'[e] = << >>
    BY <1>34 DEF Crash
  <2>2. \A o \in Ops : pc'[o] = "idle"
    BY <1>34 DEF Crash
  <2> QED BY <2>1, <2>2, EmptyQueue DEF LockOK, RunnerAssumption
<1>35. CASE UNCHANGED vars
  BY <1>35 DEF vars, LockOK
<1> QED BY <1>1, <1>2, <1>3, <1>4, <1>5, <1>6, <1>7, <1>8, <1>9, <1>10, <1>11,
           <1>12, <1>13, <1>14, <1>15, <1>16, <1>17, <1>18, <1>19, <1>20,
           <1>21, <1>22, <1>23, <1>24, <1>25, <1>26, <1>27, <1>28, <1>29,
           <1>30, <1>31, <1>32, <1>33, <1>34, <1>35 DEF Next, UserStep,
           JobStep, CancelStep, WorldStep

---------------------------------------------------------------------------
(* A step of one operation *)

StepOf(o) == UserStep(o) \/ JobStep(o) \/ WorldStep(o)
(* nothing of x's record, job, host, starts and terminal changes *)
Kept(x) ==
    /\ state'[x] = state[x] /\ kind'[x] = kind[x] /\ plan'[x] = plan[x]
    /\ call'[x] = call[x] /\ pc'[x] = pc[x] /\ target'[x] = target[x]
    /\ phase'[x] = phase[x] /\ code'[x] = code[x] /\ seen'[x] = seen[x]
    /\ host'[x] = host[x] /\ pty'[x] = pty[x]
    /\ x \in applied' <=> x \in applied
    /\ x \in external' <=> x \in external
    /\ x \in orphans' <=> x \in orphans
    /\ x \in ready' <=> x \in ready
    /\ starts'[x] = starts[x]

(* A step of one operation keeps every other as it is: the operations      *)
(* share only the queues.                                                  *)
LEMMA OthersKept ==
    ASSUME Typed, NEW o \in Ops, StepOf(o), NEW x \in Ops, x # o
    PROVE  Kept(x)
<1> USE DEF Kept, Typed, RecordTypeOK, JobTypeOK, MemoryTypeOK, WorldTypeOK,
           GoTo, End, Throw, Invoke, JoinEndpoint, Written,
           WriteRecord, AfterPhase, PartlyRolledBack, StateOf, storeVars, recordVars,
           jobVars, memVars, cancelVars, hostVars, countVars
<1>1. CASE Prepare(o)
  BY <1>1 DEF Prepare
<1>2. CASE CallJob(o)
  BY <1>2 DEF CallJob
<1>3. CASE CallRollback(o)
  BY <1>3 DEF CallRollback
<1>4. CASE Complete(o)
  BY <1>4 DEF Complete
<1>5. CASE Saved(o)
  BY <1>5 DEF Saved
<1>6. CASE FirstRead(o)
  BY <1>6 DEF FirstRead
<1>7. CASE LockGranted(o)
  BY <1>7 DEF LockGranted
<1>8. CASE Reread(o)
  BY <1>8 DEF Reread
<1>9. CASE EndpointChanged(o)
  BY <1>9 DEF EndpointChanged
<1>10. CASE SameEndpointPrepare(o)
  BY <1>10 DEF SameEndpointPrepare
<1>11. CASE SameEndpointChange(o)
  BY <1>11 DEF SameEndpointChange
<1>12. CASE SameEndpointRollback(o)
  BY <1>12 DEF SameEndpointRollback
<1>13. CASE SameEndpointComplete(o)
  BY <1>13 DEF SameEndpointComplete
<1>14. CASE TransitionRead(o)
  BY <1>14 DEF TransitionRead
<1>15. CASE PatchRead(o)
  BY <1>15 DEF PatchRead
<1>16. CASE GuardedRead(o)
  BY <1>16 DEF GuardedRead
<1>17. CASE WrittenRecoveryReady(o)
  BY <1>17 DEF WrittenRecoveryReady
<1>18. CASE WrittenBusy(o)
  BY <1>18 DEF WrittenBusy
<1>19. CASE WrittenVerified(o)
  BY <1>19 DEF WrittenVerified
<1>20. CASE WrittenApplied(o)
  BY <1>20 DEF WrittenApplied
<1>21. CASE WrittenLast(o)
  BY <1>21 DEF WrittenLast
<1>22. CASE PostRead(o)
  BY <1>22 DEF PostRead
<1>23. CASE RecoveryChecked(o)
  BY <1>23 DEF RecoveryChecked, RollbackPhase
<1>24. CASE PhaseStarts(o)
  BY <1>24 DEF PhaseStarts
<1>25. CASE PhasePasses(o)
  BY <1>25 DEF PhasePasses
<1>26. CASE PhaseFails(o)
  BY <1>26 DEF PhaseFails
<1>27. CASE Caught(o)
  BY <1>27 DEF Caught
<1>28. CASE FailRead(o)
  BY <1>28 DEF FailRead
<1>29. CASE IntegrityRead(o)
  BY <1>29 DEF IntegrityRead
<1>30. CASE PtySubmit(o)
  BY <1>30 DEF PtySubmit
<1>31. CASE PtyEnds(o)
  BY <1>31 DEF PtyEnds
<1>32. CASE Alter(o)
  BY <1>32 DEF Alter
<1>33. CASE RecoverOrphan(o)
  BY <1>33 DEF RecoverOrphan
<1> QED BY <1>1, <1>2, <1>3, <1>4, <1>5, <1>6, <1>7, <1>8, <1>9, <1>10, <1>11, <1>12,
           <1>13, <1>14, <1>15, <1>16, <1>17, <1>18, <1>19, <1>20, <1>21, <1>22, <1>23,
           <1>24, <1>25, <1>26, <1>27, <1>28, <1>29, <1>30, <1>31, <1>32, <1>33
       DEF StepOf, UserStep, JobStep, WorldStep

---------------------------------------------------------------------------
(* RecoveryOK *)

CompletionTarget(o) ==
    pc[o] = "endpoint" /\ call[o] = "complete" =>
        \/ target[o] \in {"failed", "kept"}
        \/ target[o] \in {"verification-passed", "rollback-available"} /\ Reversible(o)
RecoveryAt(o) ==
    /\ state[o] = "absent" => pc[o] \in {"idle", "save"} /\ host[o] = "original" /\ pty[o] = "none"
    /\ plan[o] # "none" => o \in ready
    /\ seen[o] # "none" => plan[o] # "none"
    /\ pc[o] = "iget" \/ (Storing(o) /\ target[o] = "integrity-failed") => plan[o] # "none"
    /\ Storing(o) /\ target[o] = "recovery-ready" => o \in ready
    /\ Storing(o) /\ (\/ target[o] \in {"rolling-back", "rollback-applied"}
                      \/ target[o] = "executing" /\ Reversible(o)) => seen[o] # "none"
    /\ pc[o] \in {"gread", "check"} => seen[o] # "none"
    /\ Storing(o) /\ target[o] = "verification-passed" => seen[o] # "none"
    /\ CompletionTarget(o)
    /\ pc[o] = "postget" /\ Reversible(o) => plan[o] # "none"
    /\ pc[o] \in {"markget", "remote"} /\ (\/ phase[o] \in {"rollback", "verify"}
                                           \/ phase[o] = "execute" /\ Reversible(o))
          => seen[o] # "none"
    /\ Reversible(o) /\ (pty[o] # "none" \/ host[o] # "original") => o \in ready
RecoveryOK == \A o \in Ops : RecoveryAt(o)

LEMMA RecoveryInit ==
    ASSUME Init
    PROVE  RecoveryOK
<1> SUFFICES ASSUME NEW o \in Ops PROVE RecoveryAt(o)
  BY DEF RecoveryOK
<1>1. /\ state[o] = "absent" /\ pc[o] = "idle" /\ host[o] = "original"
      /\ plan[o] = "none" /\ seen[o] = "none" /\ pty[o] = "none"
  BY DEF Init, StoreInit
<1> QED BY <1>1 DEF RecoveryAt, Storing, StoringWaits, CompletionTarget

(* A job has a recovery point in hand where its call needs one: each await *)
(* of it was reached from one where that was so already.                   *)
LEMMA RecoveryStep ==
    ASSUME RunnerAssumption, Typed, NEW o \in Ops, RecoveryAt(o), StepOf(o)
    PROVE  RecoveryAt(o)'
<1> USE DEF RecoveryAt, Typed, RecordTypeOK, JobTypeOK, MemoryTypeOK, WorldTypeOK, Storing,
           StoringWaits, Reversible, CompletionTarget, States, Targets, Terminal, Cancellable,
           GoTo, End, Throw, Invoke, JoinEndpoint, Written, WriteRecord, AfterPhase,
           PartlyRolledBack, StateOf, storeVars, recordVars, jobVars, memVars, cancelVars,
           hostVars, countVars
<1>1. CASE Prepare(o)
  BY <1>1 DEF Prepare
<1>2. CASE CallJob(o)
  BY <1>2 DEF CallJob
<1>3. CASE CallRollback(o)
  BY <1>3 DEF CallRollback
<1>4. CASE Complete(o)
  BY <1>4 DEF Complete
<1>5. CASE Saved(o)
  BY <1>5 DEF Saved
<1>6. CASE FirstRead(o)
  BY <1>6 DEF FirstRead, Admissible
<1>7. CASE LockGranted(o)
  BY <1>7 DEF LockGranted
<1>8. CASE Reread(o)
  BY <1>8 DEF Reread, Admissible, Resumable
<1>9. CASE EndpointChanged(o)
  BY <1>9 DEF EndpointChanged
<1>10. CASE SameEndpointPrepare(o)
  BY <1>10 DEF SameEndpointPrepare
<1>11. CASE SameEndpointChange(o)
  BY <1>11 DEF SameEndpointChange, RecoveryHolds, RecoveryAltered
<1>12. CASE SameEndpointRollback(o)
  BY <1>12 DEF SameEndpointRollback, RecoveryHolds, RecoveryAltered
<1>13. CASE SameEndpointComplete(o)
  BY <1>13 DEF SameEndpointComplete, RecoveryHolds, RecoveryAltered
<1>14. CASE TransitionRead(o)
  BY <1>14 DEF TransitionRead
<1>15. CASE PatchRead(o)
  BY <1>15 DEF PatchRead
<1>16. CASE GuardedRead(o)
  BY <1>16 DEF GuardedRead
<1>17. CASE WrittenRecoveryReady(o)
  BY <1>17 DEF WrittenRecoveryReady
<1>18. CASE WrittenBusy(o)
  BY <1>18 DEF WrittenBusy
<1>19. CASE WrittenVerified(o)
  BY <1>19 DEF WrittenVerified
<1>20. CASE WrittenApplied(o)
  BY <1>20 DEF WrittenApplied
<1>21. CASE WrittenLast(o)
  BY <1>21 DEF WrittenLast
<1>22. CASE PostRead(o)
  BY <1>22 DEF PostRead
<1>23. CASE RecoveryChecked(o)
  BY <1>23 DEF RecoveryChecked, Intact, RollbackPhase
<1>24. CASE PhaseStarts(o)
  BY <1>24 DEF PhaseStarts
<1>25. CASE PhasePasses(o)
  BY <1>25 DEF PhasePasses
<1>26. CASE PhaseFails(o)
  BY <1>26 DEF PhaseFails
<1>27. CASE Caught(o)
  BY <1>27 DEF Caught
<1>28. CASE FailRead(o)
  BY <1>28 DEF FailRead
<1>29. CASE IntegrityRead(o)
  BY <1>29 DEF IntegrityRead
<1>30. CASE PtySubmit(o)
  BY <1>30 DEF PtySubmit
<1>31. CASE PtyEnds(o)
  BY <1>31 DEF PtyEnds
<1>32. CASE Alter(o)
  BY <1>32 DEF Alter
<1>33. CASE RecoverOrphan(o)
  BY <1>33 DEF RecoverOrphan
<1> QED BY <1>1, <1>2, <1>3, <1>4, <1>5, <1>6, <1>7, <1>8, <1>9, <1>10, <1>11, <1>12,
           <1>13, <1>14, <1>15, <1>16, <1>17, <1>18, <1>19, <1>20, <1>21, <1>22, <1>23,
           <1>24, <1>25, <1>26, <1>27, <1>28, <1>29, <1>30, <1>31, <1>32, <1>33
       DEF StepOf, UserStep, JobStep, WorldStep

LEMMA RecoveryNext ==
    ASSUME RunnerAssumption, Typed, RecoveryOK, [Next]_vars
    PROVE  RecoveryOK'
<1> SUFFICES ASSUME NEW x \in Ops PROVE RecoveryAt(x)'
  BY DEF RecoveryOK
<1>a. \A y \in Ops : RecoveryAt(y)
  BY DEF RecoveryOK
<1>1. ASSUME NEW o \in Ops, StepOf(o) PROVE RecoveryAt(x)'
  <2>1. CASE x = o
    BY <1>a, <1>1, <2>1, RecoveryStep
  <2>2. CASE x # o
    <3>1. Kept(x)
      BY <1>1, <2>2, OthersKept
    <3> QED BY <1>a, <3>1 DEF Kept, RecoveryAt, Storing, Reversible, CompletionTarget
  <2> QED BY <2>1, <2>2
<1> USE DEF RecoveryAt, Typed, RecordTypeOK, JobTypeOK, MemoryTypeOK, WorldTypeOK, Storing,
           StoringWaits, Reversible, CompletionTarget, States, Targets, Terminal, Cancellable,
           GoTo, End, Throw, Invoke, JoinEndpoint, Written, WriteRecord, AfterPhase,
           PartlyRolledBack, StateOf, storeVars, recordVars, jobVars, memVars, cancelVars,
           hostVars, countVars
<1>2. ASSUME NEW c \in Callers, CancelRemote(c) PROVE RecoveryAt(x)'
  <2>1. CASE x # cop[c]
    BY <1>a, <1>2, <2>1 DEF CancelRemote
  <2>2. CASE x = cop[c]
    BY <1>a, <1>2, <2>2 DEF CancelRemote
  <2> QED BY <2>1, <2>2
<1>3. ASSUME NEW c \in Callers, CancelRead(c) PROVE RecoveryAt(x)'
  <2>1. CASE x # cop[c]
    BY <1>a, <1>3, <2>1 DEF CancelRead, FlagCleared
  <2>2. CASE x = cop[c]
    BY <1>a, <1>3, <2>2 DEF CancelRead, FlagCleared
  <2> QED BY <2>1, <2>2
<1>4. ASSUME NEW c \in Callers, CancelState(c) PROVE RecoveryAt(x)'
  <2>1. CASE x # cop[c]
    BY <1>a, <1>4, <2>1 DEF CancelState, CancelOutcome
  <2>2. CASE x = cop[c]
    BY <1>a, <1>4, <2>2 DEF CancelState, CancelOutcome
  <2> QED BY <2>1, <2>2
<1>5. ASSUME NEW c \in Callers, CancelPatchRead(c) PROVE RecoveryAt(x)'
  <2>1. CASE x # cop[c]
    BY <1>a, <1>5, <2>1 DEF CancelPatchRead
  <2>2. CASE x = cop[c]
    BY <1>a, <1>5, <2>2 DEF CancelPatchRead
  <2> QED BY <2>1, <2>2
<1>6. ASSUME NEW c \in Callers, CancelWritten(c) PROVE RecoveryAt(x)'
  <2>1. CASE x # cop[c]
    BY <1>a, <1>6, <2>1 DEF CancelWritten, FlagCleared
  <2>2. CASE x = cop[c]
    BY <1>a, <1>6, <2>2 DEF CancelWritten, FlagCleared
  <2> QED BY <2>1, <2>2
<1>7. ASSUME NEW c \in Callers, NEW o \in Ops, Cancel(c, o) PROVE RecoveryAt(x)'
  BY <1>a, <1>7 DEF Cancel
<1>8. CASE Crash
  <2>1. PICK h \in [Ops -> {"original", "changed", "restored"}] :
            /\ \A o \in Ops : h[o] = host[o] \/ (h[o] = "restored" /\ pc[o] = "remote"
                                                 /\ phase[o] = "rollback")
            /\ host' = h
    BY <1>8 DEF Crash
  <2>2. pc'[x] = "idle" /\ pty'[x] = "none"
    BY <1>8 DEF Crash
  <2>3. UNCHANGED <<state, recordVars, call, target, phase, code, seen, starts, ready>>
    BY <1>8 DEF Crash
  <2> QED BY <1>a, <2>1, <2>2, <2>3
<1>9. CASE UNCHANGED vars
  BY <1>a, <1>9 DEF vars
<1> QED BY <1>1, <1>2, <1>3, <1>4, <1>5, <1>6, <1>7, <1>8, <1>9 DEF Next, StepOf, CancelStep

---------------------------------------------------------------------------
(* StartOK *)

Early == {"absent", "preparing", "recovery-ready", "awaiting-confirmation"}
Unstarted(o) == starts[o] = 0 /\ pty[o] = "none"
Changing(o) == call[o] \in {"execute", "begin"}
StartAt(o) ==
    /\ starts[o] \in {0, 1}
    /\ pty[o] = "granted" => starts[o] = 0 /\ state[o] \notin Early
    /\ state[o] \in Early => Unstarted(o)
    /\ call[o] = "prepare" /\ pc[o] # "idle" => Unstarted(o)
    /\ Changing(o) /\ pc[o] = "endpoint" => Unstarted(o)
    /\ Changing(o) /\ Storing(o) /\ target[o] = "executing" => Unstarted(o)
    /\ Changing(o) /\ pc[o] \in {"postget", "check", "markget"} => Unstarted(o) /\ state[o] \notin Early
    /\ Storing(o) /\ target[o] \in Early => call[o] = "prepare"
    /\ Storing(o) /\ target[o] = "executing" => Changing(o)
    /\ pc[o] \in {"markget", "remote"} =>
          (phase[o] = "execute" <=> call[o] = "execute") /\ (phase[o] = "prepare" <=> call[o] = "prepare")
    /\ Storing(o) /\ target[o] \in {"rolling-back", "rollback-applied"} => call[o] = "rollback"
    /\ pc[o] = "gread" => target[o] \in {"failed", "kept", "verification-passed", "rollback-available",
                                        "rollback-applied", "restored"}
    /\ pc[o] = "gread" /\ target[o] = "rollback-applied" => call[o] = "rollback"
    /\ pc[o] \in {"postget", "check"} /\ call[o] = "complete" => target[o] = "rollback-available"
    /\ pc[o] \in {"markget", "remote"} /\ phase[o] \in {"rollback", "verify"}
          => call[o] = "rollback"
    /\ CompletionTarget(o)
    /\ pc[o] = "save" => call[o] = "prepare"
StartOK == \A o \in Ops : StartAt(o)

LEMMA StartInit ==
    ASSUME Init
    PROVE  StartOK
<1> SUFFICES ASSUME NEW o \in Ops PROVE StartAt(o)
  BY DEF StartOK
<1>1. /\ state[o] = "absent" /\ pc[o] = "idle" /\ host[o] = "original" /\ starts[o] = 0
      /\ plan[o] = "none" /\ seen[o] = "none" /\ pty[o] = "none"
  BY DEF Init, StoreInit
<1> QED BY <1>1 DEF StartAt, Storing, StoringWaits, CompletionTarget, Unstarted, Changing

(* What starts the command was confirmed, and nobody can confirm it again. *)
LEMMA StartStep ==
    ASSUME RunnerAssumption, Typed, NEW o \in Ops, StartAt(o), StepOf(o)
    PROVE  StartAt(o)'
<1> USE DEF StartAt, Changing, Unstarted, Early, Typed, RecordTypeOK, JobTypeOK, MemoryTypeOK,
           WorldTypeOK, Storing, StoringWaits, Reversible, CompletionTarget, States, Targets,
           Terminal, Cancellable, GoTo, End, Throw, Invoke, JoinEndpoint, Written, WriteRecord,
           AfterPhase, PartlyRolledBack, StateOf, storeVars, recordVars, jobVars, memVars,
           cancelVars, hostVars, countVars
<1>1. CASE Prepare(o)
  BY <1>1 DEF Prepare
<1>2. CASE CallJob(o)
  BY <1>2 DEF CallJob
<1>3. CASE CallRollback(o)
  BY <1>3 DEF CallRollback
<1>4. CASE Complete(o)
  BY <1>4 DEF Complete
<1>5. CASE Saved(o)
  BY <1>5 DEF Saved
<1>6. CASE FirstRead(o)
  <2>1. UNCHANGED <<state, kind, call, phase, code, host, starts, ready, pty>> /\ pc[o] = "first"
    BY <1>6 DEF FirstRead
  <2>2. \/ pc'[o] \in {"idle", "lock"} /\ target' = target
        \/ /\ pc'[o] \in {"tget", "patch"} /\ call[o] \in {"keep", "revoke"}
           /\ target'[o] \in {"kept", "revoked"}
    BY <1>6 DEF FirstRead
  <2> QED BY <2>1, <2>2
<1>7. CASE LockGranted(o)
  <2>1. UNCHANGED <<state, kind, call, target, phase, code, host, starts, ready, pty>>
        /\ pc[o] = "lock" /\ pc'[o] = "get"
    BY <1>7 DEF LockGranted
  <2> QED BY <2>1
<1>8. CASE Reread(o)
  BY <1>8 DEF Reread, Admissible, Resumable
<1>9. CASE EndpointChanged(o)
  BY <1>9 DEF EndpointChanged
<1>10. CASE SameEndpointPrepare(o)
  BY <1>10 DEF SameEndpointPrepare
<1>11. CASE SameEndpointChange(o)
  BY <1>11 DEF SameEndpointChange, RecoveryHolds, RecoveryAltered
<1>12. CASE SameEndpointRollback(o)
  BY <1>12 DEF SameEndpointRollback, RecoveryHolds, RecoveryAltered
<1>13. CASE SameEndpointComplete(o)
  BY <1>13 DEF SameEndpointComplete, RecoveryHolds, RecoveryAltered
<1>14. CASE TransitionRead(o)
  BY <1>14 DEF TransitionRead
<1>15. CASE PatchRead(o)
  BY <1>15 DEF PatchRead
<1>16. CASE GuardedRead(o)
  BY <1>16 DEF GuardedRead
<1>17. CASE WrittenRecoveryReady(o)
  BY <1>17 DEF WrittenRecoveryReady
<1>18. CASE WrittenBusy(o)
  BY <1>18 DEF WrittenBusy
<1>19. CASE WrittenVerified(o)
  BY <1>19 DEF WrittenVerified
<1>20. CASE WrittenApplied(o)
  BY <1>20 DEF WrittenApplied
<1>21. CASE WrittenLast(o)
  BY <1>21 DEF WrittenLast
<1>22. CASE PostRead(o)
  BY <1>22 DEF PostRead
<1>23. CASE RecoveryChecked(o)
  BY <1>23 DEF RecoveryChecked, Intact, RollbackPhase
<1>24. CASE PhaseStarts(o)
  BY <1>24 DEF PhaseStarts
<1>25. CASE PhasePasses(o)
  BY <1>25 DEF PhasePasses
<1>26. CASE PhaseFails(o)
  BY <1>26 DEF PhaseFails
<1>27. CASE Caught(o)
  BY <1>27 DEF Caught
<1>28. CASE FailRead(o)
  BY <1>28 DEF FailRead
<1>29. CASE IntegrityRead(o)
  BY <1>29 DEF IntegrityRead
<1>30. CASE PtySubmit(o)
  BY <1>30 DEF PtySubmit
<1>31. CASE PtyEnds(o)
  BY <1>31 DEF PtyEnds
<1>32. CASE Alter(o)
  BY <1>32 DEF Alter
<1>33. CASE RecoverOrphan(o)
  BY <1>33 DEF RecoverOrphan
<1> QED BY <1>1, <1>2, <1>3, <1>4, <1>5, <1>6, <1>7, <1>8, <1>9, <1>10, <1>11, <1>12,
           <1>13, <1>14, <1>15, <1>16, <1>17, <1>18, <1>19, <1>20, <1>21, <1>22, <1>23,
           <1>24, <1>25, <1>26, <1>27, <1>28, <1>29, <1>30, <1>31, <1>32, <1>33
       DEF StepOf, UserStep, JobStep, WorldStep

LEMMA StartNext ==
    ASSUME RunnerAssumption, Typed, StartOK, [Next]_vars
    PROVE  StartOK'
<1> SUFFICES ASSUME NEW x \in Ops PROVE StartAt(x)'
  BY DEF StartOK
<1>a. \A y \in Ops : StartAt(y)
  BY DEF StartOK
<1>1. ASSUME NEW o \in Ops, StepOf(o) PROVE StartAt(x)'
  <2>1. CASE x = o
    BY <1>a, <1>1, <2>1, StartStep
  <2>2. CASE x # o
    <3>1. Kept(x)
      BY <1>1, <2>2, OthersKept
    <3> QED BY <1>a, <3>1 DEF Kept, StartAt, Storing, CompletionTarget, Unstarted, Changing, Reversible
  <2> QED BY <2>1, <2>2
<1> USE DEF StartAt, Changing, Unstarted, Early, Typed, RecordTypeOK, JobTypeOK, MemoryTypeOK,
           WorldTypeOK, Storing, StoringWaits, Reversible, CompletionTarget, States, Targets,
           Terminal, Cancellable, GoTo, End, Throw, Invoke, JoinEndpoint, Written, WriteRecord,
           AfterPhase, PartlyRolledBack, StateOf, storeVars, recordVars, jobVars, memVars,
           cancelVars, hostVars, countVars
<1>2. ASSUME NEW c \in Callers, CancelRemote(c) PROVE StartAt(x)'
  <2>1. CASE x # cop[c]
    BY <1>a, <1>2, <2>1 DEF CancelRemote
  <2>2. CASE x = cop[c]
    BY <1>a, <1>2, <2>2 DEF CancelRemote
  <2> QED BY <2>1, <2>2
<1>3. ASSUME NEW c \in Callers, CancelRead(c) PROVE StartAt(x)'
  <2>1. CASE x # cop[c]
    BY <1>a, <1>3, <2>1 DEF CancelRead, FlagCleared
  <2>2. CASE x = cop[c]
    BY <1>a, <1>3, <2>2 DEF CancelRead, FlagCleared
  <2> QED BY <2>1, <2>2
<1>4. ASSUME NEW c \in Callers, CancelState(c) PROVE StartAt(x)'
  <2>1. CASE x # cop[c]
    BY <1>a, <1>4, <2>1 DEF CancelState, CancelOutcome
  <2>2. CASE x = cop[c]
    BY <1>a, <1>4, <2>2 DEF CancelState, CancelOutcome
  <2> QED BY <2>1, <2>2
<1>5. ASSUME NEW c \in Callers, CancelPatchRead(c) PROVE StartAt(x)'
  <2>1. CASE x # cop[c]
    BY <1>a, <1>5, <2>1 DEF CancelPatchRead
  <2>2. CASE x = cop[c]
    BY <1>a, <1>5, <2>2 DEF CancelPatchRead
  <2> QED BY <2>1, <2>2
<1>6. ASSUME NEW c \in Callers, CancelWritten(c) PROVE StartAt(x)'
  <2>1. CASE x # cop[c]
    BY <1>a, <1>6, <2>1 DEF CancelWritten, FlagCleared
  <2>2. CASE x = cop[c]
    <3>1. UNCHANGED <<kind, jobVars, hostVars>>
      BY <1>6 DEF CancelWritten
    <3>2. state'[x] \in {"rollback-available", "cancelled", "failed"}
      BY <1>6, <2>2 DEF CancelWritten
    <3> QED BY <1>a, <3>1, <3>2
  <2> QED BY <2>1, <2>2
<1>7. ASSUME NEW c \in Callers, NEW o \in Ops, Cancel(c, o) PROVE StartAt(x)'
  BY <1>a, <1>7 DEF Cancel
<1>8. CASE Crash
  <2>1. PICK h \in [Ops -> {"original", "changed", "restored"}] :
            /\ \A o \in Ops : h[o] = host[o] \/ (h[o] = "restored" /\ pc[o] = "remote"
                                                 /\ phase[o] = "rollback")
            /\ host' = h
    BY <1>8 DEF Crash
  <2>2. pc'[x] = "idle" /\ pty'[x] = "none"
    BY <1>8 DEF Crash
  <2>3. UNCHANGED <<state, recordVars, call, target, phase, code, seen, starts, ready>>
    BY <1>8 DEF Crash
  <2> QED BY <1>a, <2>1, <2>2, <2>3
<1>9. CASE UNCHANGED vars
  BY <1>a, <1>9 DEF vars
<1> QED BY <1>1, <1>2, <1>3, <1>4, <1>5, <1>6, <1>7, <1>8, <1>9 DEF Next, StepOf, CancelStep

---------------------------------------------------------------------------
(* BoundOK *)

Settling(o, t) == pc[o] \in StoringWaits \cup {"gread"} /\ target[o] = t
BoundAt(o) ==
    /\ pc[o] \in {"markget", "remote"} /\ phase[o] \in {"rollback", "verify"} => seen[o] = "bound"
    /\ Settling(o, "rollback-applied") => seen[o] = "bound"
    /\ pc[o] \in {"markget", "remote"} /\ phase[o] = "rollback" => o \notin applied
BoundOK == \A o \in Ops : BoundAt(o)

(* A job goes to the host for a rollback only from the check of the plan   *)
(* it read last, and comes to the verification from that rollback.         *)
LEMMA BoundStep ==
    ASSUME Typed, NEW o \in Ops, RecoveryAt(o), StartAt(o), BoundAt(o), StepOf(o)
    PROVE  BoundAt(o)'
<1> USE DEF BoundAt, Settling, StoringWaits, Storing, Typed, RecordTypeOK, JobTypeOK,
           MemoryTypeOK, WorldTypeOK, Early,
           GoTo, End, Throw, Invoke, JoinEndpoint, Written,
           WriteRecord, AfterPhase, PartlyRolledBack, StateOf, storeVars, recordVars,
           jobVars, memVars, cancelVars, hostVars, countVars
<1>1. CASE Prepare(o)
  BY <1>1 DEF Prepare
<1>2. CASE CallJob(o)
  BY <1>2 DEF CallJob
<1>3. CASE CallRollback(o)
  BY <1>3 DEF CallRollback
<1>4. CASE Complete(o)
  BY <1>4 DEF Complete
<1>5. CASE Saved(o)
  BY <1>5 DEF Saved
<1>6. CASE FirstRead(o)
  BY <1>6 DEF FirstRead
<1>7. CASE LockGranted(o)
  BY <1>7 DEF LockGranted
<1>8. CASE Reread(o)
  BY <1>8 DEF Reread
<1>9. CASE EndpointChanged(o)
  BY <1>9 DEF EndpointChanged
<1>10. CASE SameEndpointPrepare(o)
  BY <1>10 DEF SameEndpointPrepare
<1>11. CASE SameEndpointChange(o)
  BY <1>11 DEF SameEndpointChange
<1>12. CASE SameEndpointRollback(o)
  BY <1>12 DEF SameEndpointRollback
<1>13. CASE SameEndpointComplete(o)
  BY <1>13 DEF SameEndpointComplete, RecoveryAt, CompletionTarget
<1>14. CASE TransitionRead(o)
  BY <1>14 DEF TransitionRead
<1>15. CASE PatchRead(o)
  BY <1>15 DEF PatchRead, StartAt
<1>16. CASE GuardedRead(o)
  BY <1>16 DEF GuardedRead
<1>17. CASE WrittenRecoveryReady(o)
  BY <1>17 DEF WrittenRecoveryReady
<1>18. CASE WrittenBusy(o)
  BY <1>18 DEF WrittenBusy
<1>19. CASE WrittenVerified(o)
  BY <1>19 DEF WrittenVerified
<1>20. CASE WrittenApplied(o)
  BY <1>20 DEF WrittenApplied
<1>21. CASE WrittenLast(o)
  BY <1>21 DEF WrittenLast
<1>22. CASE PostRead(o)
  BY <1>22 DEF PostRead
<1>23. CASE RecoveryChecked(o)
  BY <1>23 DEF RecoveryChecked, RollbackPhase, Intact, StartAt
<1>24. CASE PhaseStarts(o)
  BY <1>24 DEF PhaseStarts
<1>25. CASE PhasePasses(o)
  BY <1>25 DEF PhasePasses
<1>26. CASE PhaseFails(o)
  BY <1>26 DEF PhaseFails
<1>27. CASE Caught(o)
  BY <1>27 DEF Caught
<1>28. CASE FailRead(o)
  BY <1>28 DEF FailRead
<1>29. CASE IntegrityRead(o)
  BY <1>29 DEF IntegrityRead
<1>30. CASE PtySubmit(o)
  BY <1>30 DEF PtySubmit
<1>31. CASE PtyEnds(o)
  BY <1>31 DEF PtyEnds
<1>32. CASE Alter(o)
  BY <1>32 DEF Alter
<1>33. CASE RecoverOrphan(o)
  BY <1>33 DEF RecoverOrphan
<1> QED BY <1>1, <1>2, <1>3, <1>4, <1>5, <1>6, <1>7, <1>8, <1>9, <1>10, <1>11, <1>12,
           <1>13, <1>14, <1>15, <1>16, <1>17, <1>18, <1>19, <1>20, <1>21, <1>22, <1>23,
           <1>24, <1>25, <1>26, <1>27, <1>28, <1>29, <1>30, <1>31, <1>32, <1>33
       DEF StepOf, UserStep, JobStep, WorldStep

LEMMA BoundInit ==
    ASSUME Init
    PROVE  BoundOK
BY DEF Init, BoundOK, BoundAt, Settling, StoringWaits

LEMMA BoundNext ==
    ASSUME Typed, RecoveryOK, StartOK, BoundOK, [Next]_vars
    PROVE  BoundOK'
<1> SUFFICES ASSUME NEW x \in Ops PROVE BoundAt(x)'
  BY DEF BoundOK
<1> USE DEF BoundOK
<1>1. ASSUME NEW o \in Ops, StepOf(o) PROVE BoundAt(x)'
  <2>1. CASE x = o
    BY <1>1, <2>1, BoundStep DEF RecoveryOK, StartOK
  <2>2. CASE x # o
    <3>1. Kept(x)
      BY <1>1, <2>2, OthersKept
    <3> QED BY <3>1 DEF Kept, BoundAt, Settling
  <2> QED BY <2>1, <2>2
<1> USE DEF BoundAt, Settling, StoringWaits, Typed, JobTypeOK, MemoryTypeOK
<1>2. ASSUME NEW c \in Callers, CancelStep(c) PROVE BoundAt(x)'
  <2>1. UNCHANGED <<target, phase, seen, applied>> /\ (pc'[x] = pc[x] \/ pc'[x] = "idle")
    BY <1>2 DEF CancelStep, CancelRemote, CancelRead, CancelState, CancelPatchRead, CancelWritten,
                End, GoTo, recordVars, jobVars
  <2> QED BY <2>1
<1>3. ASSUME NEW c \in Callers, NEW o \in Ops, Cancel(c, o) PROVE BoundAt(x)'
  BY <1>3 DEF Cancel, recordVars, jobVars
<1>4. CASE Crash
  BY <1>4 DEF Crash
<1>5. CASE UNCHANGED vars
  BY <1>5 DEF vars, recordVars, jobVars
<1> QED BY <1>1, <1>2, <1>3, <1>4, <1>5 DEF Next, StepOf

---------------------------------------------------------------------------
(* The inductive invariant *)

Inv == Typed /\ QueuesOK /\ LockOK /\ RecoveryOK /\ StartOK /\ BoundOK

LEMMA InvInit == Init => Inv
<1> SUFFICES ASSUME Init PROVE Inv
  OBVIOUS
<1>1. Typed
  <2>1. (CHOOSE o \in Ops : TRUE) \in Ops
    BY CallersAssumption DEF CallersAssumption
  <2>2. RecordTypeOK
    BY DEF Init, StoreInit, RecordTypeOK, States, Kinds, Codes
  <2>3. JobTypeOK
    BY DEF Init, JobTypeOK, Calls, Waits, Targets, States, Terminal, Cancellable, Phases, Codes
  <2>4. MemoryTypeOK
    <3>1. lockq \in [Endpoints -> Seq(Ops)]
      BY DEF Init
    <3>2. cop \in [Callers -> Ops]
      BY <2>1 DEF Init
    <3> QED BY <3>1, <3>2 DEF Init, MemoryTypeOK, CancelWaits
  <2>5. WorldTypeOK
    BY DEF Init, WorldTypeOK
  <2> QED BY <2>2, <2>3, <2>4, <2>5 DEF Typed
<1> QED BY <1>1, CallersAssumption, RunnerAssumption, QueuesInit, LockInit, RecoveryInit,
           StartInit, BoundInit DEF Inv

LEMMA InvNext == Inv /\ [Next]_vars => Inv'
<1> SUFFICES ASSUME Inv, [Next]_vars PROVE Inv'
  OBVIOUS
<1>1. Typed /\ QueuesOK /\ LockOK /\ RecoveryOK /\ StartOK /\ BoundOK
      /\ JobTypeOK /\ MemoryTypeOK
  BY DEF Inv, Typed
<1>2. Typed'
  BY <1>1, RunnerAssumption, RecordsTyped, JobsTyped, MemoryTyped, WorldTyped DEF Typed
<1>3. QueuesOK'
  BY <1>1, CallersAssumption, QueuesNext
<1>4. LockOK'
  BY <1>1, RunnerAssumption, LockNext
<1>5. RecoveryOK'
  BY <1>1, RunnerAssumption, RecoveryNext
<1>6. StartOK'
  BY <1>1, RunnerAssumption, StartNext
<1>7. BoundOK'
  BY <1>1, BoundNext
<1> QED BY <1>2, <1>3, <1>4, <1>5, <1>6, <1>7 DEF Inv

THEOREM Invariance == Spec => []Inv
BY InvInit, InvNext, PTL DEF Spec

---------------------------------------------------------------------------
(* FinalOK, while an operation has one call of cancel at a time: what a    *)
(* cancel has found or written is not overtaken by the patches of the job  *)
(* it met, which are queued before its own or not at all                   *)

OneCallEach ==
    \A c, d \in Callers : cpc[c] # "idle" /\ cpc[d] # "idle" /\ cop[c] = cop[d] => c = d

FinalAt(o) ==
    /\ target[o] # "cancelled"
    /\ pc[o] = "save" => state[o] = "absent"
    /\ state[o] = "cancelled" /\ pc[o] \in {"patch", "write"} => target[o] = "revoked"
(* the job's patch was queued before the flag was set *)
Precedes(o) == pc[o] \in {"patch", "write"} /\ target[o] # "revoked" => Head(patchq[o]) = o
CancelAt(c) ==
    /\ cpc[c] # "idle" => cop[c] \in flags /\ state[cop[c]] # "absent"
    /\ cpc[c] \in {"get2", "patch", "write"} => state[cop[c]] # "cancelled"
    /\ cpc[c] \in {"patch", "write"} => Precedes(cop[c])
FinalOK == (\A o \in Ops : FinalAt(o)) /\ \A c \in Callers : CancelAt(c)

(* A step of an operation leaves the calls of cancel and the patches of    *)
(* the others alone.                                                       *)
LEMMA CancelsKept ==
    ASSUME NEW o \in Ops, StepOf(o), patchq \in [Ops -> Seq(Actors)]
    PROVE  /\ UNCHANGED <<flags, cpc, cop, ctarget>>
           /\ \A x \in Ops : x # o => patchq'[x] = patchq[x]
<1> USE DEF Ask, AskAgain, AskNoMore, EnqueuePatch, StartPatch, SettlePatch,
           GoTo, End, Throw, Invoke, JoinEndpoint, Written,
           WriteRecord, AfterPhase, PartlyRolledBack, StateOf, storeVars, recordVars,
           jobVars, memVars, cancelVars, hostVars, countVars
<1>1. CASE Prepare(o)
  BY <1>1 DEF Prepare
<1>2. CASE CallJob(o)
  BY <1>2 DEF CallJob
<1>3. CASE CallRollback(o)
  BY <1>3 DEF CallRollback
<1>4. CASE Complete(o)
  BY <1>4 DEF Complete
<1>5. CASE Saved(o)
  BY <1>5 DEF Saved
<1>6. CASE FirstRead(o)
  BY <1>6 DEF FirstRead
<1>7. CASE LockGranted(o)
  BY <1>7 DEF LockGranted
<1>8. CASE Reread(o)
  BY <1>8 DEF Reread
<1>9. CASE EndpointChanged(o)
  BY <1>9 DEF EndpointChanged
<1>10. CASE SameEndpointPrepare(o)
  BY <1>10 DEF SameEndpointPrepare
<1>11. CASE SameEndpointChange(o)
  BY <1>11 DEF SameEndpointChange
<1>12. CASE SameEndpointRollback(o)
  BY <1>12 DEF SameEndpointRollback
<1>13. CASE SameEndpointComplete(o)
  BY <1>13 DEF SameEndpointComplete
<1>14. CASE TransitionRead(o)
  BY <1>14 DEF TransitionRead
<1>15. CASE PatchRead(o)
  BY <1>15 DEF PatchRead
<1>16. CASE GuardedRead(o)
  BY <1>16 DEF GuardedRead
<1>17. CASE WrittenRecoveryReady(o)
  BY <1>17 DEF WrittenRecoveryReady
<1>18. CASE WrittenBusy(o)
  BY <1>18 DEF WrittenBusy
<1>19. CASE WrittenVerified(o)
  BY <1>19 DEF WrittenVerified
<1>20. CASE WrittenApplied(o)
  BY <1>20 DEF WrittenApplied
<1>21. CASE WrittenLast(o)
  BY <1>21 DEF WrittenLast
<1>22. CASE PostRead(o)
  BY <1>22 DEF PostRead
<1>23. CASE RecoveryChecked(o)
  BY <1>23 DEF RecoveryChecked
<1>24. CASE PhaseStarts(o)
  BY <1>24 DEF PhaseStarts
<1>25. CASE PhasePasses(o)
  BY <1>25 DEF PhasePasses
<1>26. CASE PhaseFails(o)
  BY <1>26 DEF PhaseFails
<1>27. CASE Caught(o)
  BY <1>27 DEF Caught
<1>28. CASE FailRead(o)
  BY <1>28 DEF FailRead
<1>29. CASE IntegrityRead(o)
  BY <1>29 DEF IntegrityRead
<1>30. CASE PtySubmit(o)
  BY <1>30 DEF PtySubmit
<1>31. CASE PtyEnds(o)
  BY <1>31 DEF PtyEnds
<1>32. CASE Alter(o)
  BY <1>32 DEF Alter
<1>33. CASE RecoverOrphan(o)
  BY <1>33 DEF RecoverOrphan
<1> QED BY <1>1, <1>2, <1>3, <1>4, <1>5, <1>6, <1>7, <1>8, <1>9, <1>10, <1>11, <1>12,
           <1>13, <1>14, <1>15, <1>16, <1>17, <1>18, <1>19, <1>20, <1>21, <1>22, <1>23,
           <1>24, <1>25, <1>26, <1>27, <1>28, <1>29, <1>30, <1>31, <1>32, <1>33
       DEF StepOf, UserStep, JobStep, WorldStep

(* A job brings no record back from cancelled, and closes none as cancelled. *)
LEMMA FinalStep ==
    ASSUME CallersAssumption, Typed, QueuesOK, NEW o \in Ops, FinalAt(o), StepOf(o)
    PROVE  /\ FinalAt(o)'
           /\ state[o] = "cancelled" => state'[o] = "cancelled"
           /\ state[o] # "absent" => state'[o] # "absent"
           /\ state[o] # "cancelled" => state'[o] # "cancelled"
<1> USE DEF FinalAt, Typed, RecordTypeOK, JobTypeOK,
           MemoryTypeOK, WorldTypeOK, States, Targets, Stopped, Terminal, Cancellable,
           GoTo, End, Throw, Invoke, JoinEndpoint, Written,
           WriteRecord, AfterPhase, PartlyRolledBack, StateOf, storeVars, recordVars,
           jobVars, memVars, cancelVars, hostVars, countVars
<1>1. CASE Prepare(o)
  BY <1>1 DEF Prepare
<1>2. CASE CallJob(o)
  BY <1>2 DEF CallJob
<1>3. CASE CallRollback(o)
  BY <1>3 DEF CallRollback
<1>4. CASE Complete(o)
  BY <1>4 DEF Complete
<1>5. CASE Saved(o)
  BY <1>5 DEF Saved
<1>6. CASE FirstRead(o)
  BY <1>6 DEF FirstRead
<1>7. CASE LockGranted(o)
  BY <1>7 DEF LockGranted
<1>8. CASE Reread(o)
  BY <1>8 DEF Reread
<1>9. CASE EndpointChanged(o)
  BY <1>9 DEF EndpointChanged
<1>10. CASE SameEndpointPrepare(o)
  BY <1>10 DEF SameEndpointPrepare
<1>11. CASE SameEndpointChange(o)
  BY <1>11 DEF SameEndpointChange
<1>12. CASE SameEndpointRollback(o)
  BY <1>12 DEF SameEndpointRollback
<1>13. CASE SameEndpointComplete(o)
  BY <1>13 DEF SameEndpointComplete
<1>14. CASE TransitionRead(o)
  BY <1>14 DEF TransitionRead
<1>15. CASE PatchRead(o)
  BY <1>15 DEF PatchRead
<1>16. CASE GuardedRead(o)
  BY <1>16 DEF GuardedRead
<1>17. CASE WrittenRecoveryReady(o)
  BY <1>17 DEF WrittenRecoveryReady
<1>18. CASE WrittenBusy(o)
  BY <1>18 DEF WrittenBusy
<1>19. CASE WrittenVerified(o)
  BY <1>19 DEF WrittenVerified
<1>20. CASE WrittenApplied(o)
  BY <1>20 DEF WrittenApplied
<1>21. CASE WrittenLast(o)
  BY <1>21 DEF WrittenLast
<1>22. CASE PostRead(o)
  BY <1>22 DEF PostRead
<1>23. CASE RecoveryChecked(o)
  BY <1>23 DEF RecoveryChecked, RollbackPhase
<1>24. CASE PhaseStarts(o)
  BY <1>24 DEF PhaseStarts
<1>25. CASE PhasePasses(o)
  BY <1>25 DEF PhasePasses
<1>26. CASE PhaseFails(o)
  BY <1>26 DEF PhaseFails
<1>27. CASE Caught(o)
  BY <1>27 DEF Caught
<1>28. CASE FailRead(o)
  BY <1>28 DEF FailRead
<1>29. CASE IntegrityRead(o)
  BY <1>29 DEF IntegrityRead
<1>30. CASE PtySubmit(o)
  BY <1>30 DEF PtySubmit
<1>31. CASE PtyEnds(o)
  BY <1>31 DEF PtyEnds
<1>32. CASE Alter(o)
  BY <1>32 DEF Alter
<1>33. CASE RecoverOrphan(o)
  BY <1>33 DEF RecoverOrphan
<1> QED BY <1>1, <1>2, <1>3, <1>4, <1>5, <1>6, <1>7, <1>8, <1>9, <1>10, <1>11, <1>12,
           <1>13, <1>14, <1>15, <1>16, <1>17, <1>18, <1>19, <1>20, <1>21, <1>22, <1>23,
           <1>24, <1>25, <1>26, <1>27, <1>28, <1>29, <1>30, <1>31, <1>32, <1>33
       DEF StepOf, UserStep, JobStep, WorldStep

(* A job whose cancellation is asked for queues no patch.  Its patch at the *)
(* head of the record's queue stays there until it is written.              *)
LEMMA PrecedesStep ==
    ASSUME CallersAssumption, Typed, QueuesOK, NEW o \in Ops, Precedes(o), o \in flags, StepOf(o)
    PROVE  Precedes(o)'
<1>a. ASSUME pc[o] = "gread", Answered(o) PROVE Head(patchq[o]) = o
  <2>1. Disciplined(Role, Of, dbq, patchq) /\ dbq # << >> /\ Head(dbq) = o
    BY <1>a DEF QueuesOK, Answered
  <2>2. Role[o] \in Patchers /\ Of[o] = o
    BY <1>a DEF Role, Of, Actors, JobRole, Patchers
  <2> QED BY <2>1, <2>2, AnsweredActor
<1> USE DEF Precedes, Typed, RecordTypeOK, JobTypeOK, Stopped,
           MemoryTypeOK, WorldTypeOK, AskAgain, Ask, AskNoMore,
           GoTo, End, Throw, Invoke, JoinEndpoint, Written,
           WriteRecord, AfterPhase, PartlyRolledBack, StateOf, storeVars, recordVars,
           jobVars, memVars, cancelVars, hostVars, countVars
<1>1. CASE Prepare(o)
  BY <1>1 DEF Prepare
<1>2. CASE CallJob(o)
  BY <1>2 DEF CallJob
<1>3. CASE CallRollback(o)
  BY <1>3 DEF CallRollback
<1>4. CASE Complete(o)
  BY <1>4 DEF Complete
<1>5. CASE Saved(o)
  BY <1>5 DEF Saved
<1>6. CASE FirstRead(o)
  BY <1>6 DEF FirstRead
<1>7. CASE LockGranted(o)
  BY <1>7 DEF LockGranted
<1>8. CASE Reread(o)
  BY <1>8 DEF Reread
<1>9. CASE EndpointChanged(o)
  BY <1>9 DEF EndpointChanged
<1>10. CASE SameEndpointPrepare(o)
  BY <1>10 DEF SameEndpointPrepare
<1>11. CASE SameEndpointChange(o)
  BY <1>11 DEF SameEndpointChange
<1>12. CASE SameEndpointRollback(o)
  BY <1>12 DEF SameEndpointRollback
<1>13. CASE SameEndpointComplete(o)
  BY <1>13 DEF SameEndpointComplete
<1>14. CASE TransitionRead(o)
  BY <1>14 DEF TransitionRead
<1>15. CASE PatchRead(o)
  BY <1>15 DEF PatchRead
<1>16. CASE GuardedRead(o)
  BY <1>16, <1>a DEF GuardedRead
<1>17. CASE WrittenRecoveryReady(o)
  BY <1>17 DEF WrittenRecoveryReady
<1>18. CASE WrittenBusy(o)
  BY <1>18 DEF WrittenBusy
<1>19. CASE WrittenVerified(o)
  BY <1>19 DEF WrittenVerified
<1>20. CASE WrittenApplied(o)
  BY <1>20 DEF WrittenApplied
<1>21. CASE WrittenLast(o)
  BY <1>21 DEF WrittenLast
<1>22. CASE PostRead(o)
  BY <1>22 DEF PostRead
<1>23. CASE RecoveryChecked(o)
  BY <1>23 DEF RecoveryChecked, RollbackPhase
<1>24. CASE PhaseStarts(o)
  BY <1>24 DEF PhaseStarts
<1>25. CASE PhasePasses(o)
  BY <1>25 DEF PhasePasses
<1>26. CASE PhaseFails(o)
  BY <1>26 DEF PhaseFails
<1>27. CASE Caught(o)
  BY <1>27 DEF Caught
<1>28. CASE FailRead(o)
  BY <1>28 DEF FailRead
<1>29. CASE IntegrityRead(o)
  BY <1>29 DEF IntegrityRead
<1>30. CASE PtySubmit(o)
  BY <1>30 DEF PtySubmit
<1>31. CASE PtyEnds(o)
  BY <1>31 DEF PtyEnds
<1>32. CASE Alter(o)
  BY <1>32 DEF Alter
<1>33. CASE RecoverOrphan(o)
  BY <1>33 DEF RecoverOrphan
<1> QED BY <1>1, <1>2, <1>3, <1>4, <1>5, <1>6, <1>7, <1>8, <1>9, <1>10, <1>11, <1>12,
           <1>13, <1>14, <1>15, <1>16, <1>17, <1>18, <1>19, <1>20, <1>21, <1>22, <1>23,
           <1>24, <1>25, <1>26, <1>27, <1>28, <1>29, <1>30, <1>31, <1>32, <1>33
       DEF StepOf, UserStep, JobStep, WorldStep

(* a record's one call of cancel that has not queued its patch leaves the  *)
(* job's patch at the head of the queue                                    *)
LEMMA AloneInQueue ==
    ASSUME CallersAssumption, Typed, QueuesOK, OneCallEach, NEW c \in Callers, cpc[c] = "get2",
           pc[cop[c]] \in {"patch", "write"}
    PROVE  patchq[cop[c]] # << >> /\ Head(patchq[cop[c]]) = cop[c]
<1> DEFINE o == cop[c]
           q == patchq[o]
<1>1. o \in Ops /\ o \in Actors /\ c \in Actors /\ c \notin Ops
  BY DEF Typed, MemoryTypeOK, Actors, CallersAssumption
<1>2. Role[o] \in Patchers /\ Of[o] = o /\ Role[c] = "asks"
  BY <1>1 DEF Role, Of, JobRole, CancelRole, Patchers
<1>3. q \in Seq(Actors) /\ NoneTwice(q) /\ In(o, q)
  BY <1>1, <1>2 DEF QueuesOK, Disciplined
<1>4. q # << >>
  BY <1>3, QueueIn
<1>5. Head(q) \in Actors /\ In(Head(q), q)
  BY <1>3, <1>4, QueueHead
<1>6. Of[Head(q)] = o /\ Role[Head(q)] \in Patchers
  BY <1>1, <1>5 DEF QueuesOK, Disciplined
<1>7. CASE Head(q) \in Ops
  BY <1>4, <1>5, <1>6, <1>7 DEF Of
<1>8. CASE Head(q) \in Callers
  <2>1. cop[Head(q)] = o /\ cpc[Head(q)] # "idle"
    BY <1>5, <1>6, <1>8 DEF Of, Role, CancelRole, Patchers, CallersAssumption
  <2>2. Head(q) = c
    BY <1>8, <2>1 DEF OneCallEach
  <2> QED BY <1>2, <1>6, <2>2 DEF Patchers
<1> QED BY <1>5, <1>7, <1>8 DEF Actors

LEMMA FinalCancelStep ==
    ASSUME CallersAssumption, RunnerAssumption, Typed, QueuesOK, FinalOK, OneCallEach,
           NEW c \in Callers, CancelStep(c)
    PROVE  FinalOK' /\ \A o \in Ops : state[o] = "cancelled" => state'[o] = "cancelled"
<1>1. PICK o \in Ops : cop[c] = o
  BY DEF Typed, MemoryTypeOK
<1>2. FinalAt(o) /\ CancelAt(c) /\ \A x \in Ops : FinalAt(x)
  BY DEF FinalOK
<1> USE DEF Typed, RecordTypeOK, JobTypeOK, MemoryTypeOK, CancelWaits, End, GoTo,
           storeVars, recordVars, jobVars, memVars
<1>a. patchq \in [Ops -> Seq(Actors)]
  BY DEF QueuesOK, Disciplined
<1>b. /\ UNCHANGED <<cop, target>> /\ cpc[c] # "idle"
      /\ \A d \in Callers : d # c => cpc'[d] = cpc[d]
      /\ \A x \in Ops : x # o =>
            state'[x] = state[x] /\ pc'[x] = pc[x] /\ patchq'[x] = patchq[x]
      /\ \A x \in flags : x # o => x \in flags'
  <2> USE <1>1, <1>a
  <2>1. CASE CancelRemote(c)
    BY <2>1 DEF CancelRemote
  <2>2. CASE CancelRead(c)
    BY <2>2 DEF CancelRead, FlagCleared
  <2>3. CASE CancelState(c)
    BY <2>3 DEF CancelState, EnqueuePatch
  <2>4. CASE CancelPatchRead(c)
    BY <2>4 DEF CancelPatchRead
  <2>5. CASE CancelWritten(c)
    BY <2>5 DEF CancelWritten, FlagCleared, SettlePatch
  <2> QED BY <2>1, <2>2, <2>3, <2>4, <2>5 DEF CancelStep
<1>3. ASSUME NEW d \in Callers, d # c PROVE CancelAt(d)'
  <2>1. CancelAt(d) /\ cop[d] \in Ops /\ (cpc[d] # "idle" => cop[d] # o)
    BY <1>1, <1>3, <1>b DEF FinalOK, OneCallEach
  <2> QED BY <1>3, <1>b, <2>1 DEF CancelAt, Precedes
<1>4. CASE CancelRemote(c)
  <2>1. /\ UNCHANGED <<state, target, flags, patchq, cop>> /\ cpc'[c] = "get1" /\ cpc[c] = "kill"
        /\ \A x \in Ops : pc'[x] = pc[x] \/ pc'[x] = "idle"
    BY <1>4 DEF CancelRemote
  <2>2. CancelAt(c)'
    BY <1>1, <1>2, <2>1 DEF CancelAt
  <2>3. ASSUME NEW x \in Ops PROVE FinalAt(x)'
    BY <1>2, <2>1 DEF FinalAt
  <2> QED BY <1>3, <2>1, <2>2, <2>3 DEF FinalOK
<1>5. CASE CancelRead(c)
  <2>1. /\ UNCHANGED <<state, target, pc, patchq, cop>>
        /\ \/ cpc'[c] = "get2" /\ UNCHANGED flags /\ state[o] \in Cancellable
           \/ cpc'[c] = "idle"
        /\ cpc[c] = "get1"
    BY <1>1, <1>5 DEF CancelRead
  <2>2. CancelAt(c)'
    BY <1>1, <1>2, <2>1 DEF CancelAt, Cancellable
  <2>3. ASSUME NEW x \in Ops PROVE FinalAt(x)'
    BY <1>2, <2>1 DEF FinalAt
  <2> QED BY <1>3, <2>1, <2>2, <2>3 DEF FinalOK
<1>6. CASE CancelState(c)
  <2>1. /\ UNCHANGED <<state, target, pc, flags, cop>> /\ cpc'[c] = "patch" /\ cpc[c] = "get2"
        /\ patchq' = [patchq EXCEPT ![o] = Append(@, c)]
    BY <1>1, <1>6 DEF CancelState, EnqueuePatch
  <2>2. patchq[o] \in Seq(Actors) /\ patchq'[o] = Append(patchq[o], c)
    BY <1>1, <2>1 DEF QueuesOK, Disciplined
  <2>3. ASSUME pc[o] \in {"patch", "write"} PROVE Head(patchq'[o]) = o
    <3>1. patchq[o] # << >> /\ Head(patchq[o]) = o
      BY <1>1, <2>1, <2>3, AloneInQueue
    <3> QED BY <2>2, <3>1
  <2>4. CancelAt(c)'
    BY <1>1, <1>2, <2>1, <2>3 DEF CancelAt, Precedes
  <2>5. ASSUME NEW x \in Ops PROVE FinalAt(x)'
    BY <1>2, <2>1 DEF FinalAt
  <2> QED BY <1>3, <2>1, <2>4, <2>5 DEF FinalOK
<1>7. CASE CancelPatchRead(c)
  <2>1. /\ UNCHANGED <<state, target, pc, flags, cop, patchq>>
        /\ cpc'[c] = "write" /\ cpc[c] = "patch"
    BY <1>7 DEF CancelPatchRead
  <2>2. CancelAt(c)'
    BY <1>1, <1>2, <2>1 DEF CancelAt, Precedes
  <2>3. ASSUME NEW x \in Ops PROVE FinalAt(x)'
    BY <1>2, <2>1 DEF FinalAt
  <2> QED BY <1>3, <2>1, <2>2, <2>3 DEF FinalOK
<1>8. CASE CancelWritten(c)
  <2>1. /\ state' = [state EXCEPT ![o] = ctarget[c]] /\ UNCHANGED <<target, pc>>
        /\ cpc[c] = "write" /\ cpc'[c] = "idle" /\ Answered(c)
    BY <1>1, <1>8 DEF CancelWritten
  <2>2. Head(patchq[o]) = c /\ c # o
    <3>1. c \in Actors /\ c \notin Ops
      BY DEF Actors, CallersAssumption
    <3>2. Role[c] = "writes" /\ Of[c] = o
      BY <1>1, <2>1, <3>1 DEF Role, Of, CancelRole
    <3> QED BY <1>1, <3>1, <3>2 DEF QueuesOK, Disciplined
  <2>3. CancelAt(c)'
    BY <2>1 DEF CancelAt
  <2>4. FinalAt(o)'
    BY <1>1, <1>2, <2>1, <2>2 DEF FinalAt, CancelAt, Precedes
  <2>5. ASSUME NEW x \in Ops, x # o PROVE FinalAt(x)' /\ state'[x] = state[x]
    BY <1>2, <2>1, <2>5 DEF FinalAt
  <2>6. state[o] # "cancelled"
    BY <1>1, <1>2, <2>1 DEF CancelAt
  <2> QED BY <1>3, <2>3, <2>4, <2>5, <2>6 DEF FinalOK
<1> QED BY <1>4, <1>5, <1>6, <1>7, <1>8 DEF CancelStep

LEMMA FinalInit ==
    ASSUME Init
    PROVE  FinalOK
BY DEF Init, StoreInit, FinalOK, FinalAt, CancelAt

LEMMA FinalNext ==
    ASSUME CallersAssumption, RunnerAssumption, Typed, QueuesOK, FinalOK, OneCallEach, [Next]_vars
    PROVE  FinalOK' /\ \A o \in Ops : state[o] = "cancelled" => state'[o] = "cancelled"
<1> DEFINE final == \A o \in Ops : state[o] = "cancelled" => state'[o] = "cancelled"
<1>1. ASSUME NEW o \in Ops, StepOf(o) PROVE FinalOK' /\ final
  <2>1. UNCHANGED <<flags, cpc, cop>> /\ \A x \in Ops : x # o => patchq'[x] = patchq[x]
    BY <1>1, CancelsKept DEF QueuesOK, Disciplined
  <2>2. ASSUME NEW x \in Ops, x # o
        PROVE  state'[x] = state[x] /\ pc'[x] = pc[x] /\ target'[x] = target[x]
    BY <1>1, <2>2, OthersKept DEF Kept
  <2>3. /\ FinalAt(o)'
        /\ state[o] = "cancelled" => state'[o] = "cancelled"
        /\ state[o] # "absent" => state'[o] # "absent"
        /\ state[o] # "cancelled" => state'[o] # "cancelled"
    BY <1>1, FinalStep DEF FinalOK
  <2>4. ASSUME NEW x \in Ops
        PROVE  FinalAt(x)' /\ (state[x] = "cancelled" => state'[x] = "cancelled")
    BY <2>2, <2>3 DEF FinalOK, FinalAt
  <2>5. ASSUME NEW c \in Callers PROVE CancelAt(c)'
    <3>1. cop[c] \in Ops /\ CancelAt(c)
      BY DEF FinalOK, Typed, MemoryTypeOK
    <3>2. CASE cop[c] # o
      BY <2>1, <2>2, <3>1, <3>2 DEF CancelAt, Precedes
    <3>3. CASE cop[c] = o
      <4>1. o \in flags /\ Precedes(o) => Precedes(o)'
        BY <1>1, PrecedesStep
      <4> QED BY <2>1, <2>3, <3>1, <3>3, <4>1 DEF CancelAt, Precedes
    <3> QED BY <3>2, <3>3
  <2> QED BY <2>4, <2>5 DEF FinalOK
<1>2. ASSUME NEW c \in Callers, CancelStep(c) PROVE FinalOK' /\ final
  BY <1>2, FinalCancelStep
<1>3. ASSUME NEW c \in Callers, NEW o \in Ops, Cancel(c, o) PROVE FinalOK' /\ final
  <2>1. /\ UNCHANGED <<state, target, pc, patchq>> /\ cop'[c] = o /\ o \in flags'
        /\ cpc'[c] \in {"kill", "get1"} /\ state[o] # "absent"
    BY <1>3 DEF Cancel, jobVars, Typed, MemoryTypeOK
  <2>2. CancelAt(c)'
    BY <2>1 DEF CancelAt
  <2>3. ASSUME NEW x \in Ops PROVE FinalAt(x)'
    BY <2>1 DEF FinalAt, FinalOK
  <2>4. ASSUME NEW d \in Callers, d # c PROVE CancelAt(d)'
    BY <1>3, <2>1, <2>4 DEF Cancel, FinalOK, CancelAt, Precedes, Typed, MemoryTypeOK
  <2> QED BY <2>1, <2>2, <2>3, <2>4 DEF FinalOK
<1>4. CASE Crash
  BY <1>4 DEF Crash, FinalOK, FinalAt, CancelAt
<1>5. CASE UNCHANGED vars
  BY <1>5 DEF vars, storeVars, jobVars, memVars, cancelVars, FinalOK, FinalAt, CancelAt, Precedes
<1> QED BY <1>1, <1>2, <1>3, <1>4, <1>5 DEF Next, StepOf

---------------------------------------------------------------------------
(* LifeOK, for an operation nobody cancels: its record is written by its   *)
(* jobs alone, one after another, so that each await knows what state the  *)
(* record is in and what that state says of the host                       *)

Open(o) == state[o] \notin {"absent", "kept", "restored", "cancelled"}
Started(o) == pty[o] \in {"running", "zero", "nonzero"}
(* what the record's state and the terminal say of the host *)
HostAt(o) ==
    /\ state[o] \in Early => host[o] = "original"
    /\ state[o] \in {"verification-passed", "rollback-available"} => host[o] = "changed"
    /\ state[o] = "restored" => host[o] = "restored"
    /\ state[o] = "executing" /\ Started(o) => host[o] = "changed"
    /\ pty[o] = "granted" => host[o] = "original"
    /\ pty[o] = "granted" \/ o \in orphans =>
          /\ state[o] = "executing"
          /\ pc[o] = "idle" \/ (pc[o] = "first" /\ call[o] # "complete")
    /\ o \in orphans => pty[o] = "none"
(* what a job on its way to the host knows of the record *)
CompletionAt(o) ==
    \/ target[o] = "failed" /\ state[o] = "executing"
    \/ target[o] = "kept" /\ state[o] = "executing" /\ ~Reversible(o)
    \/ target[o] = "verification-passed" /\ state[o] = "executing" /\ Reversible(o)
    \/ target[o] = "rollback-available" /\ state[o] = "verification-passed" /\ Reversible(o)
EntryAt(o) ==
    /\ pc[o] = "save" => state[o] = "absent"
    /\ pc[o] # "idle" /\ call[o] = "complete" => Started(o)
    /\ pc[o] \in {"lock", "get", "endpoint"} =>
          /\ call[o] \in {"prepare", "execute", "begin", "rollback", "complete"}
          /\ call[o] = "prepare" => state[o] = "preparing"
          /\ call[o] \in {"execute", "begin"} => state[o] = "awaiting-confirmation"
          /\ call[o] = "rollback" => state[o] \in RollbackStates
    /\ pc[o] = "endpoint" /\ call[o] = "complete" => CompletionAt(o)
    /\ pc[o] \in {"catch", "refused", "failget", "iget"} => Open(o)
    /\ pc[o] \in {"postget", "check"} =>
          /\ call[o] \in {"execute", "begin", "rollback", "complete"}
          /\ call[o] \in {"execute", "begin"} => state[o] = "executing" /\ host[o] = "original"
          /\ call[o] = "rollback" => state[o] = "rolling-back"
          /\ call[o] = "complete" => state[o] = "verification-passed"
    /\ pc[o] \in {"markget", "remote"} =>
          /\ phase[o] = "prepare" => state[o] = "preparing" /\ Reversible(o)
          /\ phase[o] = "execute" =>
                /\ state[o] = "executing"
                /\ host[o] = IF pc[o] = "markget" THEN "original" ELSE "changed"
          /\ phase[o] \in {"rollback", "verify"} => state[o] = "rolling-back"
(* what is about to be written follows from what is in the record *)
WriteAt(o) ==
    /\ Settling(o, "recovery-ready") => state[o] = "preparing"
    /\ Settling(o, "awaiting-confirmation") =>
          state[o] = "recovery-ready" \/ (state[o] = "preparing" /\ ~Reversible(o))
    /\ Settling(o, "executing") => state[o] = "awaiting-confirmation"
    /\ Settling(o, "verification-passed") =>
          state[o] = "executing" /\ Reversible(o) /\ host[o] = "changed"
    /\ Settling(o, "rollback-available") => state[o] = "verification-passed"
    /\ Settling(o, "kept") =>
          \/ state[o] = "rollback-available"
          \/ state[o] = "executing" /\ ~Reversible(o) /\ host[o] = "changed"
    /\ Settling(o, "rolling-back") => state[o] \in RollbackStates
    /\ Settling(o, "rollback-applied") => state[o] = "rolling-back"
    /\ Settling(o, "restored") => state[o] = "rolling-back" /\ host[o] = "restored"
    /\ Settling(o, "failed") \/ Settling(o, "integrity-failed") => Open(o)
LifeAt(o) == HostAt(o) /\ EntryAt(o) /\ WriteAt(o)
LifeOK == \A o \in Ops : LifeAt(o)

(* A step of an operation keeps what its record says of the host true.    *)
LEMMA HostStep ==
    ASSUME Typed, NEW o \in Ops, RecoveryAt(o), StartAt(o), LifeAt(o), StepOf(o)
    PROVE  HostAt(o)'
<1> USE DEF Open, Started, Settling, StoringWaits, Storing, Early,
           RollbackStates, Reversible, CompletionAt, Typed, RecordTypeOK, JobTypeOK,
           MemoryTypeOK, WorldTypeOK, Kinds,
           GoTo, End, Throw, Invoke, JoinEndpoint, Written,
           WriteRecord, AfterPhase, PartlyRolledBack, StateOf, storeVars, recordVars,
           jobVars, memVars, cancelVars, hostVars, countVars
<1> USE DEF LifeAt, HostAt, EntryAt, WriteAt, StartAt, Unstarted, Changing
<1>1. CASE Prepare(o)
  BY <1>1 DEF Prepare
<1>2. CASE CallJob(o)
  BY <1>2 DEF CallJob
<1>3. CASE CallRollback(o)
  BY <1>3 DEF CallRollback
<1>4. CASE Complete(o)
  BY <1>4 DEF Complete
<1>5. CASE Saved(o)
  BY <1>5 DEF Saved
<1>6. CASE FirstRead(o)
  BY <1>6 DEF FirstRead, Admissible
<1>7. CASE LockGranted(o)
  BY <1>7 DEF LockGranted
<1>8. CASE Reread(o)
  BY <1>8 DEF Reread, Admissible, Resumable
<1>9. CASE EndpointChanged(o)
  BY <1>9 DEF EndpointChanged
<1>10. CASE SameEndpointPrepare(o)
  BY <1>10 DEF SameEndpointPrepare
<1>11. CASE SameEndpointChange(o)
  BY <1>11 DEF SameEndpointChange
<1>12. CASE SameEndpointRollback(o)
  BY <1>12 DEF SameEndpointRollback
<1>13. CASE SameEndpointComplete(o)
  BY <1>13 DEF SameEndpointComplete
<1>14. CASE TransitionRead(o)
  BY <1>14 DEF TransitionRead
<1>15. CASE PatchRead(o)
  BY <1>15 DEF PatchRead
<1>16. CASE GuardedRead(o)
  BY <1>16 DEF GuardedRead
<1>17. CASE WrittenRecoveryReady(o)
  BY <1>17 DEF WrittenRecoveryReady
<1>18. CASE WrittenBusy(o)
  BY <1>18 DEF WrittenBusy
<1>19. CASE WrittenVerified(o)
  BY <1>19 DEF WrittenVerified
<1>20. CASE WrittenApplied(o)
  BY <1>20 DEF WrittenApplied
<1>21. CASE WrittenLast(o)
  BY <1>21 DEF WrittenLast
<1>22. CASE PostRead(o)
  BY <1>22 DEF PostRead
<1>23. CASE RecoveryChecked(o)
  BY <1>23 DEF RecoveryChecked, RollbackPhase
<1>24. CASE PhaseStarts(o)
  BY <1>24 DEF PhaseStarts
<1>25. CASE PhasePasses(o)
  BY <1>25 DEF PhasePasses
<1>26. CASE PhaseFails(o)
  BY <1>26 DEF PhaseFails
<1>27. CASE Caught(o)
  BY <1>27 DEF Caught
<1>28. CASE FailRead(o)
  BY <1>28 DEF FailRead
<1>29. CASE IntegrityRead(o)
  BY <1>29 DEF IntegrityRead
<1>30. CASE PtySubmit(o)
  BY <1>30 DEF PtySubmit
<1>31. CASE PtyEnds(o)
  BY <1>31 DEF PtyEnds
<1>32. CASE Alter(o)
  BY <1>32 DEF Alter
<1>33. CASE RecoverOrphan(o)
  <2>1. state[o] = "executing" /\ pty[o] = "none" /\ pc[o] \in {"idle", "first"}
        /\ (pc[o] = "first" => call[o] # "complete")
    BY <1>33 DEF RecoverOrphan
  <2>2. UNCHANGED <<kind, call, pc, target, phase, code, seen, host, starts, pty>>
        /\ state'[o] \in {"executing", "failed"} /\ o \notin orphans'
    BY <1>33, <2>1 DEF RecoverOrphan
  <2> QED BY <2>1, <2>2
<1> QED BY <1>1, <1>2, <1>3, <1>4, <1>5, <1>6, <1>7, <1>8, <1>9, <1>10, <1>11, <1>12,
           <1>13, <1>14, <1>15, <1>16, <1>17, <1>18, <1>19, <1>20, <1>21, <1>22, <1>23,
           <1>24, <1>25, <1>26, <1>27, <1>28, <1>29, <1>30, <1>31, <1>32, <1>33
       DEF StepOf, UserStep, JobStep, WorldStep

(* A job carries what it read of the record to the await where it counts.  *)
LEMMA EntryStep ==
    ASSUME Typed, NEW o \in Ops, RecoveryAt(o), StartAt(o), LifeAt(o), StepOf(o)
    PROVE  EntryAt(o)'
<1> USE DEF Open, Started, Settling, StoringWaits, Storing, Early,
           RollbackStates, Reversible, CompletionAt, Typed, RecordTypeOK, JobTypeOK,
           MemoryTypeOK, WorldTypeOK, Kinds,
           GoTo, End, Throw, Invoke, JoinEndpoint, Written,
           WriteRecord, AfterPhase, PartlyRolledBack, StateOf, storeVars, recordVars,
           jobVars, memVars, cancelVars, hostVars, countVars
<1> USE DEF LifeAt, HostAt, EntryAt, WriteAt, StartAt, RecoveryAt
<1>1. CASE Prepare(o)
  BY <1>1 DEF Prepare
<1>2. CASE CallJob(o)
  BY <1>2 DEF CallJob
<1>3. CASE CallRollback(o)
  BY <1>3 DEF CallRollback
<1>4. CASE Complete(o)
  BY <1>4 DEF Complete
<1>5. CASE Saved(o)
  BY <1>5 DEF Saved
<1>6. CASE FirstRead(o)
  BY <1>6 DEF FirstRead, Admissible
<1>7. CASE LockGranted(o)
  BY <1>7 DEF LockGranted
<1>8. CASE Reread(o)
  BY <1>8 DEF Reread, Admissible, Resumable
<1>9. CASE EndpointChanged(o)
  BY <1>9 DEF EndpointChanged
<1>10. CASE SameEndpointPrepare(o)
  BY <1>10 DEF SameEndpointPrepare
<1>11. CASE SameEndpointChange(o)
  BY <1>11 DEF SameEndpointChange
<1>12. CASE SameEndpointRollback(o)
  BY <1>12 DEF SameEndpointRollback
<1>13. CASE SameEndpointComplete(o)
  BY <1>13 DEF SameEndpointComplete
<1>14. CASE TransitionRead(o)
  BY <1>14 DEF TransitionRead
<1>15. CASE PatchRead(o)
  BY <1>15 DEF PatchRead
<1>16. CASE GuardedRead(o)
  BY <1>16 DEF GuardedRead
<1>17. CASE WrittenRecoveryReady(o)
  BY <1>17 DEF WrittenRecoveryReady
<1>18. CASE WrittenBusy(o)
  BY <1>18 DEF WrittenBusy, Changing
<1>19. CASE WrittenVerified(o)
  BY <1>19 DEF WrittenVerified
<1>20. CASE WrittenApplied(o)
  BY <1>20 DEF WrittenApplied
<1>21. CASE WrittenLast(o)
  BY <1>21 DEF WrittenLast
<1>22. CASE PostRead(o)
  BY <1>22 DEF PostRead
<1>23. CASE RecoveryChecked(o)
  BY <1>23 DEF RecoveryChecked, RollbackPhase
<1>24. CASE PhaseStarts(o)
  BY <1>24 DEF PhaseStarts
<1>25. CASE PhasePasses(o)
  BY <1>25 DEF PhasePasses
<1>26. CASE PhaseFails(o)
  BY <1>26 DEF PhaseFails, Phases
<1>27. CASE Caught(o)
  BY <1>27 DEF Caught
<1>28. CASE FailRead(o)
  BY <1>28 DEF FailRead
<1>29. CASE IntegrityRead(o)
  BY <1>29 DEF IntegrityRead
<1>30. CASE PtySubmit(o)
  BY <1>30 DEF PtySubmit
<1>31. CASE PtyEnds(o)
  BY <1>31 DEF PtyEnds
<1>32. CASE Alter(o)
  BY <1>32 DEF Alter
<1>33. CASE RecoverOrphan(o)
  <2>1. state[o] = "executing" /\ pty[o] = "none" /\ pc[o] \in {"idle", "first"}
        /\ (pc[o] = "first" => call[o] # "complete")
    BY <1>33 DEF RecoverOrphan
  <2>2. UNCHANGED <<kind, call, pc, target, phase, code, seen, host, starts, pty>>
        /\ state'[o] \in {"executing", "failed"} /\ o \notin orphans'
    BY <1>33, <2>1 DEF RecoverOrphan
  <2> QED BY <2>1, <2>2
<1> QED BY <1>1, <1>2, <1>3, <1>4, <1>5, <1>6, <1>7, <1>8, <1>9, <1>10, <1>11, <1>12,
           <1>13, <1>14, <1>15, <1>16, <1>17, <1>18, <1>19, <1>20, <1>21, <1>22, <1>23,
           <1>24, <1>25, <1>26, <1>27, <1>28, <1>29, <1>30, <1>31, <1>32, <1>33
       DEF StepOf, UserStep, JobStep, WorldStep

(* What a job is about to write is the next state of the record it read.   *)
LEMMA WriteStep ==
    ASSUME Typed, NEW o \in Ops, RecoveryAt(o), StartAt(o), LifeAt(o), StepOf(o)
    PROVE  WriteAt(o)'
<1> USE DEF Open, Started, Settling, StoringWaits, Storing, Early,
           RollbackStates, Reversible, CompletionAt, Typed, RecordTypeOK, JobTypeOK,
           MemoryTypeOK, WorldTypeOK, Kinds,
           GoTo, End, Throw, Invoke, JoinEndpoint, Written,
           WriteRecord, AfterPhase, PartlyRolledBack, StateOf, storeVars, recordVars,
           jobVars, memVars, cancelVars, hostVars, countVars
<1> USE DEF LifeAt, HostAt, EntryAt, WriteAt, StartAt
<1>1. CASE Prepare(o)
  BY <1>1 DEF Prepare
<1>2. CASE CallJob(o)
  BY <1>2 DEF CallJob
<1>3. CASE CallRollback(o)
  BY <1>3 DEF CallRollback
<1>4. CASE Complete(o)
  BY <1>4 DEF Complete
<1>5. CASE Saved(o)
  BY <1>5 DEF Saved
<1>6. CASE FirstRead(o)
  BY <1>6 DEF FirstRead, Admissible
<1>7. CASE LockGranted(o)
  BY <1>7 DEF LockGranted
<1>8. CASE Reread(o)
  BY <1>8 DEF Reread, Admissible, Resumable
<1>9. CASE EndpointChanged(o)
  BY <1>9 DEF EndpointChanged
<1>10. CASE SameEndpointPrepare(o)
  BY <1>10 DEF SameEndpointPrepare
<1>11. CASE SameEndpointChange(o)
  BY <1>11 DEF SameEndpointChange
<1>12. CASE SameEndpointRollback(o)
  BY <1>12 DEF SameEndpointRollback
<1>13. CASE SameEndpointComplete(o)
  BY <1>13 DEF SameEndpointComplete
<1>14. CASE TransitionRead(o)
  BY <1>14 DEF TransitionRead
<1>15. CASE PatchRead(o)
  BY <1>15 DEF PatchRead
<1>16. CASE GuardedRead(o)
  BY <1>16 DEF GuardedRead
<1>17. CASE WrittenRecoveryReady(o)
  BY <1>17 DEF WrittenRecoveryReady
<1>18. CASE WrittenBusy(o)
  BY <1>18 DEF WrittenBusy
<1>19. CASE WrittenVerified(o)
  BY <1>19 DEF WrittenVerified
<1>20. CASE WrittenApplied(o)
  BY <1>20 DEF WrittenApplied
<1>21. CASE WrittenLast(o)
  BY <1>21 DEF WrittenLast
<1>22. CASE PostRead(o)
  BY <1>22 DEF PostRead
<1>23. CASE RecoveryChecked(o)
  BY <1>23 DEF RecoveryChecked, RollbackPhase
<1>24. CASE PhaseStarts(o)
  BY <1>24 DEF PhaseStarts
<1>25. CASE PhasePasses(o)
  BY <1>25 DEF PhasePasses
<1>26. CASE PhaseFails(o)
  BY <1>26 DEF PhaseFails
<1>27. CASE Caught(o)
  BY <1>27 DEF Caught
<1>28. CASE FailRead(o)
  BY <1>28 DEF FailRead
<1>29. CASE IntegrityRead(o)
  BY <1>29 DEF IntegrityRead
<1>30. CASE PtySubmit(o)
  BY <1>30 DEF PtySubmit
<1>31. CASE PtyEnds(o)
  BY <1>31 DEF PtyEnds
<1>32. CASE Alter(o)
  BY <1>32 DEF Alter
<1>33. CASE RecoverOrphan(o)
  BY <1>33 DEF RecoverOrphan
<1> QED BY <1>1, <1>2, <1>3, <1>4, <1>5, <1>6, <1>7, <1>8, <1>9, <1>10, <1>11, <1>12,
           <1>13, <1>14, <1>15, <1>16, <1>17, <1>18, <1>19, <1>20, <1>21, <1>22, <1>23,
           <1>24, <1>25, <1>26, <1>27, <1>28, <1>29, <1>30, <1>31, <1>32, <1>33
       DEF StepOf, UserStep, JobStep, WorldStep

LEMMA LifeInit ==
    ASSUME Init
    PROVE  LifeOK
BY DEF Init, StoreInit, LifeOK, LifeAt, HostAt, EntryAt, WriteAt, Settling, StoringWaits,
       Started, Early

(* no call of cancel is for o *)
Uncancelled(o) == \A c \in Callers : cpc[c] = "idle" \/ cop[c] # o

(* a restart forgets the jobs, and what it does to the host only a rollback *)
(* under way can have done *)
LEMMA LifeCrash ==
    ASSUME Typed, NEW x \in Ops, RecoveryAt(x), LifeAt(x), Crash
    PROVE  LifeAt(x)'
<1>2. pc'[x] = "idle" /\ pty'[x] = "none" /\ UNCHANGED <<state, target, kind, call>>
  BY DEF Crash, recordVars
<1>3. host'[x] = host[x] \/ (host'[x] = "restored" /\ pc[x] = "remote" /\ phase[x] = "rollback")
  BY DEF Crash
<1>4. x \in orphans' => state[x] = "executing"
  BY DEF Crash
<1>5. HostAt(x)'
  BY <1>2, <1>3, <1>4 DEF LifeAt, HostAt, EntryAt, Early, Started
<1>6. EntryAt(x)' /\ WriteAt(x)'
  BY <1>2 DEF EntryAt, WriteAt, Settling, StoringWaits
<1> QED BY <1>5, <1>6 DEF LifeAt

(* An operation that is not cancelled is moved by its own steps alone. *)
LEMMA LifeKept ==
    ASSUME Typed, NEW x \in Ops, RecoveryAt(x), StartAt(x), LifeAt(x), Uncancelled(x),
           Uncancelled(x)', [Next]_vars
    PROVE  LifeAt(x)'
<1> DEFINE Still == /\ state'[x] = state[x] /\ kind'[x] = kind[x] /\ call'[x] = call[x]
                    /\ pc'[x] = pc[x] /\ target'[x] = target[x] /\ phase'[x] = phase[x]
                    /\ host'[x] = host[x] /\ pty'[x] = pty[x]
                    /\ x \in orphans' <=> x \in orphans
<1>a. Still => LifeAt(x)'
  BY DEF LifeAt, HostAt, EntryAt, WriteAt, CompletionAt, Settling, Open, Started, Reversible
<1>1. ASSUME NEW o \in Ops, StepOf(o) PROVE LifeAt(x)'
  <2>1. CASE x = o
    BY <1>1, <2>1, HostStep, EntryStep, WriteStep DEF LifeAt
  <2>2. CASE x # o
    <3>1. Kept(x)
      BY <1>1, <2>2, OthersKept
    <3> QED BY <3>1, <1>a DEF Kept
  <2> QED BY <2>1, <2>2
<1>2. ASSUME NEW c \in Callers, CancelStep(c) PROVE LifeAt(x)'
  <2> USE DEF Typed, RecordTypeOK, JobTypeOK, MemoryTypeOK, WorldTypeOK, CancelWaits, End, GoTo,
              PartlyRolledBack, recordVars, jobVars, memVars, hostVars
  <2>1. cpc[c] # "idle"
    BY <1>2 DEF CancelStep, CancelRemote, CancelRead, CancelState, CancelPatchRead, CancelWritten
  <2>2. cop[c] # x /\ cop[c] \in Ops
    BY <2>1 DEF Uncancelled
  <2>3. Still
    <3>1. CASE CancelRemote(c)
      BY <2>2, <3>1 DEF CancelRemote
    <3>2. CASE CancelRead(c)
      BY <3>2 DEF CancelRead
    <3>3. CASE CancelState(c)
      BY <3>3 DEF CancelState
    <3>4. CASE CancelPatchRead(c)
      BY <3>4 DEF CancelPatchRead
    <3>5. CASE CancelWritten(c)
      BY <2>2, <3>5 DEF CancelWritten
    <3> QED BY <1>2, <3>1, <3>2, <3>3, <3>4, <3>5 DEF CancelStep
  <2> QED BY <2>3, <1>a
<1>3. ASSUME NEW c \in Callers, NEW o \in Ops, Cancel(c, o) PROVE LifeAt(x)'
  BY <1>3, <1>a DEF Cancel, recordVars, jobVars, hostVars
<1>4. CASE Crash
  BY <1>4, LifeCrash
<1>5. CASE UNCHANGED vars
  BY <1>5, <1>a DEF vars, storeVars, recordVars, jobVars, memVars, hostVars
<1> QED BY <1>1, <1>2, <1>3, <1>4, <1>5 DEF Next, StepOf

LEMMA LifeNext ==
    ASSUME Typed, RecoveryOK, StartOK, LifeOK, Callers = {}, [Next]_vars
    PROVE  LifeOK'
<1> SUFFICES ASSUME NEW x \in Ops PROVE LifeAt(x)'
  BY DEF LifeOK
<1>1. RecoveryAt(x) /\ StartAt(x) /\ LifeAt(x) /\ Uncancelled(x) /\ Uncancelled(x)'
  BY DEF LifeOK, RecoveryOK, StartOK, Uncancelled
<1> QED BY <1>1, LifeKept

---------------------------------------------------------------------------
(* The refinement of SafetyLifecycle *)

(* a step of SafetyLifecycle, as one operation sees it *)
Move(o) ==
    \/ Lifecycle!Report(o) \/ Lifecycle!Classify(o) \/ Lifecycle!Guard(o)
    \/ Lifecycle!Change(o) \/ Lifecycle!Revert(o) \/ Lifecycle!Stay(o)

(* Every step of an operation is one SafetyLifecycle allows it. *)
LEMMA OperationMoves ==
    ASSUME Typed, NEW o \in Ops, RecoveryAt(o), StartAt(o), LifeAt(o), StepOf(o)
    PROVE  Move(o)
<1> USE DEF Move, Lifecycle!Report, Lifecycle!Forward, Lifecycle!Classify, Lifecycle!Same,
           Lifecycle!Guard, Lifecycle!Change, Lifecycle!Revert, Lifecycle!Stay, Lifecycle!Closed,
           Open, Started, Settling, StoringWaits, Storing, Early,
           RollbackStates, Reversible, CompletionAt, Typed, RecordTypeOK, JobTypeOK,
           MemoryTypeOK, WorldTypeOK, Kinds,
           GoTo, End, Throw, Invoke, JoinEndpoint, Written,
           WriteRecord, AfterPhase, PartlyRolledBack, StateOf, storeVars, recordVars,
           jobVars, memVars, cancelVars, hostVars, countVars
<1> USE DEF LifeAt, HostAt, EntryAt, WriteAt, StartAt, RecoveryAt
<1>1. CASE Prepare(o)
  BY <1>1 DEF Prepare
<1>2. CASE CallJob(o)
  BY <1>2 DEF CallJob
<1>3. CASE CallRollback(o)
  BY <1>3 DEF CallRollback
<1>4. CASE Complete(o)
  BY <1>4 DEF Complete
<1>5. CASE Saved(o)
  BY <1>5 DEF Saved
<1>6. CASE FirstRead(o)
  BY <1>6 DEF FirstRead, Admissible
<1>7. CASE LockGranted(o)
  BY <1>7 DEF LockGranted
<1>8. CASE Reread(o)
  BY <1>8 DEF Reread, Admissible, Resumable
<1>9. CASE EndpointChanged(o)
  BY <1>9 DEF EndpointChanged
<1>10. CASE SameEndpointPrepare(o)
  BY <1>10 DEF SameEndpointPrepare
<1>11. CASE SameEndpointChange(o)
  BY <1>11 DEF SameEndpointChange
<1>12. CASE SameEndpointRollback(o)
  BY <1>12 DEF SameEndpointRollback
<1>13. CASE SameEndpointComplete(o)
  BY <1>13 DEF SameEndpointComplete
<1>14. CASE TransitionRead(o)
  BY <1>14 DEF TransitionRead
<1>15. CASE PatchRead(o)
  BY <1>15 DEF PatchRead
<1>16. CASE GuardedRead(o)
  BY <1>16 DEF GuardedRead
<1>17. CASE WrittenRecoveryReady(o)
  BY <1>17 DEF WrittenRecoveryReady
<1>18. CASE WrittenBusy(o)
  BY <1>18 DEF WrittenBusy
<1>19. CASE WrittenVerified(o)
  BY <1>19 DEF WrittenVerified
<1>20. CASE WrittenApplied(o)
  BY <1>20 DEF WrittenApplied
<1>21. CASE WrittenLast(o)
  BY <1>21 DEF WrittenLast
<1>22. CASE PostRead(o)
  BY <1>22 DEF PostRead
<1>23. CASE RecoveryChecked(o)
  BY <1>23 DEF RecoveryChecked, RollbackPhase
<1>24. CASE PhaseStarts(o)
  BY <1>24 DEF PhaseStarts
<1>25. CASE PhasePasses(o)
  BY <1>25 DEF PhasePasses
<1>26. CASE PhaseFails(o)
  BY <1>26 DEF PhaseFails
<1>27. CASE Caught(o)
  BY <1>27 DEF Caught
<1>28. CASE FailRead(o)
  BY <1>28 DEF FailRead
<1>29. CASE IntegrityRead(o)
  BY <1>29 DEF IntegrityRead
<1>30. CASE PtySubmit(o)
  BY <1>30 DEF PtySubmit
<1>31. CASE PtyEnds(o)
  BY <1>31 DEF PtyEnds
<1>32. CASE Alter(o)
  BY <1>32 DEF Alter
<1>33. CASE RecoverOrphan(o)
  BY <1>33 DEF RecoverOrphan
<1> QED BY <1>1, <1>2, <1>3, <1>4, <1>5, <1>6, <1>7, <1>8, <1>9, <1>10, <1>11, <1>12,
           <1>13, <1>14, <1>15, <1>16, <1>17, <1>18, <1>19, <1>20, <1>21, <1>22, <1>23,
           <1>24, <1>25, <1>26, <1>27, <1>28, <1>29, <1>30, <1>31, <1>32, <1>33
       DEF StepOf, UserStep, JobStep, WorldStep

---------------------------------------------------------------------------
(* The theorems *)

(* Every variable of the runner keeps to its set.  The queues' part rests  *)
(* on QueuesOK: a settled patch always has itself to take from its queue.  *)
THEOREM TypeCorrect == Spec => []TypeOK
<1>1. Inv => TypeOK
  BY DEF Inv, Typed, RecordTypeOK, JobTypeOK, MemoryTypeOK, WorldTypeOK, QueuesOK,
         Disciplined, TypeOK, StoreTypeOK
<1> QED BY <1>1, Invariance, PTL

(* Patches of one record never overlap (enqueuePatch), however many        *)
(* operations and concurrent cancels there are.                            *)
THEOREM PatchesAreAtomic == Spec => []OneWriter
<1>1. ASSUME Inv PROVE OneWriter
  <2> SUFFICES ASSUME NEW o \in Ops PROVE Cardinality(Writing(o)) <= 1
    BY DEF OneWriter
  <2>1. Writing(o) \subseteq Actors
    BY DEF Writing, Actors
  <2>2. ASSUME NEW a \in Writing(o) PROVE a \in Actors /\ Role[a] = "writes" /\ Of[a] = o
    BY <2>1, CallersAssumption
       DEF Writing, Role, Of, Actors, CallersAssumption, JobRole, CancelRole
  <2>3. ASSUME NEW a \in Writing(o), NEW b \in Writing(o) PROVE a = b
    BY <1>1, <2>2, WriterIsAlone DEF Inv, QueuesOK
  <2>4. CASE Writing(o) = {}
    BY <2>4, FS_EmptySet
  <2>5. CASE Writing(o) # {}
    <3>1. PICK a : a \in Writing(o)
      BY <2>5
    <3>2. Writing(o) = {a}
      BY <3>1, <2>3
    <3> QED BY <3>2, FS_Singleton
  <2> QED BY <2>4, <2>5
<1> QED BY <1>1, Invariance, PTL

(* On each endpoint at most one phase runs at a time (serializeEndpoint),  *)
(* though cancel releases phases it did not start.                         *)
THEOREM EndpointsAreExclusive == Spec => []OnePhasePerEndpoint
<1>1. Inv => OnePhasePerEndpoint
  BY DEF Inv, LockOK, Locked, OnePhasePerEndpoint
<1> QED BY <1>1, Invariance, PTL

(* No reversible operation's command is started before its recovery point  *)
(* was made and verified, whatever was cancelled, altered or restarted.    *)
THEOREM RecoveryPrecedesChange == Spec => []RecoveryBeforeChange
<1>1. Inv => RecoveryBeforeChange
  BY DEF Inv, RecoveryOK, RecoveryAt, RecoveryBeforeChange
<1> QED BY <1>1, Invariance, PTL

(* A confirmed command is started once at most: by execute or by the       *)
(* terminal, never by both and never again after a restart.                *)
THEOREM CommandsStartOnce == Spec => []StartedOnce
<1>1. ASSUME Inv, NEW o \in Ops PROVE starts[o] <= 1
  <2>1. starts[o] \in {0, 1}
    BY <1>1 DEF Inv, StartOK, StartAt
  <2> QED BY <2>1
<1>2. Inv => StartedOnce
  BY <1>1 DEF StartedOnce
<1> QED BY <1>2, Invariance, PTL

(* The plan a rollback runs, and verifies, is the one bound to the         *)
(* operation, whatever is cancelled, edited or restarted meanwhile.        *)
THEOREM RollbackIsBound == Spec => []RollbackUsesBoundPlan
<1>1. Inv => RollbackUsesBoundPlan
  BY DEF Inv, BoundOK, BoundAt, RollbackUsesBoundPlan
<1> QED BY <1>1, Invariance, PTL

(* Once rollbackAppliedAt is persisted no job starts the rollback command  *)
(* again, after any number of cancels and restarts.                        *)
THEOREM RollbackIsNotRepeated == Spec => RollbackNotRepeated
<1>1. ASSUME Inv, [Next]_vars
      PROVE  [\A o \in Ops : pc[o] # "remote" /\ pc'[o] = "remote" /\ phase[o] = "rollback"
                => o \notin applied]_vars
  <2> SUFFICES ASSUME NEW o \in Ops, pc[o] # "remote", pc'[o] = "remote"
               PROVE  pc[o] = "markget"
    BY <1>1 DEF Inv, BoundOK, BoundAt
  <2>1. ASSUME NEW x \in Ops, StepOf(x), x # o PROVE FALSE
    BY <1>1, <2>1, OthersKept DEF Kept, Inv
  <2>2. CASE StepOf(o)
    <3> USE DEF Inv, Typed, JobTypeOK, Invoke, JoinEndpoint, GoTo, End, Throw, Written,
                AfterPhase, jobVars
    <3>1. CASE UserStep(o)
      BY <2>2, <3>1, <1>1 DEF UserStep, Prepare, CallJob, CallRollback, Complete
    <3>2. CASE WorldStep(o)
      BY <3>2 DEF WorldStep, PtySubmit, PtyEnds, Alter, RecoverOrphan
    <3>3. CASE JobStep(o)
      BY <1>1, <3>3 DEF JobStep, Saved, FirstRead, LockGranted, Reread, EndpointChanged,
           SameEndpointPrepare, SameEndpointChange, SameEndpointRollback, SameEndpointComplete,
           TransitionRead, PatchRead, GuardedRead, WrittenRecoveryReady, WrittenBusy,
           WrittenVerified, WrittenApplied, WrittenLast, PostRead, RecoveryChecked, PhaseStarts,
           PhasePasses, PhaseFails, Caught, FailRead, IntegrityRead
    <3> QED BY <2>2, <3>1, <3>2, <3>3 DEF StepOf
  <2>3. ASSUME NEW c \in Callers, CancelStep(c) PROVE FALSE
    BY <1>1, <2>3 DEF CancelStep, CancelRemote, CancelRead, CancelState, CancelPatchRead,
         CancelWritten, End, GoTo, jobVars, Inv, Typed, JobTypeOK
  <2>4. ASSUME NEW c \in Callers, NEW x \in Ops, Cancel(c, x) PROVE FALSE
    BY <2>4 DEF Cancel, jobVars
  <2>5. CASE Crash
    BY <2>5 DEF Crash
  <2>6. CASE UNCHANGED vars
    BY <2>6 DEF vars, jobVars
  <2> QED BY <1>1, <2>1, <2>2, <2>3, <2>4, <2>5, <2>6 DEF Next, StepOf
<1> QED BY <1>1, Invariance, PTL DEF Spec, RollbackNotRepeated

(* A cancellation request is dropped with the call of cancel that made it, *)
(* however many run at a time, and a restart drops them all.               *)
THEOREM FlagsAlwaysOwned == Spec => []FlagsAreOwned
<1>1. Init => FlagsAreOwned
  BY DEF Init, FlagsAreOwned
<1>2. ASSUME Inv, FlagsAreOwned, [Next]_vars PROVE FlagsAreOwned'
  <2> USE <1>2 DEF FlagsAreOwned, Inv, Typed, MemoryTypeOK, CancelWaits
  <2>1. ASSUME NEW o \in Ops, StepOf(o) PROVE FlagsAreOwned'
    <3>1. UNCHANGED <<flags, cpc, cop>>
      BY <2>1, CancelsKept DEF QueuesOK, Disciplined
    <3> QED BY <3>1
  <2>2. ASSUME NEW c \in Callers, NEW o \in Ops, Cancel(c, o) PROVE FlagsAreOwned'
    <3>1. /\ flags' = flags \cup {o} /\ cop' = [cop EXCEPT ![c] = o]
          /\ cpc[c] = "idle" /\ \E p \in {"kill", "get1"} : cpc' = [cpc EXCEPT ![c] = p]
      BY <2>2 DEF Cancel
    <3>2. cop'[c] = o /\ cpc'[c] # "idle"
      BY <3>1
    <3>3. ASSUME NEW p \in flags PROVE \E d \in Callers : cop'[d] = p /\ cpc'[d] # "idle"
      BY <3>1
    <3> QED BY <3>1, <3>2, <3>3
  <2>3. ASSUME NEW c \in Callers, CancelStep(c) PROVE FlagsAreOwned'
    <3>1. CASE CancelRemote(c)
      BY <3>1 DEF CancelRemote
    <3>2. CASE CancelRead(c)
      BY <3>2 DEF CancelRead, FlagCleared
    <3>3. CASE CancelState(c)
      BY <3>3 DEF CancelState, memVars
    <3>4. CASE CancelPatchRead(c)
      BY <3>4 DEF CancelPatchRead, memVars
    <3>5. CASE CancelWritten(c)
      BY <3>5 DEF CancelWritten, FlagCleared
    <3> QED BY <2>3, <3>1, <3>2, <3>3, <3>4, <3>5 DEF CancelStep
  <2>4. CASE Crash
    BY <2>4 DEF Crash
  <2>5. CASE UNCHANGED vars
    BY <2>5 DEF vars, memVars, cancelVars
  <2> QED BY <2>1, <2>2, <2>3, <2>4, <2>5 DEF Next, StepOf
<1> QED BY <1>1, <1>2, Invariance, PTL DEF Spec

(* While no two cancels of one operation run at a time, a cancelled record *)
(* is never brought back: neither by the jobs the cancel met, nor by       *)
(* cancels of other operations, nor by its own next cancel.                *)
THEOREM CancelledStays == Spec /\ []OneCallEach => CancelledIsFinal
<1>1. Init => FinalOK
  BY FinalInit
<1>2. Inv /\ FinalOK /\ OneCallEach /\ [Next]_vars =>
         FinalOK' /\ \A o \in Ops : state[o] = "cancelled" => state'[o] = "cancelled"
  BY FinalNext, CallersAssumption, RunnerAssumption DEF Inv
<1>3. Inv /\ FinalOK /\ OneCallEach /\ [Next]_vars => FinalOK'
  BY <1>2
<1>4. Inv /\ FinalOK /\ OneCallEach /\ [Next]_vars =>
         [\A o \in Ops : state[o] = "cancelled" => state'[o] = "cancelled"]_vars
  BY <1>2
<1> QED BY <1>1, <1>3, <1>4, Invariance, PTL DEF Spec, CancelledIsFinal

(* What is true of a record nobody cancels stays true, whatever is         *)
(* cancelled of other operations on the same endpoint.                     *)
THEOREM UncancelledIsTrue ==
    ASSUME NEW o \in Ops
    PROVE  Spec /\ []Uncancelled(o) =>
             [](/\ state[o] = "restored" => host[o] = "restored"
                /\ state[o] \in {"verification-passed", "rollback-available"}
                      => host[o] = "changed")
<1>1. Init => LifeAt(o)
  BY LifeInit DEF LifeOK
<1>2. Inv /\ LifeAt(o) /\ Uncancelled(o) /\ Uncancelled(o)' /\ [Next]_vars => LifeAt(o)'
  BY LifeKept DEF Inv, RecoveryOK, StartOK
<1>3. LifeAt(o) => /\ state[o] = "restored" => host[o] = "restored"
                   /\ state[o] \in {"verification-passed", "rollback-available"}
                         => host[o] = "changed"
  BY DEF LifeAt, HostAt
<1> QED BY <1>1, <1>2, <1>3, Invariance, PTL DEF Spec

LEMMA LifeAlways ==
    ASSUME Callers = {}
    PROVE  Spec => []LifeOK
<1>1. Init => LifeOK
  BY LifeInit
<1>2. Inv /\ LifeOK /\ [Next]_vars => LifeOK'
  BY LifeNext DEF Inv
<1> QED BY <1>1, <1>2, Invariance, PTL DEF Spec

(* Where nobody cancels, a record says restored only when the host was put *)
(* back, whatever fails, is edited, retried or restarted.                  *)
THEOREM RestoredReverts ==
    ASSUME Callers = {}
    PROVE  Spec => []RestoredIsReverted
<1>1. LifeOK => RestoredIsReverted
  BY DEF LifeOK, LifeAt, HostAt, RestoredIsReverted
<1> QED BY <1>1, LifeAlways, PTL

(* Where nobody cancels, rollback-available is said of a change that was   *)
(* made and is still there.                                                *)
THEOREM AvailableChanges ==
    ASSUME Callers = {}
    PROVE  Spec => []AvailableHoldsChange
<1>1. LifeOK => AvailableHoldsChange
  BY DEF LifeOK, LifeAt, HostAt, AvailableHoldsChange
<1> QED BY <1>1, LifeAlways, PTL

LEMMA StepMoves ==
    ASSUME Callers = {}, Inv, LifeOK, [Next]_vars
    PROVE  [Lifecycle!Next]_(Lifecycle!vars)
<1>1. ASSUME NEW o \in Ops, StepOf(o) PROVE Lifecycle!Next
  <2>1. ASSUME NEW x \in Ops PROVE Move(x)
    <3>1. CASE x = o
      BY <1>1, <3>1, OperationMoves DEF LifeOK, Inv, RecoveryOK, StartOK
    <3>2. CASE x # o
      <4>1. Kept(x)
        BY <1>1, <3>2, OthersKept DEF Inv
      <4> QED BY <4>1 DEF Kept, Move, Lifecycle!Stay, Lifecycle!Same, Reversible
    <3> QED BY <3>1, <3>2
  <2> QED BY <2>1 DEF Lifecycle!Next, Move
<1>2. CASE Crash
  <2>1. ASSUME NEW x \in Ops PROVE Move(x)
    <3>1. UNCHANGED <<state, kind, ready>>
      BY <1>2 DEF Crash, recordVars
    <3>2. CASE host'[x] = host[x]
      BY <3>1, <3>2 DEF Move, Lifecycle!Stay, Lifecycle!Same, Reversible
    <3>3. CASE host'[x] = "restored" /\ pc[x] = "remote" /\ phase[x] = "rollback"
      <4>1. state[x] = "rolling-back" /\ x \in ready
        BY <3>3 DEF Inv, LifeOK, LifeAt, EntryAt, RecoveryOK, RecoveryAt
      <4> QED BY <3>1, <3>3, <4>1 DEF Move, Lifecycle!Revert, Lifecycle!Same, Reversible
    <3>4. \/ host'[x] = host[x]
          \/ host'[x] = "restored" /\ pc[x] = "remote" /\ phase[x] = "rollback"
      BY <1>2 DEF Crash
    <3> QED BY <3>2, <3>3, <3>4
  <2> QED BY <2>1 DEF Lifecycle!Next, Move
<1>3. CASE UNCHANGED vars
  <2>1. UNCHANGED <<state, kind, ready, host>>
    BY <1>3 DEF vars, storeVars, recordVars, hostVars
  <2> QED BY <2>1 DEF Lifecycle!vars, Reversible
<1> QED BY <1>1, <1>2, <1>3 DEF Next, StepOf

(* Where nobody cancels, the runner implements SafetyLifecycle: every step *)
(* of any number of jobs, hosts, terminals, edits and restarts is a step   *)
(* of the documented state machine, with what that claims of the host.     *)
THEOREM LifecycleImplemented ==
    ASSUME Callers = {}
    PROVE  Spec => ImplementsLifecycle
<1>1. Init => Lifecycle!Init
  BY DEF Init, StoreInit, Lifecycle!Init, Reversible
<1>2. Inv /\ LifeOK /\ [Next]_vars => [Lifecycle!Next]_(Lifecycle!vars)
  BY StepMoves
<1> QED BY <1>1, <1>2, Invariance, LifeAlways, PTL DEF Spec, ImplementsLifecycle, Lifecycle!Spec
=============================================================================
