-------------------------- MODULE RunLifecycleProofs --------------------------
(***************************************************************************)
(* The invariants of RunLifecycle for every set of runs, tasks and calls    *)
(* and every bound.  LifecycleInv is the inductive invariant: it adds to    *)
(* the properties what the flow in memory knows about the rows.             *)
(***************************************************************************)
EXTENDS RunLifecycle, TLAPS

\* Where the flow is bounds what it holds, and a run being planned has no tasks yet.
FlowInv ==
  /\ flow.stage # "idle" => flow.run \in Runs
  /\ At(TaskStages) => flow.task \in Tasks
  /\ At(CallStages) => flow.call \in Calls
  /\ At(PlanningStages) => \A t \in TasksOf(flow.run) : taskStatus[t] = "absent"

\* A declared effect has not taken place while its call may still be dispatched:
\* not reserved yet, reserved, or ended with the effect proved absent.
EffectInv ==
  /\ \A c \in Declared :
       /\ performed[c] \in {0, 1}
       /\ \/ callState[c] \in {"absent", "reserved"}
          \/ callState[c] \in RetryableCall /\ settlement[c] = "absent"
          => performed[c] = 0
  /\ At({"reserved", "dispatched"}) /\ flow.call \in Declared => performed[flow.call] = 0
  /\ At({"dispatched"}) /\ flow.call \in Declared => callState[flow.call] = "dispatching"

LifecycleInv ==
  /\ LifecycleTypeOK
  /\ FlowInv
  /\ EffectInv
  /\ DependencyEligibility
  /\ DurableAcceptance

-------------------------------------------------------------------------------
\* The empty store satisfies every part of the invariant.
LEMMA InitInv == Init => LifecycleInv
<1> SUFFICES ASSUME Init PROVE LifecycleInv
  OBVIOUS
<1> USE RunsAssumption DEF Init, Idle, At
<1>1. LifecycleTypeOK
  BY DEF LifecycleTypeOK, FlowType, RunStates, TaskStates, CallStates, Settlements, Stages
<1>2. FlowInv
  BY DEF FlowInv, TaskStages, CallStages, PlanningStages
<1>3. EffectInv
  BY DEF EffectInv
<1>4. DependencyEligibility
  BY DEF DependencyEligibility
<1>5. DurableAcceptance
  BY DEF DurableAcceptance, Producers
<1>6. QED
  BY <1>1, <1>2, <1>3, <1>4, <1>5 DEF LifecycleInv

-------------------------------------------------------------------------------
\* Each repository method keeps the rows it writes in their ranges.
LEMMA ClaimTaskType ==
  ASSUME LifecycleTypeOK, NEW t \in Tasks, ClaimTask(t)
  PROVE  /\ taskStatus' \in [Tasks -> TaskStates]
         /\ attempts' \in [Tasks -> 0..MaxAttempts]
BY RunsAssumption DEF LifecycleTypeOK, ClaimTask, TaskStates

\* The first transaction of recover_interrupted keeps the types of the planned calls.
LEMMA RecoverScanType ==
  ASSUME LifecycleTypeOK, NEW r \in Runs, RecoverScan(r)
  PROVE  /\ runStatus' \in [Runs -> RunStates]
         /\ callState' \in [Calls -> CallStates]
         /\ settlement' \in [Calls -> Settlements]
BY DEF LifecycleTypeOK, RecoverScan, RunStates, CallStates, Settlements

\* The second transaction of recover_interrupted keeps the types of the rows.
LEMMA RecoverReleaseType ==
  ASSUME LifecycleTypeOK, NEW r \in Runs, RecoverRelease(r)
  PROVE  /\ runStatus' \in [Runs -> RunStates]
         /\ taskStatus' \in [Tasks -> TaskStates]
BY DEF LifecycleTypeOK, RecoverRelease, RunStates, TaskStates

\* settle_cancellation keeps the types of the rows.
LEMMA SettleType ==
  ASSUME LifecycleTypeOK, NEW r \in Runs, SettleCancellation(r)
  PROVE  /\ runStatus' \in [Runs -> RunStates]
         /\ taskStatus' \in [Tasks -> TaskStates]
BY DEF LifecycleTypeOK, SettleCancellation, RunStates, TaskStates

\* The row updates of accept_result keep the types of tasks and results.
LEMMA AcceptType ==
  ASSUME LifecycleTypeOK, NEW t \in Tasks
  PROVE  /\ Accept(t) \in [Tasks -> TaskStates]
         /\ CompleteRun(t) \in [Runs -> RunStates]
<1>1. Accept(t) \in [Tasks -> TaskStates]
  BY DEF LifecycleTypeOK, Accept, ReleaseDependents, TaskStates
<1>2. CompleteRun(t) \in [Runs -> RunStates]
  BY DEF LifecycleTypeOK, CompleteRun, RunStates
<1>3. QED
  BY <1>1, <1>2

-------------------------------------------------------------------------------
\* Every step of the flow keeps the flow record in its range.
LEMMA FlowRecordType ==
  ASSUME LifecycleTypeOK, FlowInv, FlowStep
  PROVE  flow' \in FlowType
<1> USE DEF LifecycleTypeOK, FlowInv, At, FlowType, Stages, PlanningStages,
        PlanStages, TaskStages, CallStages
<1>1. Idle \in FlowType
  BY RunsAssumption DEF Idle
<1>2. ASSUME FlowPropose \/ FlowRevise \/ FlowAcceptPlan \/ FlowEnter \/ FlowRecoverScan
             \/ FlowRecoverRelease \/ FlowStartRun
      PROVE  flow' \in FlowType
  BY <1>2 DEF FlowPropose, FlowRevise, FlowAcceptPlan, FlowEnter, FlowRecoverScan,
              FlowRecoverRelease, FlowStartRun
<1>3. ASSUME NEW t \in Tasks, FlowClaim(t)
      PROVE  flow' \in FlowType
  <2>1. flow' = [flow EXCEPT !.stage = "executing", !.task = t, !.sequence = 1]
    BY <1>3 DEF FlowClaim
  <2>2. 1 \in 0..MaxReviews
    BY RunsAssumption
  <2>3. QED
    BY <2>1, <2>2
<1>4. ASSUME NEW c \in Calls, FlowReserve(c)
      PROVE  flow' \in FlowType
  <2>1. flow' = [flow EXCEPT !.stage = "reserved", !.call = c, !.tries = @ + 1]
    BY <1>4 DEF FlowReserve
  <2>2. flow.tries + 1 \in 0..MaxTries
    BY <1>4, RunsAssumption DEF FlowReserve
  <2>3. QED
    BY <2>1, <2>2
<1>5. ASSUME NEW state, NEW settled, CompleteCall(state, settled)
      PROVE  flow' \in FlowType
  BY <1>5 DEF CompleteCall
<1>6. ASSUME FlowDispatch \/ AdapterEffect \/ FlowValidate \/ FlowInvalidReview \/ FlowFail
      PROVE  flow' \in FlowType
  BY <1>6 DEF FlowDispatch, AdapterEffect, FlowValidate, FlowInvalidReview, FlowFail
<1>7. ASSUME FlowReject
      PROVE  flow' \in FlowType
  <2>1. CASE flow.sequence < MaxReviews
    <3>1. flow.sequence + 1 \in 0..MaxReviews
      BY <2>1, RunsAssumption
    <3>2. QED
      BY <1>7, <2>1, <3>1 DEF FlowReject
  <2>2. CASE ~(flow.sequence < MaxReviews)
    BY <1>7, <2>2 DEF FlowReject
  <2>3. QED
    BY <2>1, <2>2
<1>8. ASSUME FlowAccept
      PROVE  flow' \in FlowType
  <2>1. flow.task \in Tasks /\ 0 \in 0..MaxReviews /\ 0 \in 0..MaxTries
    BY <1>8, RunsAssumption DEF FlowAccept
  <2>2. QED
    BY <1>8, <2>1 DEF FlowAccept, NextTask
<1>9. ASSUME FlowFinish \/ FlowRaises
      PROVE  flow' \in FlowType
  BY <1>1, <1>9 DEF FlowFinish, FlowRaises
<1>10. QED
  BY <1>2, <1>3, <1>4, <1>5, <1>6, <1>7, <1>8, <1>9
  DEF FlowStep, FlowCall, FlowRefuse, FlowReturn

\* The rows stay in their ranges.
LEMMA FlowStepType ==
  ASSUME LifecycleTypeOK, FlowInv, FlowStep
  PROVE  LifecycleTypeOK'
<1> USE DEF LifecycleTypeOK, runVars, callVars
<1>1. flow' \in FlowType
  BY FlowRecordType
<1>2. /\ flow.stage # "idle" => flow.run \in Runs
      /\ At(TaskStages) => flow.task \in Tasks
      /\ At(CallStages) => flow.call \in Calls
  BY DEF FlowInv
<1>3. CASE FlowPropose
  BY <1>1, <1>2, <1>3 DEF FlowPropose, At, RunStates
<1>4. CASE FlowRevise
  BY <1>1, <1>2, <1>4 DEF FlowRevise, At
<1>5. CASE FlowAcceptPlan
  BY <1>1, <1>2, <1>5 DEF FlowAcceptPlan, At, RunStates, TaskStates
<1>6. CASE FlowEnter
  BY <1>1, <1>2, <1>6 DEF FlowEnter, At
<1>7. CASE FlowStartRun
  BY <1>1, <1>2, <1>7 DEF FlowStartRun, At, RunStates
<1>8. CASE FlowDispatch
  BY <1>1, <1>2, <1>8 DEF FlowDispatch, At, CallStates
<1>9. CASE FlowValidate
  BY <1>1, <1>2, <1>9 DEF FlowValidate, At, TaskStates
<1>10. CASE FlowInvalidReview
  BY <1>1, <1>2, <1>10 DEF FlowInvalidReview, At
<1>11. CASE FlowFail
  BY <1>1, <1>2, <1>11 DEF FlowFail, At, RunStates, TaskStates
<1>12. CASE FlowFinish
  BY <1>1, <1>2, <1>12 DEF FlowFinish, At
<1>13. CASE FlowRecoverScan
  <2>1. flow.run \in Runs /\ RecoverScan(flow.run)
    BY <1>13, <1>2 DEF FlowRecoverScan, At
  <2>2. QED
    BY <1>13, <1>1, <2>1, RecoverScanType DEF FlowRecoverScan, RecoverScan
<1>14. CASE FlowRecoverRelease
  <2>1. flow.run \in Runs /\ RecoverRelease(flow.run)
    BY <1>14, <1>2 DEF FlowRecoverRelease, At
  <2>2. QED
    BY <1>14, <1>1, <2>1, RecoverReleaseType DEF FlowRecoverRelease, RecoverRelease
<1>15. ASSUME NEW t \in Tasks, FlowClaim(t) PROVE LifecycleTypeOK'
  <2>1. ClaimTask(t)
    BY <1>15 DEF FlowClaim
  <2>2. QED
    BY <1>15, <1>1, <2>1, ClaimTaskType DEF FlowClaim, ClaimTask
<1>16. ASSUME NEW c \in Calls, FlowReserve(c) PROVE LifecycleTypeOK'
  BY <1>16, <1>1 DEF FlowReserve, CallStates, Settlements
<1>17. ASSUME NEW state \in CallStates, NEW settled \in Settlements,
             At(CallStages), CompleteCall(state, settled)
      PROVE  LifecycleTypeOK'
  BY <1>17, <1>1, <1>2 DEF CompleteCall
<1>18. ASSUME NEW state \in CallStates, FlowRefuse(state) PROVE LifecycleTypeOK'
  BY <1>18, <1>17 DEF FlowRefuse, At, CallStages, Settlements
<1>19. ASSUME NEW state \in CallStates, NEW settled \in Settlements, FlowReturn(state, settled)
      PROVE  LifecycleTypeOK'
  BY <1>19, <1>17 DEF FlowReturn, At, CallStages
<1>20. CASE AdapterEffect
  BY <1>20, <1>1, <1>2 DEF AdapterEffect, At, CallStages
<1>21. CASE FlowReject
  <2>1. flow.task \in Tasks
    BY <1>21, <1>2 DEF FlowReject, At, TaskStages
  <2>2. <<flow.task, attempts[flow.task], flow.sequence>>
          \in Tasks \X (0..MaxAttempts) \X (0..MaxReviews)
    BY <2>1 DEF FlowType
  <2>3. QED
    BY <1>21, <1>1, <2>2 DEF FlowReject
<1>22. CASE FlowAccept
  <2>1. flow.task \in Tasks
    BY <1>22, <1>2 DEF FlowAccept, At, TaskStages
  <2>2. QED
    BY <1>22, <1>1, <2>1, AcceptType DEF FlowAccept, Producers
<1>23. CASE FlowRaises
  <2>1. flow.run \in Runs
    BY <1>23, <1>2 DEF FlowRaises
  <2>2. CASE At(PlanStages) /\ cancelRequested[flow.run]
    <3>1. SettleCancellation(flow.run)
      BY <1>23, <2>2 DEF FlowRaises
    <3>2. QED
      BY <1>23, <1>1, <2>1, <3>1, SettleType DEF FlowRaises, SettleCancellation
  <2>3. CASE ~(At(PlanStages) /\ cancelRequested[flow.run])
    BY <1>23, <1>1, <2>3 DEF FlowRaises
  <2>4. QED
    BY <2>2, <2>3
<1>24. QED
  BY <1>3, <1>4, <1>5, <1>6, <1>7, <1>8, <1>9, <1>10, <1>11, <1>12, <1>13, <1>14,
     <1>15, <1>16, <1>18, <1>19, <1>20, <1>21, <1>22, <1>23
  DEF FlowStep, FlowCall

\* Commands outside the flow, and a crash, keep the types.
LEMMA OperatorType ==
  ASSUME LifecycleTypeOK, Operator \/ Crash \/ \E r \in Runs : RecoverEnd(r)
  PROVE  LifecycleTypeOK'
<1> USE DEF LifecycleTypeOK, runVars, callVars, daemonVars
<1>1. ASSUME NEW r \in Runs, FlowStart(r) PROVE LifecycleTypeOK'
  <2>1. flow' \in FlowType
    <3>1. {t \in TasksOf(r) : result[t] # None} \subseteq Tasks
      BY DEF TasksOf
    <3>2. PICK stage \in Stages, resumed \in BOOLEAN :
            flow' = [Idle EXCEPT !.stage = stage, !.run = r, !.resumed = resumed,
                                 !.done = {t \in TasksOf(r) : result[t] # None}]
      BY <1>1 DEF FlowStart, Stages, PlanningStages, PlanStages
    <3>3. QED
      <4>1. flow' = [stage |-> stage, run |-> r, task |-> None, call |-> None,
                     done |-> {t \in TasksOf(r) : result[t] # None}, resumed |-> resumed,
                     sequence |-> 0, tries |-> 0]
        BY <3>2 DEF Idle
      <4>2. 0 \in 0..MaxReviews /\ 0 \in 0..MaxTries
        BY RunsAssumption
      <4>3. QED
        BY <3>1, <4>1, <4>2 DEF FlowType
  <2>2. QED
    BY <1>1, <2>1 DEF FlowStart, RunStates
<1>2. ASSUME NEW r \in Runs, Cancel(r) PROVE LifecycleTypeOK'
  BY <1>2 DEF Cancel, RunStates, TaskStates
<1>3. ASSUME NEW r \in Runs, Recover(r) PROVE LifecycleTypeOK'
  <2>1. RecoverScan(r)
    BY <1>3 DEF Recover
  <2>2. QED
    BY <1>3, <2>1, RecoverScanType DEF Recover, RecoverScan
<1>4. ASSUME NEW r \in Runs, OtherEffect(r) PROVE LifecycleTypeOK'
  BY <1>4 DEF OtherEffect
<1>5. ASSUME NEW t \in Tasks, MissionClaim(t) PROVE LifecycleTypeOK'
  <2>1. ClaimTask(t)
    BY <1>5 DEF MissionClaim
  <2>2. QED
    BY <1>5, <2>1, ClaimTaskType DEF MissionClaim, ClaimTask
<1>6. ASSUME NEW r \in Runs, RecoverEnd(r) PROVE LifecycleTypeOK'
  <2>1. RecoverRelease(r)
    BY <1>6 DEF RecoverEnd
  <2>2. QED
    BY <1>6, <2>1, RecoverReleaseType DEF RecoverEnd, RecoverRelease
<1>7. CASE Crash
  <2>1. flow' \in FlowType /\ crashes' \in 0..MaxCrashes
    BY <1>7, RunsAssumption DEF Crash, FlowType, Idle, Stages
  <2>2. QED
    BY <1>7, <2>1 DEF Crash
<1>8. QED
  BY <1>1, <1>2, <1>3, <1>4, <1>5, <1>6, <1>7 DEF Operator

-------------------------------------------------------------------------------
\* The flow holds what its stage needs.
LEMMA FlowStepFlowInv ==
  ASSUME LifecycleTypeOK, FlowInv, FlowStep
  PROVE  FlowInv'
<1> USE DEF LifecycleTypeOK, FlowInv, At, FlowType, PlanningStages, PlanStages, TaskStages,
        CallStages
<1>1. CASE FlowPropose \/ FlowRevise
  BY <1>1 DEF FlowPropose, FlowRevise, TasksOf, runVars
<1>2. CASE FlowAcceptPlan \/ FlowEnter \/ FlowRecoverScan \/ FlowRecoverRelease \/ FlowStartRun
  BY <1>2 DEF FlowAcceptPlan, FlowEnter, FlowRecoverScan, FlowRecoverRelease, FlowStartRun
<1>3. ASSUME NEW t \in Tasks, FlowClaim(t) PROVE FlowInv'
  BY <1>3 DEF FlowClaim
<1>4. ASSUME NEW c \in Calls, FlowReserve(c) PROVE FlowInv'
  BY <1>4 DEF FlowReserve
<1>5. ASSUME NEW state, NEW settled, At(CallStages), CompleteCall(state, settled)
      PROVE  FlowInv'
  BY <1>5 DEF CompleteCall
<1>6. CASE FlowDispatch \/ AdapterEffect \/ FlowValidate \/ FlowInvalidReview \/ FlowFail
  BY <1>6 DEF FlowDispatch, AdapterEffect, FlowValidate, FlowInvalidReview, FlowFail
<1>7. CASE FlowReject \/ FlowAccept
  BY <1>7, ZenonT(60) DEF FlowReject, FlowAccept, NextTask
<1>8. CASE FlowFinish \/ FlowRaises
  BY <1>8 DEF FlowFinish, FlowRaises, Idle
<1>9. QED
  BY <1>1, <1>2, <1>3, <1>4, <1>5, <1>6, <1>7, <1>8
  DEF FlowStep, FlowCall, FlowRefuse, FlowReturn

\* Commands outside the flow, and a crash, keep what the flow remembers consistent.
LEMMA OperatorFlowInv ==
  ASSUME LifecycleTypeOK, FlowInv, Operator \/ Crash \/ \E r \in Runs : RecoverEnd(r)
  PROVE  FlowInv'
<1> USE DEF LifecycleTypeOK, FlowInv, At, PlanningStages, TaskStages, CallStages
<1>1. ASSUME NEW r \in Runs, FlowStart(r) PROVE FlowInv'
  BY <1>1 DEF FlowStart, Idle, TasksOf
<1>2. CASE Crash
  BY <1>2 DEF Crash, Idle
<1>3. ASSUME flow' = flow,
             \A t \in Tasks : taskStatus[t] = "absent" => taskStatus'[t] = "absent"
      PROVE  FlowInv'
  BY <1>3 DEF TasksOf
<1>4. ASSUME NEW r \in Runs, Cancel(r) \/ Recover(r) \/ OtherEffect(r) \/ RecoverEnd(r)
      PROVE  FlowInv'
  <2>1. flow' = flow
    BY <1>4 DEF Cancel, Recover, OtherEffect, RecoverEnd, daemonVars
  <2>2. \A t \in Tasks : taskStatus[t] = "absent" => taskStatus'[t] = "absent"
    BY <1>4 DEF Cancel, Recover, RecoverScan, OtherEffect, RecoverEnd, RecoverRelease,
                Interrupted, runVars
  <2>3. QED
    BY <1>3, <2>1, <2>2
<1>5. ASSUME NEW t \in Tasks, MissionClaim(t) PROVE FlowInv'
  <2>1. flow' = flow
    BY <1>5 DEF MissionClaim, daemonVars
  <2>2. \A u \in Tasks : taskStatus[u] = "absent" => taskStatus'[u] = "absent"
    BY <1>5 DEF MissionClaim, ClaimTask
  <2>3. QED
    BY <1>3, <2>1, <2>2
<1>6. QED
  BY <1>1, <1>2, <1>4, <1>5 DEF Operator

-------------------------------------------------------------------------------
\* A step that writes no call and does not enter a dispatching stage keeps EffectInv.
LEMMA EffectFrame ==
  ASSUME EffectInv, UNCHANGED callVars,
         At({"reserved", "dispatched"})' => UNCHANGED <<flow>>
  PROVE  EffectInv'
BY DEF EffectInv, At, callVars

\* Recovery settles calls without declared effects only.
LEMMA RecoverScanEffect ==
  ASSUME LifecycleTypeOK, EffectInv, NEW r \in Runs, RecoverScan(r),
         At({"reserved", "dispatched"})' => UNCHANGED <<flow>>
  PROVE  EffectInv'
<1>1. \A c \in Declared : /\ callState'[c] = callState[c]
                          /\ settlement'[c] = settlement[c]
                          /\ performed'[c] = performed[c]
  BY RunsAssumption DEF RecoverScan, RetrySafe
<1>2. QED
  BY <1>1 DEF EffectInv, At

\* A declared effect takes place under a dispatched call only, and once.
LEMMA FlowStepEffect ==
  ASSUME LifecycleTypeOK, FlowInv, EffectInv, FlowStep
  PROVE  EffectInv'
<1> USE RunsAssumption
<1>1. CASE FlowPropose \/ FlowRevise \/ FlowAcceptPlan \/ FlowEnter
  BY <1>1, EffectFrame DEF FlowPropose, FlowRevise, FlowAcceptPlan, FlowEnter, At, LifecycleTypeOK, FlowType
<1>2. CASE FlowRecoverRelease \/ FlowStartRun
  BY <1>2, EffectFrame DEF FlowRecoverRelease, FlowStartRun, At, LifecycleTypeOK, FlowType
<1>3. CASE FlowValidate \/ FlowInvalidReview \/ FlowFail \/ FlowFinish
  BY <1>3, EffectFrame DEF FlowValidate, FlowInvalidReview, FlowFail, FlowFinish, Idle, At,
                           LifecycleTypeOK, FlowType
<1>4. CASE FlowReject \/ FlowAccept \/ FlowRaises
  <2>1. UNCHANGED callVars
    BY <1>4 DEF FlowReject, FlowAccept, FlowRaises
  <2>2. ~At({"reserved", "dispatched"})'
    <3>1. CASE FlowReject
      BY <3>1 DEF FlowReject, At, LifecycleTypeOK, FlowType
    <3>2. CASE FlowAccept
      BY <3>2 DEF FlowAccept, NextTask, At, LifecycleTypeOK, FlowType
    <3>3. CASE FlowRaises
      BY <3>3 DEF FlowRaises, Idle, At
    <3>4. QED
      BY <1>4, <3>1, <3>2, <3>3
  <2>3. QED
    BY <2>1, <2>2, EffectFrame
<1>5. ASSUME NEW t \in Tasks, FlowClaim(t) PROVE EffectInv'
  BY <1>5, EffectFrame DEF FlowClaim, At, LifecycleTypeOK, FlowType
<1>6. CASE FlowRecoverScan
  <2>1. flow.run \in Runs /\ RecoverScan(flow.run)
    BY <1>6 DEF FlowRecoverScan, FlowInv, At
  <2>2. ~At({"reserved", "dispatched"})'
    BY <1>6 DEF FlowRecoverScan, At, LifecycleTypeOK, FlowType
  <2>3. QED
    BY <2>1, <2>2, RecoverScanEffect
<1>7. ASSUME NEW c \in Calls, FlowReserve(c) PROVE EffectInv'
  BY <1>7 DEF FlowReserve, EffectInv, At, LifecycleTypeOK, FlowType, RetryableCall
<1>8. ASSUME NEW state \in CallStates, FlowRefuse(state) PROVE EffectInv'
  BY <1>8 DEF FlowRefuse, CompleteCall, EffectInv, FlowInv, At, LifecycleTypeOK, FlowType,
              RetryableCall, CallStages
<1>9. CASE FlowDispatch
  BY <1>9 DEF FlowDispatch, EffectInv, FlowInv, At, LifecycleTypeOK, FlowType, RetryableCall,
              CallStages
<1>10. CASE AdapterEffect
  <2>1. /\ flow.call \in Declared
        /\ performed[flow.call] = 0
        /\ callState[flow.call] = "dispatching"
    BY <1>10 DEF AdapterEffect, EffectInv, At
  <2>2. performed' = [performed EXCEPT ![flow.call] = 1]
    BY <1>10, <2>1 DEF AdapterEffect
  <2>3. ~At({"reserved", "dispatched"})'
    BY <1>10 DEF AdapterEffect, At, LifecycleTypeOK, FlowType
  <2>4. performed \in [Calls -> Nat] /\ UNCHANGED <<callState, settlement>>
    BY <1>10 DEF AdapterEffect, LifecycleTypeOK
  <2>5. QED
    BY <2>1, <2>2, <2>3, <2>4 DEF EffectInv, At, RetryableCall
<1>11. ASSUME NEW state \in CallStates, NEW settled \in Settlements, FlowReturn(state, settled)
       PROVE  EffectInv'
  <2>1. flow.call \in Declared /\ settled = "absent" => performed[flow.call] = 0
    BY <1>11 DEF FlowReturn, SettlementsFor, EffectInv, At
  <2>2. QED
    BY <1>11, <2>1 DEF FlowReturn, CompleteCall, EffectInv, FlowInv, At, LifecycleTypeOK,
                       FlowType, CallStages
<1>12. QED
  BY <1>1, <1>2, <1>3, <1>4, <1>5, <1>6, <1>7, <1>8, <1>9, <1>10, <1>11
  DEF FlowStep, FlowCall

\* Commands outside the flow, and a crash, keep the journal consistent with the effects.
LEMMA OperatorEffect ==
  ASSUME LifecycleTypeOK, FlowInv, EffectInv, Operator \/ Crash \/ \E r \in Runs : RecoverEnd(r)
  PROVE  EffectInv'
<1>1. ASSUME NEW r \in Runs, FlowStart(r) PROVE EffectInv'
  BY <1>1, EffectFrame DEF FlowStart, Idle, At
<1>2. CASE Crash
  BY <1>2, EffectFrame DEF Crash, Idle, At
<1>3. ASSUME NEW r \in Runs, Cancel(r) \/ OtherEffect(r) \/ RecoverEnd(r) PROVE EffectInv'
  BY <1>3, EffectFrame DEF Cancel, OtherEffect, RecoverEnd, daemonVars
<1>4. ASSUME NEW t \in Tasks, MissionClaim(t) PROVE EffectInv'
  BY <1>4, EffectFrame DEF MissionClaim, daemonVars
<1>5. ASSUME NEW r \in Runs, Recover(r) PROVE EffectInv'
  BY <1>5, RecoverScanEffect DEF Recover
<1>6. QED
  BY <1>1, <1>2, <1>3, <1>4, <1>5 DEF Operator

-------------------------------------------------------------------------------
(* Acceptance and eligibility.  Every step but an acceptance is a RowsKept step. *)

\* No task gains or loses acceptance, none leaves "pending" before its dependencies
\* are accepted, and no run becomes completed.
RowsKept ==
  /\ result' = result
  /\ \A t \in Tasks : taskStatus'[t] = "accepted" <=> taskStatus[t] = "accepted"
  /\ \A t \in Tasks : /\ taskStatus'[t] \notin {"absent", "pending", "cancelled"}
                       /\ taskStatus[t] \in {"absent", "pending", "cancelled"}
                       => DependenciesAccepted(taskStatus, t)
  /\ \A r \in Runs : runStatus'[r] = "completed" => runStatus[r] = "completed"

\* Steps that keep accepted rows keep acceptance and dependency order.
LEMMA RowsKeptInv ==
  ASSUME LifecycleTypeOK, DependencyEligibility, DurableAcceptance, RowsKept
  PROVE  DependencyEligibility' /\ DurableAcceptance'
<1>1. ASSUME NEW t \in Tasks, DependenciesAccepted(taskStatus, t)
      PROVE  DependenciesAccepted(taskStatus', t)
  BY <1>1, RunsAssumption DEF DependenciesAccepted, RowsKept
<1>2. DependencyEligibility'
  <2>1. ASSUME NEW t \in Tasks, taskStatus'[t] \notin {"absent", "pending", "cancelled"}
        PROVE  DependenciesAccepted(taskStatus', t)
    BY <1>1, <2>1 DEF RowsKept, DependencyEligibility
  <2>2. QED
    BY <2>1 DEF DependencyEligibility
<1>3. DurableAcceptance'
  BY RunsAssumption DEF DurableAcceptance, RowsKept
<1>4. QED
  BY <1>2, <1>3

\* What the acceptance of t does to the other tasks of its run.
LEMMA AcceptEffect ==
  ASSUME LifecycleTypeOK, NEW t \in Tasks, NEW u \in Tasks
  PROVE  /\ Accept(t)[u] = "accepted" <=> (u = t \/ taskStatus[u] = "accepted")
         /\ Accept(t)[u] # taskStatus[u] /\ u # t
              => /\ Accept(t)[u] = "eligible"
                 /\ \A d \in DependsOn[u] : d = t \/ taskStatus[d] = "accepted"
<1>1. DependsOn[u] \subseteq Tasks
  BY RunsAssumption
<1>2. QED
  BY <1>1 DEF Accept, ReleaseDependents, DependenciesAccepted, LifecycleTypeOK

\* An acceptance keeps both invariants, whoever produced the result.
LEMMA AcceptanceInv ==
  ASSUME LifecycleTypeOK, DependencyEligibility, DurableAcceptance,
         NEW t \in Tasks, NEW producer \in Producers,
         DependenciesAccepted(taskStatus, t),
         taskStatus' = Accept(t), runStatus' = CompleteRun(t),
         result' = [result EXCEPT ![t] = producer]
  PROVE  DependencyEligibility' /\ DurableAcceptance'
<1>1. \A u \in Tasks : DependsOn[u] \subseteq Tasks
  BY RunsAssumption
<1>2. DependencyEligibility'
  <2>1. ASSUME NEW u \in Tasks, taskStatus'[u] \notin {"absent", "pending", "cancelled"}
        PROVE  \A d \in DependsOn[u] : d = t \/ taskStatus[d] = "accepted"
    BY <1>1, <2>1, AcceptEffect DEF DependencyEligibility, DependenciesAccepted
  <2>2. QED
    BY <1>1, <2>1, AcceptEffect DEF DependencyEligibility, DependenciesAccepted
<1>3. \A u \in Tasks : taskStatus'[u] = "accepted" <=> result'[u] # None
  <2>1. producer # None
    BY RunsAssumption
  <2>2. QED
    BY <2>1, AcceptEffect DEF DurableAcceptance, LifecycleTypeOK
<1>4. \A u \in Tasks : runStatus'[RunOf[u]] = "completed" => taskStatus'[u] = "accepted"
  <2>1. ASSUME NEW u \in Tasks, runStatus'[RunOf[u]] = "completed"
        PROVE  taskStatus'[u] = "accepted"
    <3>1. CASE runStatus[RunOf[u]] = "completed"
      BY <3>1, AcceptEffect DEF DurableAcceptance
    <3>2. CASE runStatus[RunOf[u]] # "completed"
      <4>1. /\ \A v \in TasksOf(RunOf[t]) : Accept(t)[v] = "accepted"
            /\ RunOf[u] = RunOf[t]
        BY <2>1, <3>2, RunsAssumption DEF CompleteRun, LifecycleTypeOK
      <4>2. QED
        BY <4>1 DEF TasksOf
    <3>3. QED
      BY <3>1, <3>2
  <2>2. QED
    BY <2>1
<1>5. QED
  BY <1>2, <1>3, <1>4 DEF DurableAcceptance

\* claim_task keeps acceptance and dependency order.
LEMMA ClaimTaskKeeps ==
  ASSUME LifecycleTypeOK, NEW t \in Tasks, ClaimTask(t)
  PROVE  RowsKept
BY DEF LifecycleTypeOK, ClaimTask, RowsKept

\* The release of interrupted tasks keeps acceptance and dependency order.
LEMMA RecoverReleaseKeeps ==
  ASSUME LifecycleTypeOK, NEW r \in Runs, RecoverRelease(r)
  PROVE  RowsKept
<1>1. /\ result' = result
      /\ \A q \in Runs : runStatus'[q] = "completed" => runStatus[q] = "completed"
  BY DEF LifecycleTypeOK, RecoverRelease
<1>2. \A t \in Tasks : \/ taskStatus'[t] = taskStatus[t]
                       \/ /\ taskStatus[t] \in Interrupted
                          /\ taskStatus'[t] = "eligible"
                          /\ DependenciesAccepted(taskStatus, t)
  BY DEF LifecycleTypeOK, RecoverRelease
<1>3. QED
  BY <1>1, <1>2 DEF RowsKept, Interrupted

\* The scan of planned calls leaves tasks and results alone.
LEMMA RecoverScanKeeps ==
  ASSUME LifecycleTypeOK, NEW r \in Runs, RecoverScan(r)
  PROVE  RowsKept
BY DEF LifecycleTypeOK, RecoverScan, RowsKept

\* settle_cancellation keeps acceptance and dependency order.
LEMMA SettleKeeps ==
  ASSUME LifecycleTypeOK, NEW r \in Runs, SettleCancellation(r)
  PROVE  RowsKept
BY DEF LifecycleTypeOK, SettleCancellation, RowsKept, ActiveTask

\* Steps that leave tasks and results alone keep the row invariants.
LEMMA RowsUnchanged ==
  ASSUME LifecycleTypeOK, UNCHANGED runVars
  PROVE  RowsKept
BY DEF LifecycleTypeOK, RowsKept, runVars

\* Every step of the flow but FlowAccept keeps the rows.
LEMMA FlowStepKeeps ==
  ASSUME LifecycleTypeOK, FlowInv, FlowStep
  PROVE  RowsKept \/ FlowAccept
<1> USE RowsUnchanged
<1>1. CASE FlowPropose \/ FlowStartRun
  BY <1>1 DEF FlowPropose, FlowStartRun, RowsKept, LifecycleTypeOK
<1>2. CASE FlowRevise \/ FlowEnter \/ FlowInvalidReview \/ FlowFinish
  BY <1>2 DEF FlowRevise, FlowEnter, FlowInvalidReview, FlowFinish
<1>3. CASE FlowAcceptPlan
  <2>1. \A t \in TasksOf(flow.run) : taskStatus[t] = "absent"
    BY <1>3 DEF FlowAcceptPlan, FlowInv, At, PlanningStages
  <2>2. QED
    BY <1>3, <2>1, RunsAssumption
    DEF FlowAcceptPlan, RowsKept, LifecycleTypeOK, TasksOf, DependenciesAccepted
<1>4. CASE FlowRecoverScan
  BY <1>4, RecoverScanKeeps DEF FlowRecoverScan, FlowInv, At
<1>5. CASE FlowRecoverRelease
  BY <1>5, RecoverReleaseKeeps DEF FlowRecoverRelease, FlowInv, At
<1>6. ASSUME NEW t \in Tasks, FlowClaim(t) PROVE RowsKept
  BY <1>6, ClaimTaskKeeps DEF FlowClaim
<1>7. CASE FlowCall
  BY <1>7 DEF FlowCall, FlowReserve, FlowRefuse, FlowDispatch, AdapterEffect, FlowReturn,
              CompleteCall
<1>8. CASE FlowValidate
  BY <1>8 DEF FlowValidate, RowsKept, LifecycleTypeOK
<1>9. CASE FlowReject
  BY <1>9 DEF FlowReject, RowsKept, LifecycleTypeOK
<1>10. CASE FlowFail
  BY <1>10 DEF FlowFail, RowsKept, LifecycleTypeOK
<1>11. CASE FlowRaises
  <2>1. flow.run \in Runs
    BY <1>11 DEF FlowRaises, FlowInv
  <2>2. SettleCancellation(flow.run) \/ UNCHANGED runVars
    BY <1>11 DEF FlowRaises
  <2>3. QED
    BY <2>1, <2>2, SettleKeeps
<1>12. QED
  BY <1>1, <1>2, <1>3, <1>4, <1>5, <1>6, <1>7, <1>8, <1>9, <1>10, <1>11 DEF FlowStep

\* Commands of the operator, recovery and crashes keep the rows.
LEMMA OperatorKeeps ==
  ASSUME LifecycleTypeOK, Operator \/ Crash \/ \E r \in Runs : RecoverEnd(r)
  PROVE  RowsKept
<1> USE RowsUnchanged
<1>1. ASSUME NEW r \in Runs, FlowStart(r) PROVE RowsKept
  BY <1>1 DEF FlowStart, RowsKept, LifecycleTypeOK
<1>2. ASSUME NEW r \in Runs, Cancel(r) PROVE RowsKept
  BY <1>2 DEF Cancel, RowsKept, LifecycleTypeOK
<1>3. ASSUME NEW r \in Runs, Recover(r) PROVE RowsKept
  BY <1>3, RecoverScanKeeps DEF Recover
<1>4. ASSUME NEW r \in Runs, RecoverEnd(r) PROVE RowsKept
  BY <1>4, RecoverReleaseKeeps DEF RecoverEnd
<1>5. ASSUME NEW r \in Runs, OtherEffect(r) PROVE RowsKept
  BY <1>5 DEF OtherEffect
<1>6. ASSUME NEW t \in Tasks, MissionClaim(t) PROVE RowsKept
  BY <1>6, ClaimTaskKeeps DEF MissionClaim
<1>7. CASE Crash
  BY <1>7 DEF Crash
<1>8. QED
  BY <1>1, <1>2, <1>3, <1>4, <1>5, <1>6, <1>7 DEF Operator

\* FlowAccept is an acceptance in the sense of AcceptanceInv.
LEMMA FlowAcceptInv ==
  ASSUME LifecycleInv, FlowAccept
  PROVE  DependencyEligibility' /\ DurableAcceptance'
<1>1. flow.task \in Tasks
  BY DEF LifecycleInv, FlowInv, FlowAccept, At, TaskStages
<1>2. QED
  BY <1>1, AcceptanceInv DEF LifecycleInv, FlowAccept, Producers

-------------------------------------------------------------------------------
\* Every step of flow, operator, recovery and crash keeps the invariant.
LEMMA StepInv == LifecycleInv /\ [LifecycleNext]_lifecycleVars => LifecycleInv'
<1> SUFFICES ASSUME LifecycleInv, [LifecycleNext]_lifecycleVars
             PROVE  LifecycleInv'
  OBVIOUS
<1>0. /\ LifecycleTypeOK /\ FlowInv /\ EffectInv
      /\ DependencyEligibility /\ DurableAcceptance
  BY DEF LifecycleInv
<1>1. CASE FlowStep
  <2>1. LifecycleTypeOK' /\ FlowInv' /\ EffectInv'
    BY <1>0, <1>1, FlowStepType, FlowStepFlowInv, FlowStepEffect
  <2>2. DependencyEligibility' /\ DurableAcceptance'
    BY <1>0, <1>1, FlowStepKeeps, RowsKeptInv, FlowAcceptInv
  <2>3. QED
    BY <2>1, <2>2 DEF LifecycleInv
<1>2. CASE Operator \/ Crash \/ \E r \in Runs : RecoverEnd(r)
  <2>1. LifecycleTypeOK' /\ FlowInv' /\ EffectInv'
    BY <1>0, <1>2, OperatorType, OperatorFlowInv, OperatorEffect
  <2>2. DependencyEligibility' /\ DurableAcceptance'
    BY <1>0, <1>2, OperatorKeeps, RowsKeptInv
  <2>3. QED
    BY <2>1, <2>2 DEF LifecycleInv
<1>3. CASE UNCHANGED lifecycleVars
  BY <1>0, <1>3 DEF lifecycleVars, runVars, callVars, daemonVars, LifecycleInv, LifecycleTypeOK,
     FlowInv, EffectInv, DependencyEligibility, DependenciesAccepted, DurableAcceptance, At
<1>4. QED
  BY <1>1, <1>2, <1>3 DEF LifecycleNext

\* LifecycleInv is an invariant of every behaviour of the repository, the gateway and
\* the flow.
THEOREM InvHolds == LifecycleSpec => []LifecycleInv
<1>1. Init => LifecycleInv
  BY InitInv
<1>2. LifecycleInv /\ [LifecycleNext]_lifecycleVars => LifecycleInv'
  BY StepInv
<1>3. QED
  BY <1>1, <1>2, PTL DEF LifecycleSpec

\* Every row keeps a value of its range, whatever flow, operator and crashes do.
THEOREM TypeCorrect == LifecycleSpec => []LifecycleTypeOK
<1>1. LifecycleInv => LifecycleTypeOK
  BY DEF LifecycleInv
<1>2. QED
  BY <1>1, InvHolds, PTL

\* The journal of planned calls (reserve_planned_call, mark_planned_call_dispatching,
\* complete_planned_call, recover_interrupted) lets no declared effect happen twice.
THEOREM EffectsHappenOnce == LifecycleSpec => []EffectAtMostOnce
<1>1. LifecycleInv => EffectAtMostOnce
  BY DEF LifecycleInv, EffectInv, EffectAtMostOnce
<1>2. QED
  BY <1>1, InvHolds, PTL

\* A task that left "pending" has its dependencies accepted, for every plan.
THEOREM DependenciesFirst == LifecycleSpec => []DependencyEligibility
<1>1. LifecycleInv => DependencyEligibility
  BY DEF LifecycleInv
<1>2. QED
  BY <1>1, InvHolds, PTL

\* Acceptance and result agree, and a completed run has every task accepted.
THEOREM AcceptanceDurable == LifecycleSpec => []DurableAcceptance
<1>1. LifecycleInv => DurableAcceptance
  BY DEF LifecycleInv
<1>2. QED
  BY <1>1, InvHolds, PTL

\* No step replaces or loses an accepted result.
LEMMA ResultKept ==
  ASSUME LifecycleInv, [LifecycleNext]_lifecycleVars
  PROVE  \A t \in Tasks : result[t] # None
            => result'[t] = result[t] /\ taskStatus'[t] = "accepted"
<1>1. LifecycleTypeOK /\ FlowInv /\ DurableAcceptance
  BY DEF LifecycleInv
<1>2. CASE RowsKept
  BY <1>1, <1>2 DEF RowsKept, DurableAcceptance
<1>3. CASE FlowAccept
  <2>1. flow.task \in Tasks
    BY <1>1, <1>3 DEF FlowInv, FlowAccept, At, TaskStages
  <2>2. QED
    BY <1>1, <1>3, <2>1, AcceptEffect DEF FlowAccept, DurableAcceptance, LifecycleTypeOK
<1>4. CASE UNCHANGED lifecycleVars
  BY <1>1, <1>4, RowsUnchanged, <1>2 DEF lifecycleVars
<1>5. QED
  BY <1>1, <1>2, <1>3, <1>4, FlowStepKeeps, OperatorKeeps DEF LifecycleNext

\* Cancellation, recovery, crashes and other producers leave accepted results alone.
THEOREM ResultsStable == LifecycleSpec => AcceptedResultStable
<1>1. LifecycleInv /\ [LifecycleNext]_lifecycleVars =>
        [\A t \in Tasks : result[t] # None
           => result'[t] = result[t] /\ taskStatus'[t] = "accepted"]_lifecycleVars
  BY ResultKept
<1>2. QED
  BY <1>1, InvHolds, PTL DEF LifecycleSpec, AcceptedResultStable
===============================================================================
