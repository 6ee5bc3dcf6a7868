----------------------------- MODULE RunLifecycle -----------------------------
(***************************************************************************)
(* The durable run: LocalRunRepository (persistence/sqlite.py), the        *)
(* planned-call journal that CapabilityGateway (tools/gateway.py) keeps in  *)
(* it, and the one CrewAI flow (crewai/flow.py) the daemon executes at a    *)
(* time under run_execution_lock (daemon/api.py).                           *)
(*                                                                         *)
(* Every repository method is one SQLite transaction and one action here,  *)
(* except recover_interrupted, which is two.  A method that raises rolls    *)
(* back: a refused call is a guard that is false, and the exception the     *)
(* flow then sees is FlowRaises.  What an LLM, a validator or an adapter    *)
(* answers is a nondeterministic choice.                                   *)
(***************************************************************************)
EXTENDS Naturals, FiniteSets

CONSTANTS
  Runs,         \* durable runs (RunRow)
  Tasks,        \* tasks of the accepted plans (TaskRow)
  Calls,        \* planned tool calls of the tasks (PlannedToolCallRow)
  None,         \* no task, no call, no result
  RunOf,        \* the run a task belongs to
  DependsOn,    \* PlanTask.depends_on: tasks of the same run
  TaskOf,       \* the task a planned call belongs to
  Declared,     \* the calls that declare a state-changing effect
  MaxAttempts,  \* bound on attempt_count
  MaxReviews,   \* coordinator.review_retries + 1
  MaxTries,     \* crewai.max_agent_iterations: tool calls one agent may make
  MaxCrashes    \* bound on daemon crashes

\* Who may produce the accepted result of a task.
Producers == {"flow", "worker"}

ASSUME RunsAssumption ==
  /\ RunOf \in [Tasks -> Runs]
  /\ DependsOn \in [Tasks -> SUBSET Tasks]
  /\ \A t \in Tasks : \A d \in DependsOn[t] : RunOf[d] = RunOf[t]
  /\ TaskOf \in [Calls -> Tasks]
  /\ Declared \subseteq Calls
  /\ None \notin Runs \cup Tasks \cup Calls \cup Producers
  /\ MaxAttempts \in Nat \ {0}
  /\ MaxReviews \in Nat \ {0}
  /\ MaxTries \in Nat
  /\ MaxCrashes \in Nat

VARIABLES
  runStatus,        \* RunRow.status, "absent" before start_or_resume
  cancelRequested,  \* RunRow.cancellation_requested
  taskStatus,       \* TaskRow.status, "absent" before accept_plan
  attempts,         \* TaskRow.attempt_count
  result,           \* the producer of the task's ResultRow, or None
  rejections,       \* ReviewRejectionRow: <<task, attempt, review sequence>>
  callState,        \* PlannedToolCallRow.state
  settlement,       \* PlannedToolCallRow.effect_settlement
  performed,        \* how often the declared effect of a call took place
  otherEffects,     \* runs with an unresolved session, browser or MCP call
  recovering,       \* runs whose run.recover is between its transactions
  flow,             \* the flow in memory
  crashes           \* daemon crashes so far

runVars == <<runStatus, cancelRequested, taskStatus, attempts, result, rejections>>
callVars == <<callState, settlement, performed>>
daemonVars == <<otherEffects, recovering, flow, crashes>>
lifecycleVars == <<runVars, callVars, daemonVars>>

RunStates == {"absent", "planning", "awaiting_approval", "queued", "running",
              "blocked", "cancelling", "completed", "failed", "cancelled"}
TaskStates == {"absent", "pending", "eligible", "leased", "executing",
               "validating", "accepted", "rejected", "failed", "cancelled"}
CallStates == {"absent", "reserved", "dispatching", "completed", "failed",
               "cancelled", "refused", "uncertain"}
Settlements == {"none", "absent", "completed", "uncertain"}

ActiveTask == {"leased", "executing", "validating"}
Interrupted == {"executing", "validating", "rejected", "failed"}
RetryableCall == {"failed", "cancelled", "refused"}

\* Where the flow is: establish_plan is the first two stages after "idle".
PlanningStages == {"proposing", "approving"}
CallStages == {"reserved", "dispatched", "performed"}
TaskStages == {"executing", "validating", "failing"} \cup CallStages
PlanStages == {"entering", "resuming", "releasing", "starting", "choosing", "raising"}
              \cup TaskStages
Stages == {"idle"} \cup PlanningStages \cup PlanStages

Idle == [stage |-> "idle", run |-> None, task |-> None, call |-> None,
         done |-> {}, resumed |-> FALSE, sequence |-> 0, tries |-> 0]

FlowType == [stage : Stages, run : Runs \cup {None}, task : Tasks \cup {None},
             call : Calls \cup {None}, done : SUBSET Tasks, resumed : BOOLEAN,
             sequence : 0..MaxReviews, tries : 0..MaxTries]

-------------------------------------------------------------------------------
TasksOf(r) == {t \in Tasks : RunOf[t] = r}
CallsOf(t) == {c \in Calls : TaskOf[c] = t}
CallsOfRun(r) == {c \in Calls : RunOf[TaskOf[c]] = r}

\* _dependencies_accepted, read from a task-status function.
DependenciesAccepted(status, t) == \A d \in DependsOn[t] : status[d] = "accepted"

\* _release_dependents after task t was accepted.
ReleaseDependents(status, r) ==
  [t \in Tasks |-> IF /\ RunOf[t] = r
                      /\ status[t] = "pending"
                      /\ DependenciesAccepted(status, t)
                   THEN "eligible" ELSE status[t]]

\* The task statuses after the acceptance of t, its dependents released.
Accept(t) == ReleaseDependents([taskStatus EXCEPT ![t] = "accepted"], RunOf[t])

\* Mutant of CompleteRun: a run without active tasks counts as completed.
CompleteRunWhenIdle(t) ==
  IF \A u \in TasksOf(RunOf[t]) : Accept(t)[u] \notin ActiveTask
  THEN [runStatus EXCEPT ![RunOf[t]] = "completed"]
  ELSE runStatus

\* The run status after the acceptance of t: completed when no task is left.
CompleteRun(t) ==
  IF \A u \in TasksOf(RunOf[t]) : Accept(t)[u] = "accepted"
  THEN [runStatus EXCEPT ![RunOf[t]] = "completed"]
  ELSE runStatus

\* _unresolved_durable_effects, read from the call states and settlements.
Unresolved(r, states, settled) ==
  \/ r \in otherEffects
  \/ \E c \in CallsOfRun(r) :
        states[c] \in {"dispatching", "uncertain"} \/ settled[c] = "uncertain"

-------------------------------------------------------------------------------
(* Repository methods, as conditions and updates of the run's rows. *)

\* Mutant of SettleCancellation: a task under validation is overlooked.
SettleAllButValidating(r) ==
  /\ cancelRequested[r]
  /\ taskStatus' = [t \in Tasks |->
       IF RunOf[t] = r /\ taskStatus[t] \in {"pending", "eligible", "leased", "executing"}
       THEN "cancelled" ELSE taskStatus[t]]
  /\ runStatus' = [runStatus EXCEPT ![r] = "cancelled"]
  /\ UNCHANGED <<cancelRequested, attempts, result, rejections>>

\* settle_cancellation: every task that is not final is cancelled with its run.
SettleCancellation(r) ==
  /\ cancelRequested[r]
  /\ IF runStatus[r] = "cancelled"
     THEN UNCHANGED <<runStatus, taskStatus>>
     ELSE /\ taskStatus' = [t \in Tasks |->
               IF /\ RunOf[t] = r
                  /\ taskStatus[t] \in {"pending", "eligible"} \cup ActiveTask
               THEN "cancelled" ELSE taskStatus[t]]
          /\ runStatus' = [runStatus EXCEPT ![r] = "cancelled"]
  /\ UNCHANGED <<cancelRequested, attempts, result, rejections>>

\* claim_task: an eligible task of a running, uncancelled run starts executing.
ClaimTask(t) ==
  /\ runStatus[RunOf[t]] = "running"
  /\ ~cancelRequested[RunOf[t]]
  /\ taskStatus[t] = "eligible"
  /\ attempts[t] < MaxAttempts
  /\ taskStatus' = [taskStatus EXCEPT ![t] = "executing"]
  /\ attempts' = [attempts EXCEPT ![t] = @ + 1]
  /\ UNCHANGED <<runStatus, cancelRequested, result, rejections>>

\* Mutant of RetrySafe: any interrupted call counts as retry-safe.
RetryAnything(r) == {c \in CallsOfRun(r) : callState[c] = "dispatching"}

\* The interrupted calls without declared effects that recovery may retry.
RetrySafe(r) == {c \in CallsOfRun(r) : callState[c] = "dispatching" /\ c \notin Declared}

\* recover_interrupted, first transaction: reconcile the retry-safe calls, and
\* block the run, whatever its status, when an effect stays unresolved.
RecoverScan(r) ==
  /\ runStatus[r] # "absent"
  /\ callState' = [c \in Calls |-> IF c \in RetrySafe(r) THEN "failed" ELSE callState[c]]
  /\ settlement' = [c \in Calls |-> IF c \in RetrySafe(r) THEN "absent" ELSE settlement[c]]
  /\ runStatus' = IF Unresolved(r, callState', settlement')
                  THEN [runStatus EXCEPT ![r] = "blocked"] ELSE runStatus
  /\ UNCHANGED <<cancelRequested, taskStatus, attempts, result, rejections, performed>>

\* recover_interrupted, second transaction: resume the run, release its tasks.
RecoverRelease(r) ==
  /\ IF cancelRequested[r]
     THEN UNCHANGED <<runStatus, taskStatus>>
     ELSE /\ runStatus' = IF runStatus[r] \in {"blocked", "failed"}
                          THEN [runStatus EXCEPT ![r] = "running"] ELSE runStatus
          /\ taskStatus' = [t \in Tasks |->
               IF /\ RunOf[t] = r
                  /\ taskStatus[t] \in Interrupted
                  /\ DependenciesAccepted(taskStatus, t)
               THEN "eligible" ELSE taskStatus[t]]
  /\ UNCHANGED <<cancelRequested, attempts, result, rejections>>

-------------------------------------------------------------------------------
(* Commands of the operator.  run.cancel and run.recover of one run exclude  *)
(* each other (target_effect_locks); neither excludes the flow.              *)

\* Mutant of Cancel: the tasks already accepted are cancelled too.
CancelAccepted(r) ==
  /\ runStatus[r] \notin {"absent", "completed", "cancelled"}
  /\ r \notin recovering
  /\ cancelRequested' = [cancelRequested EXCEPT ![r] = TRUE]
  /\ taskStatus' = [t \in Tasks |->
       IF RunOf[t] = r /\ taskStatus[t] \notin ActiveTask THEN "cancelled" ELSE taskStatus[t]]
  /\ runStatus' = [runStatus EXCEPT ![r] = "cancelling"]
  /\ UNCHANGED <<attempts, result, rejections, callVars, daemonVars>>

\* run.cancel: cancel_run.
Cancel(r) ==
  /\ runStatus[r] \notin {"absent", "completed", "cancelled"}
  /\ r \notin recovering
  /\ cancelRequested' = [cancelRequested EXCEPT ![r] = TRUE]
  /\ taskStatus' = [t \in Tasks |->
       IF RunOf[t] = r /\ taskStatus[t] \in {"pending", "eligible"}
       THEN "cancelled" ELSE taskStatus[t]]
  /\ runStatus' = [runStatus EXCEPT ![r] =
       IF \E t \in TasksOf(r) : taskStatus[t] \in ActiveTask
       THEN "cancelling" ELSE "cancelled"]
  /\ UNCHANGED <<attempts, result, rejections, callVars, daemonVars>>

\* run.recover, first transaction; it raises when an effect is unresolved.
Recover(r) ==
  /\ r \notin recovering
  /\ RecoverScan(r)
  /\ recovering' = IF Unresolved(r, callState', settlement')
                   THEN recovering ELSE recovering \cup {r}
  /\ UNCHANGED <<otherEffects, flow, crashes>>

\* run.recover, second transaction.
RecoverEnd(r) ==
  /\ r \in recovering
  /\ RecoverRelease(r)
  /\ recovering' = recovering \ {r}
  /\ UNCHANGED <<callVars, otherEffects, flow, crashes>>

\* mission.task.claim: MissionTaskClaimService.claim takes the task outside the flow.
MissionClaim(t) ==
  /\ ClaimTask(t)
  /\ UNCHANGED <<callVars, daemonVars>>

\* A stateful session, browser or MCP call bound to the run opens unresolved,
\* or is settled, by the services that own it.
OtherEffect(r) ==
  /\ runStatus[r] # "absent"
  /\ \/ otherEffects' = otherEffects \cup {r}
     \/ otherEffects' = otherEffects \ {r}
  /\ UNCHANGED <<runVars, callVars, recovering, flow, crashes>>

\* The daemon stops at any point and restarts: what it held in memory is lost.
Crash ==
  /\ crashes < MaxCrashes
  /\ crashes' = crashes + 1
  /\ flow' = Idle
  /\ recovering' = {}
  /\ UNCHANGED <<runVars, callVars, otherEffects>>

-------------------------------------------------------------------------------
(* The flow.  _require_not_cancelled before a repository call that commutes  *)
(* with cancel_run is the guard ~cancelRequested of that call.               *)

At(stages) == flow.stage \in stages

\* run.initialize: start_or_resume, then kickoff with what the snapshot holds.
FlowStart(r) ==
  /\ At({"idle"})
  /\ runStatus' = [runStatus EXCEPT ![r] = IF @ = "absent" THEN "planning" ELSE @]
  /\ flow' = [Idle EXCEPT
       !.stage = IF \A t \in TasksOf(r) : taskStatus[t] = "absent"
                 THEN "proposing" ELSE "entering",
       !.run = r,
       !.resumed = runStatus[r] # "absent",
       !.done = {t \in TasksOf(r) : result[t] # None}]
  /\ UNCHANGED <<cancelRequested, taskStatus, attempts, result, rejections, callVars,
                 otherEffects, recovering, crashes>>

\* establish_plan: a candidate plan crosses the approval boundary.
FlowPropose ==
  /\ At({"proposing"})
  /\ runStatus[flow.run] \in {"planning", "awaiting_approval"}
  /\ runStatus' = [runStatus EXCEPT ![flow.run] = "awaiting_approval"]
  /\ flow' = [flow EXCEPT !.stage = "approving"]
  /\ UNCHANGED <<cancelRequested, taskStatus, attempts, result, rejections, callVars,
                 otherEffects, recovering, crashes>>

\* establish_plan: the validator rejects the plan and another one is proposed.
FlowRevise ==
  /\ At({"approving"})
  /\ flow' = [flow EXCEPT !.stage = "proposing"]
  /\ UNCHANGED <<runVars, callVars, otherEffects, recovering, crashes>>

\* Mutant of FlowAcceptPlan: every task starts eligible.
FlowAcceptPlanFlat ==
  /\ At({"approving"})
  /\ taskStatus' = [t \in Tasks |-> IF RunOf[t] = flow.run THEN "eligible" ELSE taskStatus[t]]
  /\ runStatus' = [runStatus EXCEPT ![flow.run] = "queued"]
  /\ flow' = [flow EXCEPT !.stage = "entering"]
  /\ UNCHANGED <<cancelRequested, attempts, result, rejections, callVars,
                 otherEffects, recovering, crashes>>

\* accept_plan: no look at the run's status or its cancellation.
FlowAcceptPlan ==
  /\ At({"approving"})
  /\ taskStatus' = [t \in Tasks |->
       IF RunOf[t] = flow.run
       THEN IF DependsOn[t] = {} THEN "eligible" ELSE "pending"
       ELSE taskStatus[t]]
  /\ runStatus' = [runStatus EXCEPT ![flow.run] = "queued"]
  /\ flow' = [flow EXCEPT !.stage = "entering"]
  /\ UNCHANGED <<cancelRequested, attempts, result, rejections, callVars,
                 otherEffects, recovering, crashes>>

\* _execute_plan: the first cancellation boundary.
FlowEnter ==
  /\ At({"entering"})
  /\ ~cancelRequested[flow.run]
  /\ flow' = [flow EXCEPT !.stage = IF flow.resumed THEN "resuming" ELSE "starting"]
  /\ UNCHANGED <<runVars, callVars, otherEffects, recovering, crashes>>

FlowRecoverScan ==
  /\ At({"resuming"})
  /\ RecoverScan(flow.run)
  /\ flow' = [flow EXCEPT !.stage = IF Unresolved(flow.run, callState', settlement')
                                    THEN "raising" ELSE "releasing"]
  /\ UNCHANGED <<otherEffects, recovering, crashes>>

FlowRecoverRelease ==
  /\ At({"releasing"})
  /\ RecoverRelease(flow.run)
  /\ flow' = [flow EXCEPT !.stage = "starting"]
  /\ UNCHANGED <<callVars, otherEffects, recovering, crashes>>

\* start_run: a no-op for a running or completed run.
FlowStartRun ==
  /\ At({"starting"})
  /\ runStatus[flow.run] \in {"queued", "running", "completed"}
  /\ runStatus' = [runStatus EXCEPT ![flow.run] = IF @ = "queued" THEN "running" ELSE @]
  /\ flow' = [flow EXCEPT !.stage = "choosing"]
  /\ UNCHANGED <<cancelRequested, taskStatus, attempts, result, rejections, callVars,
                 otherEffects, recovering, crashes>>

\* The next ready task, by what this flow knows to be complete.
FlowClaim(t) ==
  /\ At({"choosing"})
  /\ t \in TasksOf(flow.run) \ flow.done
  /\ DependsOn[t] \subseteq flow.done
  /\ ClaimTask(t)
  /\ flow' = [flow EXCEPT !.stage = "executing", !.task = t, !.sequence = 1]
  /\ UNCHANGED <<callVars, otherEffects, recovering, crashes>>

\* reserve_planned_call: new, unfinished, or ended with the effect proved absent.
\* A completed call is replayed from its row and changes nothing.
FlowReserve(c) ==
  /\ At({"executing"})
  /\ c \in CallsOf(flow.task)
  /\ flow.tries < MaxTries
  /\ \/ callState[c] \in {"absent", "reserved"}
     \/ callState[c] \in RetryableCall /\ settlement[c] = "absent"
  /\ callState' = [callState EXCEPT ![c] = "reserved"]
  /\ settlement' = [settlement EXCEPT ![c] = "none"]
  /\ flow' = [flow EXCEPT !.stage = "reserved", !.call = c, !.tries = @ + 1]
  /\ UNCHANGED <<runVars, performed, otherEffects, recovering, crashes>>

\* complete_planned_call: the terminal state and settlement of the flow's call.
CompleteCall(state, settled) ==
  /\ callState[flow.call] \in {"reserved", "dispatching"}
  /\ callState' = [callState EXCEPT ![flow.call] = state]
  /\ settlement' = [settlement EXCEPT ![flow.call] = settled]
  /\ flow' = [flow EXCEPT !.stage = "executing", !.call = None]
  /\ UNCHANGED <<runVars, performed, otherEffects, recovering, crashes>>

\* The gateway stops before dispatch: cancelled, refused or failed, no effect.
FlowRefuse(state) ==
  /\ At({"reserved"})
  /\ state \in RetryableCall
  /\ CompleteCall(state, "absent")

\* mark_planned_call_dispatching, immediately before the adapter is invoked.
FlowDispatch ==
  /\ At({"reserved"})
  /\ ~cancelRequested[flow.run]
  /\ callState[flow.call] = "reserved"
  /\ callState' = [callState EXCEPT ![flow.call] = "dispatching"]
  /\ flow' = [flow EXCEPT !.stage = "dispatched"]
  /\ UNCHANGED <<runVars, settlement, performed, otherEffects, recovering, crashes>>

\* The adapter brings the declared effect about.
AdapterEffect ==
  /\ At({"dispatched"})
  /\ flow.call \in Declared
  /\ performed' = [performed EXCEPT ![flow.call] = @ + 1]
  /\ flow' = [flow EXCEPT !.stage = "performed"]
  /\ UNCHANGED <<runVars, callState, settlement, otherEffects, recovering, crashes>>

\* What _effect_settlement and the exception handlers of invoke may settle: no
\* declared effect is absent; a declared one is completed or uncertain, or is
\* absent when the adapter observed, truthfully, that it did not happen.
SettlementsFor(state) ==
  IF flow.call \notin Declared THEN {"absent"}
  ELSE {"uncertain"} \cup (IF state = "completed" THEN {"completed"} ELSE {})
                     \cup (IF At({"dispatched"}) THEN {"absent"} ELSE {})

\* The adapter returned, raised or timed out after dispatch.
FlowReturn(state, settled) ==
  /\ At({"dispatched", "performed"})
  /\ state \in {"completed", "failed", "cancelled", "uncertain", "refused"}
  /\ settled \in SettlementsFor(state)
  /\ CompleteCall(state, settled)

\* All planned calls completed: mark_validating.
FlowValidate ==
  /\ At({"executing"})
  /\ \A c \in CallsOf(flow.task) : callState[c] = "completed"
  /\ ~cancelRequested[flow.run]
  /\ taskStatus[flow.task] = "executing"
  /\ taskStatus' = [taskStatus EXCEPT ![flow.task] = "validating"]
  /\ flow' = [flow EXCEPT !.stage = "validating"]
  /\ UNCHANGED <<runStatus, cancelRequested, attempts, result, rejections, callVars,
                 otherEffects, recovering, crashes>>

\* record_rejected_review: evidence first, then another synthesis or the failure.
FlowReject ==
  LET evidence == <<flow.task, attempts[flow.task], flow.sequence>> IN
  /\ At({"validating"})
  /\ ~cancelRequested[flow.run]
  /\ taskStatus[flow.task] = "validating"
  /\ evidence \notin rejections
  /\ rejections' = rejections \cup {evidence}
  /\ flow' = IF flow.sequence < MaxReviews
             THEN [flow EXCEPT !.sequence = @ + 1]
             ELSE [flow EXCEPT !.stage = "failing"]
  /\ UNCHANGED <<runStatus, cancelRequested, taskStatus, attempts, result, callVars,
                 otherEffects, recovering, crashes>>

\* The accepting review keeps breaking its contract.
FlowInvalidReview ==
  /\ At({"validating"})
  /\ ~cancelRequested[flow.run]
  /\ flow' = [flow EXCEPT !.stage = "failing"]
  /\ UNCHANGED <<runVars, callVars, otherEffects, recovering, crashes>>

\* mark_task_failure(rejected=True): the run fails whatever its status.
FlowFail ==
  /\ At({"failing"})
  /\ taskStatus[flow.task] \in {"executing", "validating"}
  /\ taskStatus' = [taskStatus EXCEPT ![flow.task] = "rejected"]
  /\ runStatus' = [runStatus EXCEPT ![flow.run] = "failed"]
  /\ flow' = [flow EXCEPT !.stage = "raising"]
  /\ UNCHANGED <<cancelRequested, attempts, result, rejections, callVars,
                 otherEffects, recovering, crashes>>

NextTask == [flow EXCEPT !.stage = "choosing", !.task = None, !.sequence = 0, !.tries = 0,
                         !.done = @ \cup {flow.task}]

\* accept_result: the result, its review, the acceptance and the release of the
\* dependents are one transaction.  Its duplicate branch needs a second producer,
\* and the flow is the only caller in its store.
FlowAccept ==
  /\ At({"validating"})
  /\ result[flow.task] = None
  /\ ~cancelRequested[flow.run]
  /\ DependenciesAccepted(taskStatus, flow.task)
  /\ taskStatus[flow.task] = "validating"
  /\ result' = [result EXCEPT ![flow.task] = "flow"]
  /\ taskStatus' = Accept(flow.task)
  /\ runStatus' = CompleteRun(flow.task)
  /\ flow' = NextTask
  /\ UNCHANGED <<cancelRequested, attempts, rejections, callVars,
                 otherEffects, recovering, crashes>>

\* Every task is complete: the report is returned.
FlowFinish ==
  /\ At({"choosing"})
  /\ TasksOf(flow.run) \subseteq flow.done
  /\ flow' = Idle
  /\ UNCHANGED <<runVars, callVars, otherEffects, recovering, crashes>>

\* An exception ends the flow: a refused repository call, a cancellation boundary,
\* a model or tool failure.  Only execute_plan settles a requested cancellation.
FlowRaises ==
  /\ flow.stage # "idle"
  /\ flow' = Idle
  /\ IF At(PlanStages) /\ cancelRequested[flow.run]
     THEN SettleCancellation(flow.run)
     ELSE UNCHANGED runVars
  /\ UNCHANGED <<callVars, otherEffects, recovering, crashes>>

-------------------------------------------------------------------------------
Init ==
  /\ runStatus = [r \in Runs |-> "absent"]
  /\ cancelRequested = [r \in Runs |-> FALSE]
  /\ taskStatus = [t \in Tasks |-> "absent"]
  /\ attempts = [t \in Tasks |-> 0]
  /\ result = [t \in Tasks |-> None]
  /\ rejections = {}
  /\ callState = [c \in Calls |-> "absent"]
  /\ settlement = [c \in Calls |-> "none"]
  /\ performed = [c \in Calls |-> 0]
  /\ otherEffects = {}
  /\ recovering = {}
  /\ flow = Idle
  /\ crashes = 0

FlowCall ==
  \/ \E c \in Calls : FlowReserve(c)
  \/ \E s \in CallStates : FlowRefuse(s)
  \/ FlowDispatch
  \/ AdapterEffect
  \/ \E s \in CallStates, e \in Settlements : FlowReturn(s, e)

FlowStep ==
  \/ FlowPropose \/ FlowRevise \/ FlowAcceptPlan
  \/ FlowEnter \/ FlowRecoverScan \/ FlowRecoverRelease \/ FlowStartRun
  \/ \E t \in Tasks : FlowClaim(t)
  \/ FlowCall
  \/ FlowValidate \/ FlowReject \/ FlowInvalidReview \/ FlowFail \/ FlowAccept
  \/ FlowFinish \/ FlowRaises

Operator ==
  \/ \E r \in Runs : FlowStart(r) \/ Cancel(r) \/ Recover(r) \/ OtherEffect(r)
  \/ \E t \in Tasks : MissionClaim(t)

LifecycleNext ==
  \/ FlowStep
  \/ Operator
  \/ \E r \in Runs : RecoverEnd(r)
  \/ Crash

LifecycleSpec == Init /\ [][LifecycleNext]_lifecycleVars

\* The flow's thread keeps running until it returns or raises, and a run.recover
\* in progress finishes.  Nothing obliges an operator to issue a command.
LifecycleFairness ==
  /\ WF_lifecycleVars(FlowStep)
  /\ WF_lifecycleVars(\E r \in Runs : RecoverEnd(r))

LifecycleFairSpec == LifecycleSpec /\ LifecycleFairness

-------------------------------------------------------------------------------
(* Properties *)

\* Every row and the flow hold values of their declared ranges.
LifecycleTypeOK ==
  /\ runStatus \in [Runs -> RunStates]
  /\ cancelRequested \in [Runs -> BOOLEAN]
  /\ taskStatus \in [Tasks -> TaskStates]
  /\ attempts \in [Tasks -> 0..MaxAttempts]
  /\ result \in [Tasks -> Producers \cup {None}]
  /\ rejections \subseteq Tasks \X (0..MaxAttempts) \X (0..MaxReviews)
  /\ callState \in [Calls -> CallStates]
  /\ settlement \in [Calls -> Settlements]
  /\ performed \in [Calls -> Nat]
  /\ otherEffects \subseteq Runs
  /\ recovering \subseteq Runs
  /\ flow \in FlowType
  /\ crashes \in 0..MaxCrashes

\* INV-030: a declared effect takes place at most once, through crashes, recovery,
\* retried reservations and uncertain returns (reserve_planned_call dispatches
\* again only what a terminal settlement proved absent).
EffectAtMostOnce == \A c \in Declared : performed[c] <= 1

\* INV-009: a task that left "pending" other than by cancellation has every
\* dependency durably accepted, however it was released (accept_plan,
\* _release_dependents, recover_interrupted).
DependencyEligibility ==
  \A t \in Tasks : taskStatus[t] \notin {"absent", "pending", "cancelled"}
                      => DependenciesAccepted(taskStatus, t)

\* INV-012: a task is accepted exactly when its result row exists, and a run is
\* completed only with every one of its tasks accepted.
DurableAcceptance ==
  /\ \A t \in Tasks : taskStatus[t] = "accepted" <=> result[t] # None
  /\ \A t \in Tasks : runStatus[RunOf[t]] = "completed" => taskStatus[t] = "accepted"

\* INV-013, INV-018: an accepted result is never replaced or lost, whatever
\* cancellation, recovery or another producer does later.
AcceptedResultStable ==
  [][\A t \in Tasks : result[t] # None
        => result'[t] = result[t] /\ taskStatus'[t] = "accepted"]_lifecycleVars

\* RUN-011: an active task of a cancelled run whose flow is past planning does not
\* stay active unless the daemon stops: every path out of execute_plan settles the
\* cancellation.
CancellationSettles ==
  \A t \in Tasks : \A n \in 0..MaxCrashes :
    (/\ flow.run = RunOf[t] /\ At(PlanStages) /\ crashes = n
     /\ cancelRequested[RunOf[t]] /\ taskStatus[t] \in ActiveTask)
      ~> (taskStatus[t] \notin ActiveTask \/ crashes > n)

-------------------------------------------------------------------------------
(* What the documentation says and the code does not do. *)

\* recover_interrupted: work is released only when every planned effect of its run
\* is proven retry-safe.
ReleaseOnlyRetrySafe ==
  [][\A t \in Tasks : taskStatus[t] \in Interrupted /\ taskStatus'[t] = "eligible"
        => \A c \in CallsOfRun(RunOf[t]) : callState[c] # "dispatching"]_lifecycleVars
===============================================================================
