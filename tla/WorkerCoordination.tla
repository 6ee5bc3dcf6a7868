-------------------------- MODULE WorkerCoordination --------------------------
(***************************************************************************)
(* WorkerCoordinationRepository (workers/coordination.py): placements,      *)
(* leases, envelopes and completions of remote tasks, in the shared store   *)
(* of distributed mode, where run.cancel, run.recover and                   *)
(* mission.task.claim act on the same run and task rows.                    *)
(*                                                                         *)
(* Distributed mode requires PostgreSQL while the flow of run.initialize    *)
(* keeps its own SQLite file, so no flow runs here: a run enters the store  *)
(* planned and running.  An envelope is identified by its task and attempt  *)
(* (UNIQUE(task_row_id, task_attempt)) and has one lease (envelope_id       *)
(* unique), so both are the pair <<task, attempt>>.  A deadline is a timer  *)
(* counting down to 0, the point at which "expires_at <= now".              *)
(***************************************************************************)
EXTENDS RunLifecycle

CONSTANTS
  Workers,         \* enrolled worker identities
  Capacity,        \* concurrency a worker may use, already bounded by configuration
  Compatible,      \* the workers that satisfy a placement's requirements
  Preferred,       \* preferred_worker_id of a placement, or None
  Stateful,        \* tasks placed with stateful_effects
  Rank,            \* order of the placement queue: created_at, id
  Submissions,     \* completion identities a worker may use for one envelope
  HeartbeatTicks,  \* heartbeat_timeout_seconds
  LeaseTicks,      \* lease_seconds
  TaskTicks,       \* resources.timeout_seconds
  PlacementTicks   \* time from placement to its deadline

Leases == Tasks \X (1..MaxAttempts)

ASSUME WorkersAssumption ==
  /\ Capacity \in [Workers -> Nat]
  /\ Compatible \in [Tasks -> SUBSET Workers]
  /\ Preferred \in [Tasks -> Workers \cup {None}]
  /\ None \notin Workers \cup (Leases \X Submissions)
  /\ Stateful \subseteq Tasks
  /\ Rank \in [Tasks -> Nat]
  /\ \A t, u \in Tasks : Rank[t] = Rank[u] => t = u
  /\ HeartbeatTicks \in Nat \ {0}
  /\ LeaseTicks \in Nat \ {0}
  /\ TaskTicks \in Nat \ {0}
  /\ PlacementTicks \in Nat \ {0}

TaskOfLease(l) == l[1]

VARIABLES
  workerState,      \* WorkerIdentityRow.state
  heartbeat,        \* time until the worker's heartbeat is stale
  placement,        \* RemoteTaskPlacementRow.state of a task
  placementTimer,   \* time until the placement's deadline
  currentEnvelope,  \* current_envelope_id: an attempt, 0 for none
  leaseState,       \* WorkerLeaseRow.state
  leaseWorker,      \* WorkerLeaseRow.worker_id
  leaseTimer,       \* time until WorkerLeaseRow.expires_at
  envelopeState,    \* RemoteTaskEnvelopeRow.state
  envelopeTimer,    \* time until the envelope's deadline
  completion,       \* WorkerCompletionRow.state of a submission
  acceptance        \* WorkerTaskAcceptanceRow: the accepted completion of a task

workerVars == <<workerState, heartbeat>>
placementVars == <<placement, placementTimer, currentEnvelope>>
leaseVars == <<leaseState, leaseWorker, leaseTimer, envelopeState, envelopeTimer>>
completionVars == <<completion, acceptance>>
coordinationVars == <<workerVars, placementVars, leaseVars, completionVars>>
vars == <<lifecycleVars, coordinationVars>>

PlacementStates == {"none", "queued", "leased", "completed", "cancelled"}
LeaseStates == {"none", "active", "completed", "expired"}
EnvelopeStates == {"none", "leased", "executing", "validating", "completed",
                   "expired", "reconciliation_required"}
CompletionStates == {"none", "delivered", "stale", "duplicate", "accepted"}

Least(a, b) == IF a < b THEN a ELSE b
Less(n) == IF n = 0 THEN 0 ELSE n - 1

ActiveLeases(w) == {l \in Leases : leaseState[l] = "active" /\ leaseWorker[l] = w}

-------------------------------------------------------------------------------
(* Workers. *)

\* record_heartbeat of an active worker, with its next sequence.
Heartbeat(w) ==
  /\ workerState[w] = "active"
  /\ heartbeat' = [heartbeat EXCEPT ![w] = HeartbeatTicks]
  /\ UNCHANGED <<lifecycleVars, workerState, placementVars, leaseVars, completionVars>>

\* worker.revoke: the identity stops being active; its leases run out by themselves.
Revoke(w) ==
  /\ workerState[w] = "active"
  /\ workerState' = [workerState EXCEPT ![w] = "revoked"]
  /\ UNCHANGED <<lifecycleVars, heartbeat, placementVars, leaseVars, completionVars>>

-------------------------------------------------------------------------------
(* Placements and claims. *)

\* Mutant of QueuePlacement: a task may be placed again whatever its placement.
QueueAgain(t) ==
  /\ runStatus[RunOf[t]] = "running"
  /\ ~cancelRequested[RunOf[t]]
  /\ taskStatus[t] = "eligible"
  /\ placement' = [placement EXCEPT ![t] = "queued"]
  /\ placementTimer' = [placementTimer EXCEPT ![t] = PlacementTicks]
  /\ UNCHANGED <<lifecycleVars, workerVars, currentEnvelope, leaseVars, completionVars>>

\* worker.task.place: queue_placement of an eligible task of a running run.  A task
\* that has a placement keeps it, whatever its state.
QueuePlacement(t) ==
  /\ runStatus[RunOf[t]] = "running"
  /\ ~cancelRequested[RunOf[t]]
  /\ taskStatus[t] = "eligible"
  /\ Preferred[t] # None => workerState[Preferred[t]] = "active"
  /\ placement[t] = "none"
  /\ placement' = [placement EXCEPT ![t] = "queued"]
  /\ placementTimer' = [placementTimer EXCEPT ![t] = PlacementTicks]
  /\ UNCHANGED <<lifecycleVars, workerVars, currentEnvelope, leaseVars, completionVars>>

\* A worker may claim: active, fresh heartbeat, capacity left.
MayClaim(w) ==
  /\ workerState[w] = "active"
  /\ heartbeat[w] > 0
  /\ Cardinality(ActiveLeases(w)) < Capacity[w]

\* The queued placements claim_next reads for w, and those it may select.
Queue(w) == {t \in Tasks : placement[t] = "queued" /\ Preferred[t] \in {None, w}}
Suitable(w) == {t \in Queue(w) : placementTimer[t] > 0 /\ w \in Compatible[t]}

\* The overdue placements that claim_next passes over and cancels, when it looks at
\* the placements of w that precede t.
Overdue(w, ahead) == {u \in Queue(w) : placementTimer[u] = 0 /\ u \in ahead}

\* claim_next finds nothing suitable: only overdue placements change.
ClaimNothing(w) ==
  /\ MayClaim(w)
  /\ Suitable(w) = {}
  /\ placement' = [t \in Tasks |-> IF t \in Overdue(w, Tasks) THEN "cancelled"
                                   ELSE placement[t]]
  /\ UNCHANGED <<lifecycleVars, workerVars, placementTimer, currentEnvelope,
                 leaseVars, completionVars>>

\* Mutant of LeaseTime: a lease as long as the task may run.
LeaseForTask(deadline) == deadline

\* The lifetime of a new lease: never beyond the deadline of its envelope.
LeaseTime(deadline) == Least(deadline, LeaseTicks)

\* claim_next selects the first suitable placement.  Its run and task are checked
\* only then: when they no longer qualify the whole claim raises.
ClaimNext(w, t) ==
  LET l == <<t, attempts[t] + 1>>
      deadline == Least(placementTimer[t], TaskTicks) IN
  /\ MayClaim(w)
  /\ t \in Suitable(w)
  /\ \A u \in Suitable(w) : Rank[t] <= Rank[u]
  /\ runStatus[RunOf[t]] = "running"
  /\ ~cancelRequested[RunOf[t]]
  /\ taskStatus[t] = "eligible"
  /\ attempts[t] < MaxAttempts
  /\ taskStatus' = [taskStatus EXCEPT ![t] = "leased"]
  /\ attempts' = [attempts EXCEPT ![t] = @ + 1]
  /\ placement' = [u \in Tasks |->
       IF u = t THEN "leased"
       ELSE IF u \in Overdue(w, {v \in Tasks : Rank[v] < Rank[t]}) THEN "cancelled"
       ELSE placement[u]]
  /\ currentEnvelope' = [currentEnvelope EXCEPT ![t] = attempts[t] + 1]
  /\ leaseState' = [leaseState EXCEPT ![l] = "active"]
  /\ leaseWorker' = [leaseWorker EXCEPT ![l] = w]
  /\ leaseTimer' = [leaseTimer EXCEPT ![l] = LeaseTime(deadline)]
  /\ envelopeState' = [envelopeState EXCEPT ![l] = "leased"]
  /\ envelopeTimer' = [envelopeTimer EXCEPT ![l] = deadline]
  /\ UNCHANGED <<runStatus, cancelRequested, result, rejections, callVars, daemonVars,
                 workerVars, placementTimer, completionVars>>

-------------------------------------------------------------------------------
(* Leases and envelopes. *)

\* _active_lease: the lease is active, not yet expired, and its worker is active.
LeaseUsable(l) ==
  /\ leaseState[l] = "active"
  /\ leaseTimer[l] > 0
  /\ workerState[leaseWorker[l]] = "active"

\* begin_execution.
BeginExecution(l) ==
  /\ LeaseUsable(l)
  /\ envelopeState[l] = "leased"
  /\ taskStatus[TaskOfLease(l)] = "leased"
  /\ envelopeState' = [envelopeState EXCEPT ![l] = "executing"]
  /\ taskStatus' = [taskStatus EXCEPT ![TaskOfLease(l)] = "executing"]
  /\ UNCHANGED <<runStatus, cancelRequested, attempts, result, rejections, callVars,
                 daemonVars, workerVars, placementVars, leaseState, leaseWorker,
                 leaseTimer, envelopeTimer, completionVars>>

\* Mutant of RenewLease: the deadline of the envelope is not looked at.
RenewForever(l) ==
  /\ LeaseUsable(l)
  /\ leaseTimer' = [leaseTimer EXCEPT ![l] = LeaseTicks]
  /\ UNCHANGED <<lifecycleVars, workerVars, placementVars, leaseState, leaseWorker,
                 envelopeState, envelopeTimer, completionVars>>

\* renew_lease: never beyond the deadline of the envelope.
RenewLease(l) ==
  /\ LeaseUsable(l)
  /\ envelopeTimer[l] > 0
  /\ leaseTimer' = [leaseTimer EXCEPT ![l] = LeaseTime(envelopeTimer[l])]
  /\ UNCHANGED <<lifecycleVars, workerVars, placementVars, leaseState, leaseWorker,
                 envelopeState, envelopeTimer, completionVars>>

\* The due leases of one expire_leases sweep, and those it releases at once.
Due == {l \in Leases : leaseState[l] = "active" /\ leaseTimer[l] = 0}
Released == {l \in Due : TaskOfLease(l) \notin Stateful}

\* The placement of a released envelope returns to the queue.
Requeue(released) ==
  LET back == {t \in Tasks : <<t, currentEnvelope[t]>> \in released} IN
  /\ placement' = [t \in Tasks |-> IF t \in back THEN "queued" ELSE placement[t]]
  /\ currentEnvelope' = [t \in Tasks |-> IF t \in back THEN 0 ELSE currentEnvelope[t]]

\* Mutant of ReleaseTasks: a task that had not begun executing is overlooked.
ReleaseExecuting(released) ==
  taskStatus' = [t \in Tasks |->
    IF (\E l \in released : TaskOfLease(l) = t) /\ taskStatus[t] = "executing"
    THEN "eligible" ELSE taskStatus[t]]

\* The task of a released envelope is eligible again, cancelled run or not.
ReleaseTasks(released) ==
  taskStatus' = [t \in Tasks |->
    IF /\ \E l \in released : TaskOfLease(l) = t
       /\ taskStatus[t] \in {"leased", "executing"}
    THEN "eligible" ELSE taskStatus[t]]

\* expire_leases, run by WorkerLeaseRecoveryDriver: a stateless envelope is released,
\* a stateful one waits for reconciliation.
ExpireLeases ==
  /\ Due # {}
  /\ leaseState' = [l \in Leases |-> IF l \in Due THEN "expired" ELSE leaseState[l]]
  /\ envelopeState' = [l \in Leases |->
       IF l \in Released THEN "expired"
       ELSE IF l \in Due THEN "reconciliation_required" ELSE envelopeState[l]]
  /\ ReleaseTasks(Released)
  /\ Requeue(Released)
  /\ UNCHANGED <<runStatus, cancelRequested, attempts, result, rejections, callVars,
                 daemonVars, workerVars, placementTimer, leaseWorker, leaseTimer,
                 envelopeTimer, completionVars>>

\* reconcile_expired_envelope, once the effects are proven settled.
Reconcile(l) ==
  /\ envelopeState[l] = "reconciliation_required"
  /\ taskStatus[TaskOfLease(l)] \in {"leased", "executing"}
  /\ envelopeState' = [envelopeState EXCEPT ![l] = "expired"]
  /\ ReleaseTasks({l})
  /\ Requeue({l})
  /\ UNCHANGED <<runStatus, cancelRequested, attempts, result, rejections, callVars,
                 daemonVars, workerVars, placementTimer, leaseState, leaseWorker,
                 leaseTimer, envelopeTimer, completionVars>>

-------------------------------------------------------------------------------
(* Completions. *)

\* Mutant of DeliveryState: the lease is not looked at.
DeliverAnyway(l, consistent) ==
  IF \E k \in Submissions : completion[l][k] # "none" THEN "duplicate"
  ELSE IF consistent THEN "delivered" ELSE "stale"

\* What deliver_completion records: an envelope takes one completion; a first one
\* that lost its lease, or contradicts its envelope, is stale and still counts.
DeliveryState(l, consistent) ==
  IF \E k \in Submissions : completion[l][k] # "none" THEN "duplicate"
  ELSE IF leaseState[l] = "active" /\ leaseTimer[l] > 0 /\ consistent THEN "delivered"
  ELSE "stale"

\* deliver_completion, first delivery of submission k (a repeated one returns its
\* row).  The worker was authenticated in an earlier transaction: a request
\* already admitted is delivered even if its worker is revoked meanwhile.
DeliverCompletion(l, k, consistent) ==
  LET state == DeliveryState(l, consistent)
      delivered == state = "delivered" IN
  /\ leaseState[l] # "none"
  /\ completion[l][k] = "none"
  /\ delivered => taskStatus[TaskOfLease(l)] \in {"leased", "executing"}
  /\ completion' = [completion EXCEPT ![l][k] = state]
  /\ leaseState' = IF delivered THEN [leaseState EXCEPT ![l] = "completed"] ELSE leaseState
  /\ envelopeState' = IF delivered THEN [envelopeState EXCEPT ![l] = "validating"]
                      ELSE envelopeState
  /\ taskStatus' = IF delivered THEN [taskStatus EXCEPT ![TaskOfLease(l)] = "validating"]
                   ELSE taskStatus
  /\ UNCHANGED <<runStatus, cancelRequested, attempts, result, rejections, callVars,
                 daemonVars, workerVars, placementVars, leaseWorker, leaseTimer,
                 envelopeTimer, acceptance>>

\* worker.completion.accept: accept_completion of a delivered completion.  Neither
\* the task's status nor the run's is looked at.
AcceptCompletion(l, k) ==
  LET t == TaskOfLease(l) IN
  /\ acceptance[t] = None
  /\ completion[l][k] = "delivered"
  /\ ~cancelRequested[RunOf[t]]
  /\ DependenciesAccepted(taskStatus, t)
  /\ result[t] = None
  /\ result' = [result EXCEPT ![t] = "worker"]
  /\ acceptance' = [acceptance EXCEPT ![t] = <<l, k>>]
  /\ completion' = [completion EXCEPT ![l][k] = "accepted"]
  /\ envelopeState' = [envelopeState EXCEPT ![l] = "completed"]
  /\ placement' = IF currentEnvelope[t] = l[2]
                  THEN [placement EXCEPT ![t] = "completed"] ELSE placement
  /\ taskStatus' = Accept(t)
  /\ runStatus' = CompleteRun(t)
  /\ UNCHANGED <<cancelRequested, attempts, rejections, callVars, daemonVars, workerVars,
                 placementTimer, currentEnvelope, leaseState, leaseWorker, leaseTimer,
                 envelopeTimer>>

\* Mutant of AcceptDuplicate: a repeated acceptance is taken for a second one.
AcceptTwice(l, k) ==
  /\ acceptance[TaskOfLease(l)] # None
  /\ completion[l][k] # "none"
  /\ completion' = [completion EXCEPT ![l][k] = "duplicate"]
  /\ UNCHANGED <<lifecycleVars, workerVars, placementVars, leaseVars, acceptance>>

\* accept_completion after another completion of the task was accepted.
AcceptDuplicate(l, k) ==
  /\ acceptance[TaskOfLease(l)] \notin {None, <<l, k>>}
  /\ completion[l][k] # "none"
  /\ completion' = [completion EXCEPT ![l][k] = "duplicate"]
  /\ UNCHANGED <<lifecycleVars, workerVars, placementVars, leaseVars, acceptance>>

-------------------------------------------------------------------------------
\* Time passes.
Tick ==
  /\ heartbeat' = [w \in Workers |-> Less(heartbeat[w])]
  /\ placementTimer' = [t \in Tasks |-> Less(placementTimer[t])]
  /\ leaseTimer' = [l \in Leases |-> Less(leaseTimer[l])]
  /\ envelopeTimer' = [l \in Leases |-> Less(envelopeTimer[l])]
  /\ UNCHANGED <<lifecycleVars, workerState, placement, currentEnvelope, leaseState,
                 leaseWorker, envelopeState, completionVars>>

\* The run commands of the daemon on the shared rows.
RunCommand ==
  /\ \/ \E r \in Runs : Cancel(r) \/ Recover(r) \/ RecoverEnd(r) \/ OtherEffect(r)
     \/ \E t \in Tasks : MissionClaim(t)
     \/ Crash
  /\ UNCHANGED coordinationVars

\* Enrolled workers, and no placement, lease or completion yet.
NothingPlaced ==
  /\ workerState = [w \in Workers |-> "active"]
  /\ heartbeat = [w \in Workers |-> 0]
  /\ placement = [t \in Tasks |-> "none"]
  /\ placementTimer = [t \in Tasks |-> 0]
  /\ currentEnvelope = [t \in Tasks |-> 0]
  /\ leaseState = [l \in Leases |-> "none"]
  /\ leaseWorker = [l \in Leases |-> None]
  /\ leaseTimer = [l \in Leases |-> 0]
  /\ envelopeState = [l \in Leases |-> "none"]
  /\ envelopeTimer = [l \in Leases |-> 0]
  /\ completion = [l \in Leases |-> [k \in Submissions |-> "none"]]
  /\ acceptance = [t \in Tasks |-> None]

CoordinationInit ==
  /\ runStatus = [r \in Runs |-> "running"]
  /\ cancelRequested = [r \in Runs |-> FALSE]
  /\ taskStatus = [t \in Tasks |-> IF DependsOn[t] = {} THEN "eligible" ELSE "pending"]
  /\ attempts = [t \in Tasks |-> 0]
  /\ result = [t \in Tasks |-> None]
  /\ rejections = {}
  /\ callState = [c \in Calls |-> "absent"]
  /\ settlement = [c \in Calls |-> "none"]
  /\ performed = [c \in Calls |-> 0]
  /\ otherEffects = {}
  /\ recovering = {}
  /\ flow = Idle
  /\ crashes = 0
  /\ NothingPlaced

WorkerStep(w) ==
  \/ Heartbeat(w) \/ Revoke(w) \/ ClaimNothing(w)
  \/ \E t \in Tasks : ClaimNext(w, t)

LeaseStep(l) ==
  \/ BeginExecution(l) \/ RenewLease(l) \/ Reconcile(l)
  \/ \E k \in Submissions :
        \/ \E consistent \in BOOLEAN : DeliverCompletion(l, k, consistent)
        \/ AcceptCompletion(l, k) \/ AcceptDuplicate(l, k)

Next ==
  \/ RunCommand
  \/ \E t \in Tasks : QueuePlacement(t)
  \/ \E w \in Workers : WorkerStep(w)
  \/ \E l \in Leases : LeaseStep(l)
  \/ ExpireLeases
  \/ Tick

Spec == CoordinationInit /\ [][Next]_vars

\* Clocks advance and the recovery driver keeps sweeping; workers and operators owe
\* nothing.
FairSpec == Spec /\ WF_vars(Tick) /\ WF_vars(ExpireLeases)

-------------------------------------------------------------------------------
(* Properties *)

\* Every row of the coordination store holds a value of its declared range.
TypeOK ==
  /\ LifecycleTypeOK
  /\ workerState \in [Workers -> {"active", "revoked"}]
  /\ heartbeat \in [Workers -> 0..HeartbeatTicks]
  /\ placement \in [Tasks -> PlacementStates]
  /\ placementTimer \in [Tasks -> 0..PlacementTicks]
  /\ currentEnvelope \in [Tasks -> 0..MaxAttempts]
  /\ leaseState \in [Leases -> LeaseStates]
  /\ leaseWorker \in [Leases -> Workers \cup {None}]
  /\ leaseTimer \in [Leases -> 0..LeaseTicks]
  /\ envelopeState \in [Leases -> EnvelopeStates]
  /\ envelopeTimer \in [Leases -> 0..TaskTicks]
  /\ completion \in [Leases -> [Submissions -> CompletionStates]]
  /\ acceptance \in [Tasks -> (Leases \X Submissions) \cup {None}]

\* DST-006: a task never has two active leases, although recovery and mission claims
\* make it eligible while one is running; its one placement is what excludes them.
OneActiveLease ==
  \A l, m \in Leases : /\ leaseState[l] = "active" /\ leaseState[m] = "active"
                       /\ TaskOfLease(l) = TaskOfLease(m)
                       => l = m

\* The authority of a lease is over: expired, or due and not swept yet.
Over(l) == leaseState[l] = "expired" \/ (leaseState[l] = "active" /\ leaseTimer[l] = 0)

\* INV-023: authority that is over never comes back, by renewal or otherwise, and
\* none of its completions is delivered or accepted, however late the sweep is and
\* whichever attempt of the task replaced it.
ExpiredAuthority ==
  [][\A l \in Leases : Over(l) =>
       /\ Over(l)'
       /\ \A k \in Submissions : completion'[l][k] \notin {"delivered", "accepted"}]_vars

\* INV-013, DST-010: a task has at most one accepted completion, the one its
\* acceptance row and its result name.
SingleAcceptance ==
  \A l \in Leases, k \in Submissions :
    completion[l][k] = "accepted" <=> acceptance[TaskOfLease(l)] = <<l, k>>

\* A leased task has a lease that can still end it: expire_leases, reconciliation or
\* a delivery.  recover_interrupted releases no leased task, so one without would
\* be lost for good.
NoOrphanedLease ==
  \A t \in Tasks : taskStatus[t] = "leased" =>
    \E l \in Leases : /\ TaskOfLease(l) = t
                      /\ \/ leaseState[l] = "active"
                         \/ envelopeState[l] = "reconciliation_required"

\* DST-007: renewed or not, every lease ends: a lease never outlives the deadline of
\* its envelope and the recovery driver expires what is left.
LeaseEnds == \A l \in Leases : (leaseState[l] = "active") ~> (leaseState[l] # "active")
===============================================================================
