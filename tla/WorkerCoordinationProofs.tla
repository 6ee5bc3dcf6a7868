----------------------- MODULE WorkerCoordinationProofs -----------------------
(***************************************************************************)
(* The lease and completion invariants of WorkerCoordination for every set  *)
(* of tasks and workers and every duration.  CoordinationInv is inductive:  *)
(* it ties each active lease to the one placement of its task.              *)
(***************************************************************************)
EXTENDS WorkerCoordination, RunLifecycleProofs

\* A lease that exists belongs to an attempt already counted; an active one is the
\* current envelope of its task's leased placement; one under reconciliation expired.
LeaseInv ==
  \A l \in Leases :
    /\ leaseState[l] # "none" => l[2] <= attempts[l[1]]
    /\ leaseState[l] = "active" => placement[l[1]] = "leased" /\ currentEnvelope[l[1]] = l[2]
    /\ envelopeState[l] = "reconciliation_required" => leaseState[l] = "expired"

\* A delivered or accepted completion closed its lease.
CompletionInv ==
  \A l \in Leases, k \in Submissions :
    completion[l][k] \in {"delivered", "accepted"} => leaseState[l] = "completed"

CoordinationInv ==
  /\ TypeOK
  /\ DependencyEligibility
  /\ DurableAcceptance
  /\ LeaseInv
  /\ CompletionInv
  /\ SingleAcceptance
  /\ NoOrphanedLease

-------------------------------------------------------------------------------
\* A lease is a task and an attempt, and no accepted completion is None.
LEMMA LeaseParts ==
  /\ \A l \in Leases : l = <<l[1], l[2]>> /\ l[1] \in Tasks /\ l[2] \in 1..MaxAttempts
  /\ \A l \in Leases, k \in Submissions : <<l, k>> # None
<1>1. \A l \in Leases : l = <<l[1], l[2]>> /\ l[1] \in Tasks /\ l[2] \in 1..MaxAttempts
  BY DEF Leases
<1>2. \A l \in Leases, k \in Submissions : <<l, k>> \in Leases \X Submissions
  OBVIOUS
<1>3. QED
  BY <1>1, <1>2, WorkersAssumption

\* The initial store satisfies every part of the invariant.
LEMMA CoordinationInitInv == CoordinationInit => CoordinationInv
<1> SUFFICES ASSUME CoordinationInit PROVE CoordinationInv
  OBVIOUS
<1> USE RunsAssumption, WorkersAssumption DEF CoordinationInit, NothingPlaced
<1>1. TypeOK
  <2>1. flow \in FlowType
    BY DEF Idle, FlowType, Stages
  <2>2. LifecycleTypeOK
    BY <2>1 DEF LifecycleTypeOK, RunStates, TaskStates, CallStates, Settlements
  <2>3. completion \in [Leases -> [Submissions -> CompletionStates]]
    BY DEF CompletionStates
  <2>4. QED
    BY <2>2, <2>3 DEF TypeOK, PlacementStates, LeaseStates, EnvelopeStates
<1>2. DependencyEligibility /\ DurableAcceptance
  BY DEF DependencyEligibility, DependenciesAccepted, DurableAcceptance
<1>3. LeaseInv /\ CompletionInv
  BY DEF LeaseInv, CompletionInv
<1>4. SingleAcceptance
  BY LeaseParts DEF SingleAcceptance, TaskOfLease
<1>5. NoOrphanedLease
  BY DEF NoOrphanedLease
<1>6. QED
  BY <1>1, <1>2, <1>3, <1>4, <1>5 DEF CoordinationInv

-------------------------------------------------------------------------------
\* The rows of the coordination store stay in their ranges.
CoordinationTypes ==
  /\ workerState \in [Workers -> {"active", "revoked"}]
  /\ heartbeat \in [Workers -> 0..HeartbeatTicks]
  /\ placement \in [Tasks -> PlacementStates]
  /\ placementTimer \in [Tasks -> 0..PlacementTicks]
  /\ currentEnvelope \in [Tasks -> 0..MaxAttempts]
  /\ leaseState \in [Leases -> LeaseStates]
  /\ leaseWorker \in [Leases -> Workers \cup {None}]
  /\ leaseTimer \in [Leases -> 0..LeaseTicks]
  /\ envelopeState \in [Leases -> EnvelopeStates]
  /\ envelopeTimer \in [Leases -> 0..TaskTicks]
  /\ completion \in [Leases -> [Submissions -> CompletionStates]]
  /\ acceptance \in [Tasks -> (Leases \X Submissions) \cup {None}]

\* Heartbeats and revocations keep the types.
LEMMA WorkerStepTypes ==
  ASSUME TypeOK, NEW w \in Workers, Heartbeat(w) \/ Revoke(w) \/ ClaimNothing(w)
  PROVE  CoordinationTypes'
<1>1. HeartbeatTicks \in 0..HeartbeatTicks
  BY WorkersAssumption
<1>2. CASE Heartbeat(w)
  BY <1>1, <1>2 DEF TypeOK, CoordinationTypes, Heartbeat, placementVars, leaseVars, completionVars
<1>3. CASE Revoke(w)
  BY <1>3 DEF TypeOK, CoordinationTypes, Revoke, placementVars, leaseVars, completionVars
<1>4. CASE ClaimNothing(w)
  BY <1>4 DEF TypeOK, CoordinationTypes, ClaimNothing, workerVars, leaseVars, completionVars,
              PlacementStates
<1>5. QED
  BY <1>2, <1>3, <1>4

\* queue_placement keeps the types.
LEMMA QueueTypes ==
  ASSUME TypeOK, NEW t \in Tasks, QueuePlacement(t)
  PROVE  CoordinationTypes'
<1>1. PlacementTicks \in 0..PlacementTicks
  BY WorkersAssumption
<1>2. QED
  BY <1>1 DEF TypeOK, CoordinationTypes, QueuePlacement, workerVars, leaseVars, completionVars,
              PlacementStates

\* claim_next keeps the types.
LEMMA ClaimTypes ==
  ASSUME TypeOK, NEW w \in Workers, NEW t \in Tasks, ClaimNext(w, t)
  PROVE  CoordinationTypes' /\ LifecycleTypeOK'
<1> DEFINE l == <<t, attempts[t] + 1>>
           deadline == Least(placementTimer[t], TaskTicks)
<1>1. attempts[t] + 1 \in 1..MaxAttempts /\ attempts[t] + 1 \in 0..MaxAttempts
  BY RunsAssumption DEF TypeOK, LifecycleTypeOK, ClaimNext
<1>2. l \in Leases
  BY <1>1 DEF Leases
<1>3. deadline \in 0..TaskTicks /\ LeaseTime(deadline) \in 0..LeaseTicks
  BY WorkersAssumption DEF TypeOK, Least, LeaseTime
<1>4. LifecycleTypeOK'
  BY <1>1 DEF TypeOK, LifecycleTypeOK, ClaimNext, callVars, daemonVars, TaskStates
<1> HIDE DEF l
<1>5. /\ leaseState' = [leaseState EXCEPT ![l] = "active"]
      /\ leaseWorker' = [leaseWorker EXCEPT ![l] = w]
      /\ leaseTimer' = [leaseTimer EXCEPT ![l] = LeaseTime(deadline)]
      /\ envelopeState' = [envelopeState EXCEPT ![l] = "leased"]
      /\ envelopeTimer' = [envelopeTimer EXCEPT ![l] = deadline]
      /\ currentEnvelope' = [currentEnvelope EXCEPT ![t] = attempts[t] + 1]
  BY DEF ClaimNext, l
<1> HIDE DEF deadline
<1>6. placement' \in [Tasks -> PlacementStates]
  BY DEF TypeOK, ClaimNext, PlacementStates
<1>7. UNCHANGED <<workerState, heartbeat, placementTimer, completion, acceptance>>
  BY DEF ClaimNext, workerVars, completionVars
<1>8. QED
  BY <1>1, <1>2, <1>3, <1>4, <1>5, <1>6, <1>7
  DEF TypeOK, CoordinationTypes, LeaseStates, EnvelopeStates

\* Releasing the tasks of ended leases keeps the types.
LEMMA ReleaseTypes ==
  ASSUME TypeOK, NEW released, ReleaseTasks(released), Requeue(released)
  PROVE  /\ taskStatus' \in [Tasks -> TaskStates]
         /\ placement' \in [Tasks -> PlacementStates]
         /\ currentEnvelope' \in [Tasks -> 0..MaxAttempts]
<1>1. 0 \in 0..MaxAttempts
  BY RunsAssumption
<1>2. QED
  BY <1>1 DEF TypeOK, LifecycleTypeOK, ReleaseTasks, Requeue, TaskStates, PlacementStates

\* begin_execution, renew_lease and reconciliation keep the types.
LEMMA LeaseStepTypes ==
  ASSUME TypeOK, NEW l \in Leases, BeginExecution(l) \/ RenewLease(l) \/ Reconcile(l)
  PROVE  CoordinationTypes' /\ LifecycleTypeOK'
<1> USE DEF TypeOK, CoordinationTypes, LifecycleTypeOK, lifecycleVars, runVars, callVars,
        daemonVars, workerVars, completionVars
<1>1. CASE BeginExecution(l)
  BY <1>1, LeaseParts DEF BeginExecution, placementVars, TaskOfLease, TaskStates, EnvelopeStates
<1>2. CASE RenewLease(l)
  <2>1. LeaseTime(envelopeTimer[l]) \in 0..LeaseTicks
    BY WorkersAssumption DEF LeaseTime, Least
  <2>2. QED
    BY <1>2, <2>1 DEF RenewLease, placementVars
<1>3. CASE Reconcile(l)
  <2>1. ReleaseTasks({l}) /\ Requeue({l})
    BY <1>3 DEF Reconcile
  <2>2. QED
    BY <1>3, <2>1, ReleaseTypes DEF Reconcile, EnvelopeStates
<1>4. QED
  BY <1>1, <1>2, <1>3

\* expire_leases keeps the types.
LEMMA ExpireTypes ==
  ASSUME TypeOK, ExpireLeases
  PROVE  CoordinationTypes' /\ LifecycleTypeOK'
<1>1. ReleaseTasks(Released) /\ Requeue(Released)
  BY DEF ExpireLeases
<1>2. leaseState' \in [Leases -> LeaseStates] /\ envelopeState' \in [Leases -> EnvelopeStates]
  BY DEF ExpireLeases, TypeOK, LeaseStates, EnvelopeStates
<1>3. QED
  BY <1>1, <1>2, ReleaseTypes DEF ExpireLeases, TypeOK, CoordinationTypes, LifecycleTypeOK,
     callVars, daemonVars, workerVars, completionVars

\* deliver_completion keeps the types.
LEMMA DeliverTypes ==
  ASSUME TypeOK, NEW l \in Leases, NEW k \in Submissions, NEW consistent \in BOOLEAN,
         DeliverCompletion(l, k, consistent)
  PROVE  CoordinationTypes' /\ LifecycleTypeOK'
<1>1. DeliveryState(l, consistent) \in CompletionStates
  BY DEF DeliveryState, CompletionStates
<1>2. completion' \in [Leases -> [Submissions -> CompletionStates]]
  BY <1>1 DEF DeliverCompletion, TypeOK
<1>3. taskStatus' \in [Tasks -> TaskStates]
  BY LeaseParts DEF DeliverCompletion, TypeOK, LifecycleTypeOK, TaskStates, TaskOfLease
<1>4. leaseState' \in [Leases -> LeaseStates] /\ envelopeState' \in [Leases -> EnvelopeStates]
  BY DEF DeliverCompletion, TypeOK, LeaseStates, EnvelopeStates
<1>5. QED
  BY <1>2, <1>3, <1>4 DEF DeliverCompletion, TypeOK, CoordinationTypes, LifecycleTypeOK,
     callVars, daemonVars, workerVars, placementVars

\* accept_completion keeps the types.
LEMMA AcceptTypes ==
  ASSUME TypeOK, NEW l \in Leases, NEW k \in Submissions,
         AcceptCompletion(l, k) \/ AcceptDuplicate(l, k)
  PROVE  CoordinationTypes' /\ LifecycleTypeOK'
<1> DEFINE t == TaskOfLease(l)
<1>1. t \in Tasks /\ <<l, k>> \in Leases \X Submissions
  BY LeaseParts DEF TaskOfLease
<1>2. completion' \in [Leases -> [Submissions -> CompletionStates]]
  <2>1. PICK state \in CompletionStates : completion' = [completion EXCEPT ![l][k] = state]
    BY DEF AcceptCompletion, AcceptDuplicate, CompletionStates
  <2>2. QED
    BY <2>1 DEF TypeOK
<1>3. CASE AcceptCompletion(l, k)
  <2>1. /\ taskStatus' \in [Tasks -> TaskStates]
        /\ runStatus' \in [Runs -> RunStates]
    BY <1>1, <1>3, AcceptType DEF AcceptCompletion, TypeOK
  <2>2. /\ result' \in [Tasks -> Producers \cup {None}]
        /\ acceptance' \in [Tasks -> (Leases \X Submissions) \cup {None}]
    BY <1>1, <1>3 DEF AcceptCompletion, TypeOK, LifecycleTypeOK, Producers
  <2>3. /\ placement' \in [Tasks -> PlacementStates]
        /\ envelopeState' \in [Leases -> EnvelopeStates]
    BY <1>1, <1>3 DEF AcceptCompletion, TypeOK, PlacementStates, EnvelopeStates
  <2>4. QED
    BY <1>2, <1>3, <2>1, <2>2, <2>3 DEF AcceptCompletion, TypeOK, CoordinationTypes,
       LifecycleTypeOK, callVars, daemonVars, workerVars
<1>4. CASE AcceptDuplicate(l, k)
  BY <1>2, <1>4 DEF AcceptDuplicate, TypeOK, CoordinationTypes, LifecycleTypeOK, lifecycleVars,
     runVars, callVars, daemonVars, workerVars, placementVars, leaseVars
<1>5. QED
  BY <1>3, <1>4

\* The passage of time keeps the types.
LEMMA TickTypes ==
  ASSUME TypeOK, Tick
  PROVE  CoordinationTypes'
<1>1. \A n \in Nat : \A m \in 0..n : Less(m) \in 0..n
  BY DEF Less
<1>2. QED
  BY <1>1, WorkersAssumption DEF Tick, TypeOK, CoordinationTypes, completionVars

\* Every step keeps the types.
LEMMA TypeStep == TypeOK /\ [Next]_vars => TypeOK'
<1> SUFFICES ASSUME TypeOK, [Next]_vars PROVE CoordinationTypes' /\ LifecycleTypeOK'
  BY DEF TypeOK, CoordinationTypes
<1>1. ASSUME UNCHANGED lifecycleVars PROVE LifecycleTypeOK'
  BY <1>1 DEF TypeOK, LifecycleTypeOK, lifecycleVars, runVars, callVars, daemonVars
<1>2. ASSUME UNCHANGED coordinationVars PROVE CoordinationTypes'
  BY <1>2 DEF TypeOK, CoordinationTypes, coordinationVars, workerVars, placementVars, leaseVars,
              completionVars
<1>3. CASE RunCommand
  <2>1. LifecycleTypeOK
    BY DEF TypeOK
  <2>2. Operator \/ Crash \/ \E r \in Runs : RecoverEnd(r)
    BY <1>3 DEF RunCommand, Operator
  <2>3. QED
    BY <1>2, <1>3, <2>1, <2>2, OperatorType DEF RunCommand
<1>4. ASSUME NEW t \in Tasks, QueuePlacement(t) PROVE CoordinationTypes' /\ LifecycleTypeOK'
  BY <1>1, <1>4, QueueTypes DEF QueuePlacement
<1>5. ASSUME NEW w \in Workers, WorkerStep(w) PROVE CoordinationTypes' /\ LifecycleTypeOK'
  <2>1. CASE Heartbeat(w) \/ Revoke(w) \/ ClaimNothing(w)
    BY <1>1, <2>1, WorkerStepTypes DEF Heartbeat, Revoke, ClaimNothing
  <2>2. QED
    BY <1>5, <2>1, ClaimTypes DEF WorkerStep
<1>6. ASSUME NEW l \in Leases, LeaseStep(l) PROVE CoordinationTypes' /\ LifecycleTypeOK'
  BY <1>6, LeaseStepTypes, DeliverTypes, AcceptTypes DEF LeaseStep
<1>7. CASE Tick
  BY <1>1, <1>7, TickTypes DEF Tick
<1>8. CASE UNCHANGED vars
  BY <1>1, <1>2, <1>8 DEF vars
<1>9. QED
  BY <1>3, <1>4, <1>5, <1>6, <1>7, <1>8, ExpireTypes DEF Next

-------------------------------------------------------------------------------
(* Leases and completions. *)

\* Steps that write neither leases nor completions, nor a leased placement.
LEMMA LeaseFrame ==
  ASSUME TypeOK, TypeOK', LeaseInv, CompletionInv, SingleAcceptance,
         UNCHANGED <<currentEnvelope, leaseState, envelopeState, completion, acceptance>>,
         \A t \in Tasks : attempts'[t] >= attempts[t],
         \A t \in Tasks : placement[t] = "leased" => placement'[t] = "leased"
  PROVE  LeaseInv' /\ CompletionInv' /\ SingleAcceptance'
<1>1. \A t \in Tasks : attempts[t] \in Nat /\ attempts'[t] \in Nat
  BY RunsAssumption DEF TypeOK, LifecycleTypeOK
<1>2. LeaseInv'
  <2>1. ASSUME NEW l \in Leases, leaseState[l] # "none" PROVE l[2] <= attempts'[l[1]]
    <3>1. l[1] \in Tasks /\ l[2] \in Nat /\ l[2] <= attempts[l[1]]
      BY <2>1, LeaseParts DEF LeaseInv
    <3>2. QED
      BY <1>1, <3>1
  <2>2. QED
    BY <2>1, LeaseParts DEF LeaseInv
<1>3. CompletionInv' /\ SingleAcceptance'
  BY DEF CompletionInv, SingleAcceptance, TaskOfLease
<1>4. QED
  BY <1>2, <1>3

\* claim_next takes a queued placement, so its task has no active lease, and an
\* attempt that has no lease yet.
LEMMA ClaimLeases ==
  ASSUME TypeOK, TypeOK', LeaseInv, CompletionInv, SingleAcceptance,
         NEW w \in Workers, NEW t \in Tasks, ClaimNext(w, t)
  PROVE  LeaseInv' /\ CompletionInv' /\ SingleAcceptance'
<1> DEFINE c == <<t, attempts[t] + 1>>
<1>1. /\ placement[t] = "queued"
      /\ leaseState' = [leaseState EXCEPT ![c] = "active"]
      /\ envelopeState' = [envelopeState EXCEPT ![c] = "leased"]
      /\ currentEnvelope' = [currentEnvelope EXCEPT ![t] = attempts[t] + 1]
      /\ attempts' = [attempts EXCEPT ![t] = @ + 1]
      /\ placement'[t] = "leased"
      /\ \A u \in Tasks : placement[u] = "leased" => placement'[u] = "leased"
      /\ UNCHANGED <<completion, acceptance>>
  BY DEF ClaimNext, Suitable, Queue, Overdue, TypeOK, completionVars
<1>2. attempts \in [Tasks -> Nat]
  BY RunsAssumption DEF TypeOK, LifecycleTypeOK
<1>3. c \in Leases /\ c[1] = t /\ c[2] = attempts[t] + 1
  BY RunsAssumption DEF ClaimNext, Leases, TypeOK, LifecycleTypeOK
<1>4. leaseState[c] = "none"
  BY <1>2, <1>3 DEF LeaseInv
<1>5. ASSUME NEW l \in Leases, l # c, leaseState[l] = "active" PROVE l[1] # t
  BY <1>1, <1>5 DEF LeaseInv
<1> HIDE DEF c
<1>6. LeaseInv'
  <2>1. ASSUME NEW l \in Leases, l # c
        PROVE  /\ leaseState'[l] # "none" => l[2] <= attempts'[l[1]]
               /\ leaseState'[l] = "active"
                    => placement'[l[1]] = "leased" /\ currentEnvelope'[l[1]] = l[2]
               /\ envelopeState'[l] = "reconciliation_required" => leaseState'[l] = "expired"
    <3>1. l[1] \in Tasks /\ l[2] \in Nat
      BY LeaseParts
    <3>2. leaseState'[l] = leaseState[l] /\ envelopeState'[l] = envelopeState[l]
      BY <1>1, <2>1 DEF TypeOK
    <3>3. leaseState[l] # "none" => l[2] <= attempts'[l[1]]
      BY <1>1, <1>2, <3>1 DEF LeaseInv
    <3>4. leaseState[l] = "active"
            => placement'[l[1]] = "leased" /\ currentEnvelope'[l[1]] = l[2]
      BY <1>1, <1>5, <2>1, <3>1 DEF LeaseInv, TypeOK
    <3>5. QED
      BY <3>2, <3>3, <3>4 DEF LeaseInv
  <2>2. /\ c[2] <= attempts'[c[1]]
        /\ placement'[c[1]] = "leased" /\ currentEnvelope'[c[1]] = c[2]
        /\ envelopeState'[c] # "reconciliation_required"
    BY <1>1, <1>2, <1>3 DEF TypeOK
  <2>3. QED
    BY <2>1, <2>2 DEF LeaseInv
<1>7. CompletionInv'
  BY <1>1, <1>3, <1>4 DEF CompletionInv, TypeOK
<1>8. SingleAcceptance'
  BY <1>1 DEF SingleAcceptance, TaskOfLease
<1>9. QED
  BY <1>6, <1>7, <1>8

\* A lease returned to the queue is not active any more, and no other lease of its
\* task is: the placement names one envelope.
LEMMA RequeueLeases ==
  ASSUME TypeOK, LeaseInv, NEW released \in SUBSET Leases, Requeue(released),
         attempts' = attempts,
         \A l \in Leases : leaseState'[l] = leaseState[l] \/ leaseState'[l] = "expired",
         \A l \in Leases : leaseState[l] = "none" => leaseState'[l] = "none",
         \A l \in released : leaseState'[l] # "active",
         \A l \in Leases : envelopeState'[l] = "reconciliation_required"
                             => leaseState'[l] = "expired"
  PROVE  LeaseInv'
<1> SUFFICES ASSUME NEW l \in Leases
             PROVE  /\ leaseState'[l] # "none" => l[2] <= attempts'[l[1]]
                    /\ leaseState'[l] = "active"
                         => placement'[l[1]] = "leased" /\ currentEnvelope'[l[1]] = l[2]
                    /\ envelopeState'[l] = "reconciliation_required"
                         => leaseState'[l] = "expired"
  BY DEF LeaseInv
<1>1. leaseState'[l] # "none" => l[2] <= attempts'[l[1]]
  BY DEF LeaseInv
<1>2. ASSUME leaseState'[l] = "active"
      PROVE  placement'[l[1]] = "leased" /\ currentEnvelope'[l[1]] = l[2]
  <2>1. /\ leaseState[l] = "active" /\ l \notin released
        /\ placement[l[1]] = "leased" /\ currentEnvelope[l[1]] = l[2]
    BY <1>2 DEF LeaseInv
  <2>2. l[1] \in Tasks /\ <<l[1], currentEnvelope[l[1]]>> \notin released
    BY <2>1, LeaseParts
  <2>3. QED
    BY <2>1, <2>2 DEF Requeue, TypeOK
<1>3. QED
  BY <1>1, <1>2

\* A sweep of expire_leases keeps the lease invariants.
LEMMA ExpireLeasesInv ==
  ASSUME TypeOK, LeaseInv, CompletionInv, SingleAcceptance, ExpireLeases
  PROVE  LeaseInv' /\ CompletionInv' /\ SingleAcceptance'
<1>1. /\ Requeue(Released) /\ Released \in SUBSET Leases /\ Released \subseteq Due
      /\ UNCHANGED <<attempts, completion, acceptance>>
  BY DEF ExpireLeases, Released, Due, completionVars
<1>2. \A l \in Leases : /\ l \in Due => leaseState'[l] = "expired" /\ leaseState[l] = "active"
                        /\ l \notin Due => leaseState'[l] = leaseState[l]
  BY DEF ExpireLeases, Due
<1>3. \A l \in Leases : l \notin Due => envelopeState'[l] = envelopeState[l]
  BY <1>1 DEF ExpireLeases
<1>4. \A l \in Leases : envelopeState'[l] = "reconciliation_required" => leaseState'[l] = "expired"
  BY <1>2, <1>3 DEF LeaseInv
<1>5. LeaseInv'
  BY <1>1, <1>2, <1>4, RequeueLeases
<1>6. CompletionInv'
  BY <1>1, <1>2 DEF CompletionInv
<1>7. SingleAcceptance'
  BY <1>1 DEF SingleAcceptance, TaskOfLease
<1>8. QED
  BY <1>5, <1>6, <1>7

\* begin_execution, renew_lease and reconciliation keep the lease invariants.
LEMMA LeaseStepInv ==
  ASSUME TypeOK, TypeOK', LeaseInv, CompletionInv, SingleAcceptance, NEW l \in Leases,
         BeginExecution(l) \/ RenewLease(l) \/ Reconcile(l)
  PROVE  LeaseInv' /\ CompletionInv' /\ SingleAcceptance'
<1>0. \A t \in Tasks : attempts[t] >= attempts[t]
  BY RunsAssumption DEF TypeOK, LifecycleTypeOK
<1>1. CASE BeginExecution(l)
  BY <1>1 DEF BeginExecution, LeaseInv, CompletionInv, SingleAcceptance, TaskOfLease, TypeOK,
              placementVars, completionVars
<1>2. CASE RenewLease(l)
  BY <1>0, <1>2, LeaseFrame DEF RenewLease, lifecycleVars, runVars, placementVars, completionVars
<1>3. CASE Reconcile(l)
  <2>1. /\ Requeue({l}) /\ {l} \in SUBSET Leases
        /\ UNCHANGED <<attempts, leaseState, completion, acceptance>>
        /\ envelopeState' = [envelopeState EXCEPT ![l] = "expired"]
        /\ leaseState[l] = "expired"
    BY <1>3 DEF Reconcile, LeaseInv, completionVars
  <2>2. \A m \in Leases : envelopeState'[m] = "reconciliation_required" => leaseState'[m] = "expired"
    BY <2>1 DEF LeaseInv, TypeOK
  <2>3. LeaseInv'
    BY <2>1, <2>2, RequeueLeases
  <2>4. QED
    BY <2>1, <2>3 DEF CompletionInv, SingleAcceptance, TaskOfLease
<1>4. QED
  BY <1>1, <1>2, <1>3

\* A delivery closes its lease, or leaves everything but the completion alone.
LEMMA DeliverInv ==
  ASSUME TypeOK, LeaseInv, CompletionInv, SingleAcceptance, NEW l \in Leases,
         NEW k \in Submissions, NEW consistent \in BOOLEAN, DeliverCompletion(l, k, consistent)
  PROVE  LeaseInv' /\ CompletionInv' /\ SingleAcceptance'
<1> DEFINE s == DeliveryState(l, consistent)
<1>1. /\ s \in {"duplicate", "delivered", "stale"}
      /\ s = "delivered" => leaseState[l] = "active"
      /\ completion[l][k] = "none"
      /\ completion' = [completion EXCEPT ![l][k] = s]
      /\ leaseState' = IF s = "delivered" THEN [leaseState EXCEPT ![l] = "completed"]
                       ELSE leaseState
      /\ envelopeState' = IF s = "delivered" THEN [envelopeState EXCEPT ![l] = "validating"]
                          ELSE envelopeState
      /\ UNCHANGED <<attempts, placement, currentEnvelope, acceptance>>
  BY DEF DeliverCompletion, DeliveryState, placementVars
<1> HIDE DEF s
<1>2. LeaseInv'
  BY <1>1 DEF LeaseInv, TypeOK
<1>3. CompletionInv'
  BY <1>1 DEF CompletionInv, TypeOK
<1>4. SingleAcceptance'
  BY <1>1 DEF SingleAcceptance, TaskOfLease, TypeOK
<1>5. QED
  BY <1>2, <1>3, <1>4

\* The first acceptance of a task is the only one; its lease is closed already.
LEMMA AcceptInv ==
  ASSUME TypeOK, LeaseInv, CompletionInv, SingleAcceptance, NEW l \in Leases,
         NEW k \in Submissions, AcceptCompletion(l, k) \/ AcceptDuplicate(l, k)
  PROVE  LeaseInv' /\ CompletionInv' /\ SingleAcceptance'
<1>1. l[1] \in Tasks
  BY LeaseParts
<1>2. CASE AcceptCompletion(l, k)
  <2>1. /\ acceptance[l[1]] = None
        /\ completion[l][k] = "delivered"
        /\ acceptance' = [acceptance EXCEPT ![l[1]] = <<l, k>>]
        /\ completion' = [completion EXCEPT ![l][k] = "accepted"]
        /\ envelopeState' = [envelopeState EXCEPT ![l] = "completed"]
        /\ UNCHANGED <<attempts, leaseState, currentEnvelope>>
        /\ \A t \in Tasks : t # l[1] => placement'[t] = placement[t]
        /\ currentEnvelope[l[1]] # l[2] => placement'[l[1]] = placement[l[1]]
    BY <1>2 DEF AcceptCompletion, TaskOfLease, TypeOK
  <2>2. leaseState[l] = "completed"
    BY <2>1 DEF CompletionInv
  <2>3. LeaseInv'
    <3>1. ASSUME NEW m \in Leases, leaseState[m] = "active"
          PROVE  placement'[m[1]] = "leased" /\ currentEnvelope[m[1]] = m[2]
      <4>1. m[1] = l[1] => m[2] # l[2]
        BY <2>2, <3>1, LeaseParts
      <4>2. QED
        BY <2>1, <3>1, <4>1, LeaseParts DEF LeaseInv
    <3>2. QED
      BY <2>1, <3>1 DEF LeaseInv, TypeOK
  <2>4. CompletionInv'
    BY <2>1, <2>2 DEF CompletionInv, TypeOK
  <2>5. SingleAcceptance'
    <3>1. ASSUME NEW m \in Leases, NEW j \in Submissions
          PROVE  completion'[m][j] = "accepted" <=> acceptance'[m[1]] = <<m, j>>
      <4>1. CASE m = l /\ j = k
        BY <1>1, <2>1, <4>1 DEF TypeOK
      <4>2. CASE ~(m = l /\ j = k)
        <5>1. completion'[m][j] = completion[m][j]
          BY <2>1, <4>2 DEF TypeOK
        <5>2. CASE m[1] = l[1]
          <6>1. completion[m][j] # "accepted"
            BY <2>1, <5>2, LeaseParts DEF SingleAcceptance, TaskOfLease
          <6>2. acceptance'[m[1]] = <<l, k>>
            BY <1>1, <2>1, <5>2 DEF TypeOK
          <6>3. QED
            BY <4>2, <5>1, <6>1, <6>2
        <5>3. CASE m[1] # l[1]
          <6>1. acceptance'[m[1]] = acceptance[m[1]]
            BY <2>1, <5>3, LeaseParts DEF TypeOK
          <6>2. QED
            BY <5>1, <6>1 DEF SingleAcceptance, TaskOfLease
        <5>4. QED
          BY <5>2, <5>3
      <4>3. QED
        BY <4>1, <4>2
    <3>2. QED
      BY <3>1 DEF SingleAcceptance, TaskOfLease
  <2>6. QED
    BY <2>3, <2>4, <2>5
<1>3. CASE AcceptDuplicate(l, k)
  <2>1. /\ acceptance[l[1]] # <<l, k>>
        /\ completion' = [completion EXCEPT ![l][k] = "duplicate"]
        /\ UNCHANGED <<attempts, placement, currentEnvelope, leaseState, envelopeState, acceptance>>
    BY <1>3 DEF AcceptDuplicate, TaskOfLease, lifecycleVars, runVars, placementVars, leaseVars
  <2>2. LeaseInv'
    BY <2>1 DEF LeaseInv
  <2>3. \A m \in Leases, j \in Submissions :
          completion'[m][j] = IF m = l /\ j = k THEN "duplicate" ELSE completion[m][j]
    BY <2>1 DEF TypeOK
  <2>4. CompletionInv'
    BY <2>1, <2>3 DEF CompletionInv
  <2>5. SingleAcceptance'
    BY <2>1, <2>3 DEF SingleAcceptance, TaskOfLease
  <2>6. QED
    BY <2>2, <2>4, <2>5
<1>4. QED
  BY <1>2, <1>3

\* Every step keeps the lease invariant.
LEMMA LeasesStep ==
  ASSUME TypeOK, TypeOK', LeaseInv, CompletionInv, SingleAcceptance, [Next]_vars
  PROVE  LeaseInv' /\ CompletionInv' /\ SingleAcceptance'
<1>0. \A t \in Tasks : attempts[t] >= attempts[t] /\ attempts[t] + 1 >= attempts[t]
  BY RunsAssumption DEF TypeOK, LifecycleTypeOK
<1>1. CASE RunCommand
  <2>1. \A t \in Tasks : attempts'[t] >= attempts[t]
    <3>1. CASE \E t \in Tasks : MissionClaim(t)
      BY <1>0, <3>1 DEF MissionClaim, ClaimTask, TypeOK, LifecycleTypeOK
    <3>2. CASE ~ \E t \in Tasks : MissionClaim(t)
      <4>1. attempts' = attempts
        BY <1>1, <3>2 DEF RunCommand, Cancel, Recover, RecoverScan, RecoverEnd, RecoverRelease,
                          OtherEffect, Crash, runVars
      <4>2. QED
        BY <1>0, <4>1
    <3>3. QED
      BY <3>1, <3>2
  <2>2. QED
    BY <1>1, <2>1, LeaseFrame
    DEF RunCommand, coordinationVars, placementVars, leaseVars, completionVars
<1>2. ASSUME NEW t \in Tasks, QueuePlacement(t)
      PROVE  LeaseInv' /\ CompletionInv' /\ SingleAcceptance'
  BY <1>0, <1>2, LeaseFrame DEF QueuePlacement, TypeOK, lifecycleVars, runVars, leaseVars,
                                completionVars
<1>3. ASSUME NEW w \in Workers, WorkerStep(w)
      PROVE  LeaseInv' /\ CompletionInv' /\ SingleAcceptance'
  <2>1. CASE Heartbeat(w) \/ Revoke(w)
    BY <1>0, <2>1, LeaseFrame DEF Heartbeat, Revoke, lifecycleVars, runVars, placementVars,
                                  leaseVars, completionVars
  <2>2. CASE ClaimNothing(w)
    BY <1>0, <2>2, LeaseFrame DEF ClaimNothing, Overdue, Queue, lifecycleVars, runVars, leaseVars,
                                  completionVars
  <2>3. QED
    BY <1>3, <2>1, <2>2, ClaimLeases DEF WorkerStep
<1>4. ASSUME NEW l \in Leases, LeaseStep(l)
      PROVE  LeaseInv' /\ CompletionInv' /\ SingleAcceptance'
  BY <1>4, LeaseStepInv, DeliverInv, AcceptInv DEF LeaseStep
<1>5. CASE Tick
  BY <1>0, <1>5, LeaseFrame DEF Tick, lifecycleVars, runVars, completionVars
<1>6. CASE UNCHANGED vars
  BY <1>0, <1>6, LeaseFrame DEF vars, lifecycleVars, runVars, coordinationVars, placementVars,
                                leaseVars, completionVars
<1>7. QED
  BY <1>1, <1>2, <1>3, <1>4, <1>5, <1>6, ExpireLeasesInv DEF Next

-------------------------------------------------------------------------------
(* A leased task has a lease. *)

\* Steps after which no new task is leased and no lease that matters is gone.
LEMMA OrphanFrame ==
  ASSUME NoOrphanedLease, UNCHANGED <<leaseState, envelopeState>>,
         \A t \in Tasks : taskStatus'[t] = "leased" => taskStatus[t] = "leased"
  PROVE  NoOrphanedLease'
BY DEF NoOrphanedLease, TaskOfLease

\* No run command makes a task leased.
LEMMA OrphanRunCommand ==
  ASSUME TypeOK, RunCommand, NEW t \in Tasks, taskStatus'[t] = "leased"
  PROVE  taskStatus[t] = "leased"
<1>1. CASE \E r \in Runs : Cancel(r) \/ Recover(r) \/ RecoverEnd(r) \/ OtherEffect(r)
  BY <1>1 DEF Cancel, Recover, RecoverScan, RecoverEnd, RecoverRelease, OtherEffect, runVars
<1>2. CASE \E u \in Tasks : MissionClaim(u)
  BY <1>2 DEF MissionClaim, ClaimTask, TypeOK, LifecycleTypeOK
<1>3. CASE Crash
  BY <1>3 DEF Crash, runVars
<1>4. QED
  BY <1>1, <1>2, <1>3 DEF RunCommand

\* No step orphans a lease.
LEMMA OrphanStep ==
  ASSUME TypeOK, LeaseInv, CompletionInv, NoOrphanedLease, [Next]_vars
  PROVE  NoOrphanedLease'
<1>1. CASE RunCommand
  BY <1>1, OrphanRunCommand, OrphanFrame DEF RunCommand, coordinationVars, leaseVars
<1>2. CASE \E t \in Tasks : QueuePlacement(t)
  BY <1>2, OrphanFrame DEF QueuePlacement, lifecycleVars, runVars, leaseVars
<1>3. ASSUME NEW w \in Workers, WorkerStep(w) PROVE NoOrphanedLease'
  <2>1. CASE Heartbeat(w) \/ Revoke(w) \/ ClaimNothing(w)
    BY <2>1, OrphanFrame DEF Heartbeat, Revoke, ClaimNothing, lifecycleVars, runVars, leaseVars
  <2>2. ASSUME NEW t \in Tasks, ClaimNext(w, t) PROVE NoOrphanedLease'
    <3> DEFINE c == <<t, attempts[t] + 1>>
    <3>1. c \in Leases /\ c[1] = t
      BY <2>2, RunsAssumption DEF ClaimNext, Leases, TypeOK, LifecycleTypeOK
    <3>2. /\ leaseState' = [leaseState EXCEPT ![c] = "active"]
          /\ envelopeState' = [envelopeState EXCEPT ![c] = "leased"]
          /\ taskStatus' = [taskStatus EXCEPT ![t] = "leased"]
      BY <2>2 DEF ClaimNext
    <3> HIDE DEF c
    <3>3. QED
      BY <3>1, <3>2 DEF NoOrphanedLease, TaskOfLease, TypeOK, LifecycleTypeOK
  <2>3. QED
    BY <1>3, <2>1, <2>2 DEF WorkerStep
<1>4. ASSUME NEW l \in Leases, LeaseStep(l) PROVE NoOrphanedLease'
  <2>0. l[1] \in Tasks
    BY LeaseParts
  <2>1. CASE BeginExecution(l)
    BY <2>0, <2>1 DEF BeginExecution, NoOrphanedLease, TaskOfLease, TypeOK, LifecycleTypeOK
  <2>2. CASE RenewLease(l)
    BY <2>2, OrphanFrame DEF RenewLease, lifecycleVars, runVars
  <2>3. CASE Reconcile(l)
    <3>1. /\ taskStatus'[l[1]] # "leased"
          /\ \A t \in Tasks : t # l[1] => taskStatus'[t] = taskStatus[t]
      BY <2>0, <2>3 DEF Reconcile, ReleaseTasks, TaskOfLease, TypeOK, LifecycleTypeOK
    <3>2. /\ leaseState' = leaseState
          /\ \A m \in Leases : m # l => envelopeState'[m] = envelopeState[m]
      BY <2>3 DEF Reconcile, TypeOK
    <3>3. QED
      BY <3>1, <3>2 DEF NoOrphanedLease, TaskOfLease
  <2>4. ASSUME NEW k \in Submissions, NEW consistent \in BOOLEAN,
               DeliverCompletion(l, k, consistent)
        PROVE  NoOrphanedLease'
    <3>1. CASE DeliveryState(l, consistent) = "delivered"
      BY <2>0, <2>4, <3>1 DEF DeliverCompletion, NoOrphanedLease, TaskOfLease, TypeOK,
                              LifecycleTypeOK
    <3>2. CASE DeliveryState(l, consistent) # "delivered"
      BY <2>4, <3>2, OrphanFrame DEF DeliverCompletion
    <3>3. QED
      BY <3>1, <3>2
  <2>5. ASSUME NEW k \in Submissions, AcceptCompletion(l, k) PROVE NoOrphanedLease'
    <3>1. leaseState[l] = "completed"
      BY <2>5 DEF AcceptCompletion, CompletionInv
    <3>2. envelopeState[l] # "reconciliation_required"
      BY <3>1 DEF LeaseInv
    <3>3. \A t \in Tasks : taskStatus'[t] = "leased" => taskStatus[t] = "leased"
      BY <2>0, <2>5, AcceptEffect DEF AcceptCompletion, TaskOfLease, TypeOK
    <3>4. QED
      BY <2>5, <3>1, <3>2, <3>3 DEF AcceptCompletion, NoOrphanedLease, TypeOK
  <2>6. ASSUME NEW k \in Submissions, AcceptDuplicate(l, k) PROVE NoOrphanedLease'
    BY <2>6, OrphanFrame DEF AcceptDuplicate, lifecycleVars, runVars, leaseVars
  <2>7. QED
    BY <1>4, <2>1, <2>2, <2>3, <2>4, <2>5, <2>6 DEF LeaseStep
<1>5. CASE ExpireLeases
  <2> SUFFICES ASSUME NEW t \in Tasks, taskStatus'[t] = "leased"
               PROVE  \E l \in Leases : /\ TaskOfLease(l) = t
                                        /\ \/ leaseState'[l] = "active"
                                           \/ envelopeState'[l] = "reconciliation_required"
    BY DEF NoOrphanedLease
  <2>1. /\ taskStatus[t] = "leased"
        /\ ~ \E l \in Released : TaskOfLease(l) = t
    BY <1>5 DEF ExpireLeases, ReleaseTasks, TypeOK, LifecycleTypeOK
  <2>2. PICK l \in Leases : /\ TaskOfLease(l) = t
                            /\ \/ leaseState[l] = "active"
                               \/ envelopeState[l] = "reconciliation_required"
    BY <2>1 DEF NoOrphanedLease
  <2>3. l \notin Released
    BY <2>1, <2>2
  <2>4. QED
    BY <1>5, <2>2, <2>3 DEF ExpireLeases
<1>6. CASE Tick
  BY <1>6, OrphanFrame DEF Tick, lifecycleVars, runVars
<1>7. CASE UNCHANGED vars
  BY <1>7, OrphanFrame DEF vars, lifecycleVars, runVars, coordinationVars, leaseVars
<1>8. QED
  BY <1>1, <1>2, <1>3, <1>4, <1>5, <1>6, <1>7 DEF Next

-------------------------------------------------------------------------------
(* Acceptance, dependencies and results. *)

\* Releasing the tasks of ended leases keeps acceptance and dependency order.
LEMMA ReleaseKeeps ==
  ASSUME TypeOK, DurableAcceptance, NEW released, ReleaseTasks(released),
         UNCHANGED <<runStatus, result>>
  PROVE  RowsKept
BY DEF TypeOK, LifecycleTypeOK, ReleaseTasks, RowsKept

\* Every step of the coordinator keeps acceptance and dependency order.
LEMMA CoordinationKeeps ==
  ASSUME TypeOK, DurableAcceptance, [Next]_vars
  PROVE  RowsKept \/ \E l \in Leases, k \in Submissions : AcceptCompletion(l, k)
<1>0. LifecycleTypeOK
  BY DEF TypeOK
<1> USE <1>0, RowsUnchanged
<1>1. CASE RunCommand
  BY <1>1, OperatorKeeps DEF RunCommand, Operator
<1>2. CASE \E t \in Tasks : QueuePlacement(t)
  BY <1>2 DEF QueuePlacement, lifecycleVars
<1>3. ASSUME NEW w \in Workers, WorkerStep(w) PROVE RowsKept
  <2>1. CASE Heartbeat(w) \/ Revoke(w) \/ ClaimNothing(w)
    BY <2>1 DEF Heartbeat, Revoke, ClaimNothing, lifecycleVars
  <2>2. CASE \E t \in Tasks : ClaimNext(w, t)
    BY <2>2 DEF ClaimNext, RowsKept, LifecycleTypeOK
  <2>3. QED
    BY <1>3, <2>1, <2>2 DEF WorkerStep
<1>4. ASSUME NEW l \in Leases, LeaseStep(l), ~ \E k \in Submissions : AcceptCompletion(l, k)
      PROVE  RowsKept
  <2>0. l[1] \in Tasks
    BY LeaseParts
  <2>1. CASE BeginExecution(l)
    BY <2>0, <2>1 DEF BeginExecution, TaskOfLease, RowsKept, LifecycleTypeOK
  <2>2. CASE RenewLease(l)
    BY <2>2 DEF RenewLease, lifecycleVars
  <2>3. CASE Reconcile(l)
    BY <2>3, ReleaseKeeps DEF Reconcile
  <2>4. ASSUME NEW k \in Submissions, NEW consistent \in BOOLEAN,
               DeliverCompletion(l, k, consistent)
        PROVE  RowsKept
    <3>1. CASE DeliveryState(l, consistent) = "delivered"
      BY <2>0, <2>4, <3>1 DEF DeliverCompletion, TaskOfLease, RowsKept, LifecycleTypeOK
    <3>2. CASE DeliveryState(l, consistent) # "delivered"
      BY <2>4, <3>2 DEF DeliverCompletion, runVars
    <3>3. QED
      BY <3>1, <3>2
  <2>5. CASE \E k \in Submissions : AcceptDuplicate(l, k)
    BY <2>5 DEF AcceptDuplicate, lifecycleVars
  <2>6. QED
    BY <1>4, <2>1, <2>2, <2>3, <2>4, <2>5 DEF LeaseStep
<1>5. CASE ExpireLeases
  BY <1>5, ReleaseKeeps DEF ExpireLeases
<1>6. CASE Tick
  BY <1>6 DEF Tick, lifecycleVars
<1>7. CASE UNCHANGED vars
  BY <1>7 DEF vars, lifecycleVars
<1>8. QED
  BY <1>1, <1>2, <1>3, <1>4, <1>5, <1>6, <1>7 DEF Next

\* accept_completion keeps acceptance and dependency order.
LEMMA WorkerAcceptance ==
  ASSUME TypeOK, DependencyEligibility, DurableAcceptance,
         NEW l \in Leases, NEW k \in Submissions, AcceptCompletion(l, k)
  PROVE  DependencyEligibility' /\ DurableAcceptance'
<1>1. TaskOfLease(l) \in Tasks
  BY LeaseParts DEF TaskOfLease
<1>2. QED
  BY <1>1, AcceptanceInv DEF AcceptCompletion, TypeOK, Producers

-------------------------------------------------------------------------------
\* Every step of workers, coordinator, operator and crash keeps the invariant.
LEMMA CoordinationStep == CoordinationInv /\ [Next]_vars => CoordinationInv'
<1> SUFFICES ASSUME CoordinationInv, [Next]_vars PROVE CoordinationInv'
  OBVIOUS
<1>0. /\ TypeOK /\ LifecycleTypeOK /\ DependencyEligibility /\ DurableAcceptance
      /\ LeaseInv /\ CompletionInv /\ SingleAcceptance /\ NoOrphanedLease
  BY DEF CoordinationInv, TypeOK
<1>1. TypeOK'
  BY <1>0, TypeStep
<1>2. LeaseInv' /\ CompletionInv' /\ SingleAcceptance'
  BY <1>0, <1>1, LeasesStep
<1>3. NoOrphanedLease'
  BY <1>0, OrphanStep
<1>4. DependencyEligibility' /\ DurableAcceptance'
  BY <1>0, CoordinationKeeps, RowsKeptInv, WorkerAcceptance
<1>5. QED
  BY <1>1, <1>2, <1>3, <1>4 DEF CoordinationInv

\* CoordinationInv is an invariant of the coordination store under every interleaving
\* of workers, sweeps, completions, run commands and crashes.
THEOREM CoordinationInvHolds == Spec => []CoordinationInv
<1>1. CoordinationInit => CoordinationInv
  BY CoordinationInitInv
<1>2. CoordinationInv /\ [Next]_vars => CoordinationInv'
  BY CoordinationStep
<1>3. QED
  BY <1>1, <1>2, PTL DEF Spec

\* Every row of the store keeps a value of its range.
THEOREM CoordinationTypeCorrect == Spec => []TypeOK
<1>1. CoordinationInv => TypeOK
  BY DEF CoordinationInv
<1>2. QED
  BY <1>1, CoordinationInvHolds, PTL

\* No task ever has two active leases: queue_placement keeps one placement per task
\* and claim_next, expire_leases and reconciliation move it as one.
THEOREM LeasesExclusive == Spec => []OneActiveLease
<1>1. CoordinationInv => OneActiveLease
  <2> SUFFICES ASSUME LeaseInv, NEW l \in Leases, NEW m \in Leases,
                      leaseState[l] = "active", leaseState[m] = "active", l[1] = m[1]
               PROVE  l = m
    BY DEF CoordinationInv, OneActiveLease, TaskOfLease
  <2>1. l[2] = m[2]
    BY DEF LeaseInv
  <2>2. QED
    BY <2>1, LeaseParts
<1>2. QED
  BY <1>1, CoordinationInvHolds, PTL

\* accept_completion accepts one completion of a task, and its row names it.
THEOREM AcceptanceUnique == Spec => []SingleAcceptance
<1>1. CoordinationInv => SingleAcceptance
  BY DEF CoordinationInv
<1>2. QED
  BY <1>1, CoordinationInvHolds, PTL

\* A leased task always has a lease or a reconciliation that can end it.
THEOREM LeasesNotOrphaned == Spec => []NoOrphanedLease
<1>1. CoordinationInv => NoOrphanedLease
  BY DEF CoordinationInv
<1>2. QED
  BY <1>1, CoordinationInvHolds, PTL

\* Acceptance and result agree in the shared store too.
THEOREM WorkerAcceptanceDurable == Spec => []DurableAcceptance
<1>1. CoordinationInv => DurableAcceptance
  BY DEF CoordinationInv
<1>2. QED
  BY <1>1, CoordinationInvHolds, PTL

\* No step brings the authority of a lease back.
LEMMA OverStays ==
  ASSUME TypeOK, LeaseInv, [Next]_vars, NEW l \in Leases, Over(l)
  PROVE  Over(l)'
<1> USE DEF Over, TypeOK
<1>1. CASE RunCommand
  BY <1>1 DEF RunCommand, coordinationVars, leaseVars
<1>2. CASE \E t \in Tasks : QueuePlacement(t)
  BY <1>2 DEF QueuePlacement, leaseVars
<1>3. ASSUME NEW w \in Workers, WorkerStep(w) PROVE Over(l)'
  <2>1. CASE Heartbeat(w) \/ Revoke(w) \/ ClaimNothing(w)
    BY <2>1 DEF Heartbeat, Revoke, ClaimNothing, leaseVars
  <2>2. ASSUME NEW t \in Tasks, ClaimNext(w, t) PROVE Over(l)'
    <3> DEFINE c == <<t, attempts[t] + 1>>
    <3>1. attempts[t] \in Nat
      BY RunsAssumption DEF LifecycleTypeOK
    <3>2. l # c
      BY <3>1 DEF LeaseInv
    <3>3. leaseState' = [leaseState EXCEPT ![c] = "active"]
      BY <2>2 DEF ClaimNext
    <3>4. leaseTimer'[l] = leaseTimer[l]
      BY <2>2, <3>2 DEF ClaimNext
    <3>5. QED
      BY <3>2, <3>3, <3>4
  <2>3. QED
    BY <1>3, <2>1, <2>2 DEF WorkerStep
<1>4. ASSUME NEW m \in Leases, LeaseStep(m) PROVE Over(l)'
  <2>1. CASE BeginExecution(m) \/ Reconcile(m)
    BY <2>1 DEF BeginExecution, Reconcile
  <2>2. CASE RenewLease(m)
    <3>1. m # l
      BY <2>2 DEF RenewLease, LeaseUsable
    <3>2. QED
      BY <2>2, <3>1 DEF RenewLease
  <2>3. ASSUME NEW k \in Submissions, NEW consistent \in BOOLEAN,
               DeliverCompletion(m, k, consistent)
        PROVE  Over(l)'
    <3>1. DeliveryState(m, consistent) = "delivered" => m # l
      BY DEF DeliveryState
    <3>2. QED
      BY <2>3, <3>1 DEF DeliverCompletion
  <2>4. CASE \E k \in Submissions : AcceptCompletion(m, k) \/ AcceptDuplicate(m, k)
    BY <2>4 DEF AcceptCompletion, AcceptDuplicate, leaseVars
  <2>5. QED
    BY <1>4, <2>1, <2>2, <2>3, <2>4 DEF LeaseStep
<1>5. CASE ExpireLeases
  BY <1>5 DEF ExpireLeases
<1>6. CASE Tick
  BY <1>6 DEF Tick, Less
<1>7. CASE UNCHANGED vars
  BY <1>7 DEF vars, coordinationVars, leaseVars
<1>8. QED
  BY <1>1, <1>2, <1>3, <1>4, <1>5, <1>6, <1>7 DEF Next

\* INV-023 for every number of workers, attempts and ticks: what deliver_completion,
\* renew_lease and accept_completion check suffices.
THEOREM AuthorityExpires == Spec => ExpiredAuthority
<1>1. CoordinationInv /\ CoordinationInv' /\ [Next]_vars =>
        [\A l \in Leases : Over(l) =>
           /\ Over(l)'
           /\ \A k \in Submissions : completion'[l][k] \notin {"delivered", "accepted"}]_vars
  <2> SUFFICES ASSUME CoordinationInv, CoordinationInv', [Next]_vars, NEW l \in Leases, Over(l)
               PROVE  /\ Over(l)'
                      /\ \A k \in Submissions :
                           completion'[l][k] \notin {"delivered", "accepted"}
    OBVIOUS
  <2>1. Over(l)'
    BY OverStays DEF CoordinationInv
  <2>2. leaseState'[l] # "completed"
    BY <2>1 DEF Over
  <2>3. QED
    BY <2>1, <2>2 DEF CoordinationInv, CompletionInv
<1>2. QED
  BY <1>1, CoordinationInvHolds, PTL DEF Spec, ExpiredAuthority

\* Results accepted from workers are never replaced or lost.
THEOREM WorkerResultsStable == Spec => AcceptedResultStable
<1>1. CoordinationInv /\ [Next]_vars =>
        [\A t \in Tasks : result[t] # None
           => result'[t] = result[t] /\ taskStatus'[t] = "accepted"]_lifecycleVars
  <2> SUFFICES ASSUME CoordinationInv, [Next]_vars, NEW t \in Tasks, result[t] # None
               PROVE  result'[t] = result[t] /\ taskStatus'[t] = "accepted"
    OBVIOUS
  <2>0. TypeOK /\ LifecycleTypeOK /\ DurableAcceptance
    BY DEF CoordinationInv, TypeOK
  <2>1. taskStatus[t] = "accepted"
    BY <2>0 DEF DurableAcceptance
  <2>2. CASE RowsKept
    BY <2>1, <2>2 DEF RowsKept
  <2>3. ASSUME NEW l \in Leases, NEW k \in Submissions, AcceptCompletion(l, k)
        PROVE  result'[t] = result[t] /\ taskStatus'[t] = "accepted"
    <3>1. TaskOfLease(l) \in Tasks /\ t # TaskOfLease(l)
      BY <2>3, LeaseParts DEF TaskOfLease, AcceptCompletion
    <3>2. QED
      BY <2>0, <2>1, <2>3, <3>1, AcceptEffect DEF AcceptCompletion, LifecycleTypeOK
  <2>4. QED
    BY <2>0, <2>2, <2>3, CoordinationKeeps
<1>2. QED
  BY <1>1, CoordinationInvHolds, PTL DEF Spec, AcceptedResultStable
===============================================================================
