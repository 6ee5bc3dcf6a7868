--------------------------- MODULE TeamEffectiveness ---------------------------
(* SQLiteTeamEffectivenessRepository (missions/team_repository.py), the signal  *)
(* detector and validators beside it and the model-backed evaluator over        *)
(* Missions.  Every record has a target of its own, so the records of two       *)
(* threads interleave with each other and with mission commands: a record is    *)
(* checked in one step and inserted in a later one, and only the index on a     *)
(* plan's version keeps two threads apart.                                      *)
EXTENDS Missions, FiniteSets

CONSTANTS
  OwnerOf,      \* the accountable owner of a task
  Owners,       \* the production owners
  HandsOver,    \* owners whose edges in the plan hand work over
  Share,        \* workload threshold in percent
  MaxCursor, MaxCollabs, MaxRecords \* bounds: event cursor, plans, evaluations and adaptations

ASSUME TeamAssumption ==
  /\ {Share, MaxCursor, MaxCollabs, MaxRecords} \subseteq Nat
  /\ OwnerOf \in [Work -> Owners] /\ HandsOver \subseteq Owners

VARIABLES
  collabs,     \* Brief and Crew version of each collaboration plan
  signals,     \* recorded team signals
  handed,      \* tasks whose hand-off is recorded
  healths,     \* recorded health evaluations, in the order of their inserts
  adaptations, \* recorded Crew adaptations, in order
  approvals,   \* number of accepted executive decisions
  desk         \* what each thread read and has not recorded yet

teamVars == <<collabs, signals, handed, healths, adaptations, approvals, desk>>

SignalKinds == {"context_drift", "workload_concentration", "missing_handoff", "rejection"}
HealthStatuses == {"healthy", "attention", "uncertain"}
Dispositions == {"bounded", "approval_required"}
NoDesk == [kind |-> "none"]

TeamTypeOK ==
  /\ Len(collabs) <= MaxCollabs
  /\ \A i \in DOMAIN collabs : collabs[i] \in [brief : 1..MaxBriefs, crew : 1..MaxCrews]
  /\ \A s \in signals : s.kind \in SignalKinds /\ s.plan \in DOMAIN collabs /\ s.tasks \subseteq Work
  /\ handed \subseteq Work /\ approvals \in 0..1
  /\ \A i \in DOMAIN healths : healths[i].status \in HealthStatuses
  /\ \A i \in DOMAIN adaptations : adaptations[i].disposition \in Dispositions
  /\ \A h \in Hands : desk[h].kind \in {"none", "plan", "evaluate", "health", "adapt"}

TeamInit ==
  /\ collabs = <<>> /\ signals = {} /\ handed = {} /\ healths = <<>> /\ adaptations = <<>>
  /\ approvals = 0 /\ desk = [h \in Hands |-> NoDesk]

\* What a record changes besides the thread's desk is in the tables of this module.
Free(h) == desk[h] = NoDesk
Takes(h, row) == desk' = [desk EXCEPT ![h] = row]
Leaves(h) == desk' = [desk EXCEPT ![h] = NoDesk]

-----------------------------------------------------------------------------
(* Signals.                                                                   *)

Production == OfKind("production")
OwnedBy(o) == {t \in Production : OwnerOf[t] = o}

\* Tasks with a binding that was accepted, of whatever assignment.
AcceptedTasks ==
  {t \in Work : \E k \in Keys : \E i \in DOMAIN bound[k] :
     bound[k][i].task = t /\ bound[k][i].outcome = "accepted"}

Concerned(kind, v) ==
  CASE kind = "context_drift" -> {t \in Assigned : Latest(t).crew # collabs[v].crew}
    [] kind = "workload_concentration" ->
         UNION {OwnedBy(o) : o \in {o \in Owners :
           /\ Cardinality(Production) > 1
           /\ 100 * Cardinality(OwnedBy(o)) >= Share * Cardinality(Production)}}
    [] kind = "missing_handoff" ->
         {t \in AcceptedTasks \cap Assigned : OwnerOf[t] \in HandsOver /\ t \notin handed}
    [] kind = "rejection" -> {t \in Work : \E r \in Runs : t \in refused[r]}

\* TeamSignalDetector: one signal of each kind that concerns any task; duplicate work,
\* rework and waiting times, found in the same way, are left out.
Detected(v, cursor) ==
  {[kind |-> k, plan |-> v, tasks |-> Concerned(k, v), at |-> cursor] :
     k \in {k \in SignalKinds : Concerned(k, v) # {}}}

\* mission.signal.record, and each signal an evaluation detects.
RecordSignal(signal) ==
  /\ signal.plan \in DOMAIN collabs /\ signal.tasks \subseteq Assigned
  /\ signals' = signals \cup {signal}

RecordHandoff(t) ==
  /\ collabs # <<>> /\ t \in Assigned /\ OwnerOf[t] \in HandsOver /\ t \notin handed
  /\ handed' = handed \cup {t}
  /\ UNCHANGED <<collabs, signals, healths, adaptations, approvals, desk>>

-----------------------------------------------------------------------------
(* Collaboration plans.                                                       *)

\* record_collaboration_plan: the next version, of the mission's current Brief and Crew.
CheckCollaboration(h) ==
  /\ Free(h) /\ Readable /\ mission.brief # 0 /\ mission.crew # 0
  /\ crews[mission.crew] = mission.brief /\ Len(collabs) < MaxCollabs
  /\ Takes(h, [kind |-> "plan", place |-> Len(collabs) + 1,
               row |-> [brief |-> mission.brief, crew |-> mission.crew]])
  /\ UNCHANGED <<collabs, signals, handed, healths, adaptations, approvals>>

\* Mutant: the version is not unique.
WriteCollaborationAnyway(h) ==
  /\ desk[h].kind = "plan" /\ collabs' = Append(collabs, desk[h].row)
  /\ Leaves(h)
  /\ UNCHANGED <<signals, handed, healths, adaptations, approvals>>

\* The insert: (mission, version) is unique.
WriteCollaboration(h) ==
  /\ desk[h].kind = "plan"
  /\ collabs' = IF desk[h].place = Len(collabs) + 1 THEN Append(collabs, desk[h].row) ELSE collabs
  /\ Leaves(h)
  /\ UNCHANGED <<signals, handed, healths, adaptations, approvals>>

-----------------------------------------------------------------------------
(* mission.health.evaluate.                                                   *)

\* The handler reads the plan, assignments, bindings and hand-offs once.
BeginEvaluation(h, v, cursor) ==
  /\ Free(h) /\ v \in DOMAIN collabs /\ cursor \in 1..MaxCursor /\ Len(healths) < MaxRecords
  /\ Takes(h, [kind |-> "evaluate", plan |-> v, cursor |-> cursor,
               todo |-> Detected(v, cursor), found |-> Detected(v, cursor)])
  /\ UNCHANGED <<collabs, signals, handed, healths, adaptations, approvals>>

\* Every detected signal is recorded in a transaction of its own.
RecordDetected(h) ==
  /\ desk[h].kind = "evaluate"
  /\ \E s \in desk[h].todo :
       /\ RecordSignal(s)
       /\ Takes(h, [desk[h] EXCEPT !.todo = @ \ {s}])
  /\ UNCHANGED <<collabs, handed, healths, adaptations, approvals>>

\* What the evaluator makes of a model's answer: no answer, or one that invents
\* evidence, is uncertain; a healthy answer that omits a dimension asks for attention.
Normalized(answer) ==
  IF ~answer.valid \/ answer.invents THEN "uncertain"
  ELSE IF answer.omits /\ answer.status = "healthy" THEN "attention" ELSE answer.status

Answers == [valid : BOOLEAN, invents : BOOLEAN, omits : BOOLEAN, status : HealthStatuses]

\* MissionTeamEvaluator.evaluate over the signals the store has then.
Interpret(h, answer) ==
  /\ desk[h].kind = "evaluate" /\ desk[h].todo = {}
  /\ Takes(h, [kind |-> "health", plan |-> desk[h].plan, cursor |-> desk[h].cursor, checked |-> FALSE,
               status |-> Normalized(answer), found |-> desk[h].found, saw |-> signals])
  /\ UNCHANGED <<collabs, signals, handed, healths, adaptations, approvals>>

\* record_health: the cursor exceeds that of every evaluation recorded so far.
CheckHealth(h) ==
  /\ desk[h].kind = "health" /\ ~desk[h].checked
  /\ IF \A i \in DOMAIN healths : healths[i].cursor < desk[h].cursor
     THEN Takes(h, [desk[h] EXCEPT !.checked = TRUE])
     ELSE Leaves(h)
  /\ UNCHANGED <<collabs, signals, handed, healths, adaptations, approvals>>

\* The insert: no index orders the cursors.
WriteHealth(h) ==
  /\ desk[h].kind = "health" /\ desk[h].checked
  /\ healths' = Append(healths, [plan |-> desk[h].plan, cursor |-> desk[h].cursor,
                                 status |-> desk[h].status, found |-> desk[h].found,
                                 saw |-> desk[h].saw])
  /\ Leaves(h)
  /\ UNCHANGED <<collabs, signals, handed, adaptations, approvals>>

-----------------------------------------------------------------------------
(* Adaptations.                                                               *)

\* An executive decision on the mission is accepted; decisions are never changed.
Approve ==
  /\ approvals = 0 /\ approvals' = 1
  /\ UNCHANGED <<collabs, signals, handed, healths, adaptations, desk>>

\* CrewAdaptationDecision's validator and _validate_adaptation_lineage.  A change of the
\* Crew needs an accepted executive decision; nothing compares beforeCrew with a plan.
CheckAdaptation(h, row) ==
  /\ Free(h) /\ Len(adaptations) < MaxRecords
  /\ row.before \in DOMAIN collabs /\ row.after \in DOMAIN collabs /\ row.before <= row.after
  /\ row.afterCrew = mission.crew
  /\ row.disposition = "bounded" => row.beforeCrew = row.afterCrew
  /\ row.disposition = "approval_required" => approvals > 0
  /\ Takes(h, [kind |-> "adapt", row |-> row])
  /\ UNCHANGED <<collabs, signals, handed, healths, adaptations, approvals>>

WriteAdaptation(h) ==
  /\ desk[h].kind = "adapt" /\ adaptations' = Append(adaptations, desk[h].row)
  /\ Leaves(h)
  /\ UNCHANGED <<collabs, signals, handed, healths, approvals>>

AdaptationRows ==
  [before : 1..MaxCollabs, after : 1..MaxCollabs, beforeCrew : 1..MaxCrews,
   afterCrew : 1..MaxCrews, disposition : Dispositions]

\* Plans and adaptations.
AdaptNext ==
  \/ Approve
  \/ \E h \in Hands :
       \/ CheckCollaboration(h) \/ WriteCollaboration(h) \/ WriteAdaptation(h)
       \/ \E row \in AdaptationRows : CheckAdaptation(h, row)

\* Hand-offs and evaluations, with the plans they are about.
HealthNext ==
  \/ \E t \in Work : RecordHandoff(t)
  \/ \E h \in Hands :
       \/ CheckCollaboration(h) \/ WriteCollaboration(h)
       \/ \E v \in DOMAIN collabs, c \in 1..MaxCursor : BeginEvaluation(h, v, c)
       \/ RecordDetected(h) \/ CheckHealth(h) \/ WriteHealth(h)
       \/ \E a \in Answers : Interpret(h, a)

-----------------------------------------------------------------------------
(* Properties.                                                                *)

\* Collaboration plans follow the Crews: a later plan is never of an older Brief or Crew
\* than an earlier one, although two threads check against different Crews and one
\* writes after the other (record_collaboration_plan reads outside the transaction).
PlansFollowCrews ==
  \A i, j \in DOMAIN collabs :
    i <= j => collabs[i].crew <= collabs[j].crew /\ collabs[i].brief <= collabs[j].brief

\* Every evaluation was made with the signals its own detection found, and they are in
\* the store: a failure between the transactions leaves signals without an evaluation,
\* never an evaluation without its signals (mission.health.evaluate).
HealthSawSignals ==
  \A i \in DOMAIN healths : healths[i].found \subseteq healths[i].saw /\ healths[i].saw \subseteq signals

\* A recorded adaptation that changes the Crew has an accepted executive decision behind
\* it, and its plans and Crews exist in the order it says.
AdaptationsGoverned ==
  \A i \in DOMAIN adaptations :
    LET a == adaptations[i]
    IN /\ a.after \in DOMAIN collabs /\ a.afterCrew \in 1..mission.crew
       /\ (a.beforeCrew # a.afterCrew) => approvals > 0

\* Plans, evaluations and adaptations rest on what was recorded before them, although two
\* threads read and write them apart.
TeamGoverned ==
  /\ TeamTypeOK
  /\ PlansFollowCrews
  /\ HealthSawSignals
  /\ AdaptationsGoverned
================================================================================
