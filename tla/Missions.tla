------------------------------- MODULE Missions -------------------------------
(* One mission of SQLiteMissionRepository (missions/repository.py) and the     *)
(* gates in front of its tasks (missions/execution.py, readiness.py): Briefs,  *)
(* Crews, assignments, run bindings, reports, environment plans, lifecycle.    *)
(*                                                                             *)
(* Commands on the target "mission" share a lock and carry the revision their  *)
(* author read.  Assignments, bindings, reports and claims have targets of     *)
(* their own: they interleave with mission commands, and neither bump nor,     *)
(* but for reports, compare the mission's revision.  A claim, a completion and *)
(* a binding read in one step and write in a later one.                        *)
EXTENDS Naturals, Sequences, SequencesExt

CONSTANTS
  Work,        \* mission tasks; a run's plan has one task for each
  KindOf,      \* production, evaluation or reporting
  Needs,       \* dependencies of a task
  Judged,      \* tasks that require independent evaluation
  Contexts,    \* tasks that declare environment contexts
  Runs, Keys,  \* durable runs; binding keys
  Hands,       \* threads that serve commands
  Escalations, \* escalations that may be opened
  Blocks,      \* the tasks in an escalation's blocked scope
  MaxBriefs, MaxCrews, MaxPlans, MaxChanges, MaxMoves \* bounds: versions and revisions

ASSUME MissionsAssumption ==
  /\ {MaxBriefs, MaxCrews, MaxPlans, MaxChanges, MaxMoves} \subseteq Nat
  \* A mission that was launched lies within the bounds.
  /\ MaxBriefs >= 1 /\ MaxCrews >= 1 /\ MaxPlans >= 1 /\ MaxMoves >= 5
  /\ Needs \in [Work -> SUBSET Work] /\ Blocks \in [Escalations -> SUBSET Work]

VARIABLES
  mission,   \* MissionRow; version 0 stands for None
  briefs,    \* whether PM and CTO confirmed the Brief of each version
  crews,     \* the Brief version of each Crew
  plans,     \* Brief and Crew version of each accepted environment plan
  assigned,  \* assignment revisions of each task
  bound,     \* binding revisions of each key
  reports,   \* runs reported
  runTask,   \* task states of the runs
  refused,   \* tasks of each run with a recorded review rejection
  verified,  \* environment plans whose contexts are bound and verified
  seen,      \* the mission as the author of the next command read it
  flight,    \* what each thread decided and has not written yet
  closedOn,  \* the assignment revisions a completion was checked with
  control,   \* the suspends, resumes and stops of tasks, in the order of created_at
  escalated  \* state of each escalation

missionVars == <<mission, briefs, crews, plans, assigned, bound, reports, runTask, refused, verified, seen,
                 flight, closedOn, control, escalated>>

MissionStates == {"proposed", "clarifying", "planned", "active", "paused", "blocked", "evaluating",
                  "remediating", "completed", "failed", "cancelled"}
Terminal == {"completed", "failed", "cancelled"}
Runnable == {"active", "evaluating", "remediating"}

\* _MISSION_TRANSITIONS.
Following(state) ==
  CASE state = "proposed" -> {"clarifying", "cancelled"}
    [] state = "clarifying" -> {"planned", "blocked", "cancelled"}
    [] state = "planned" -> {"active", "paused", "blocked", "cancelled"}
    [] state = "active" -> {"paused", "blocked", "evaluating", "failed", "cancelled"}
    [] state = "paused" -> {"active", "blocked", "cancelled"}
    [] state = "blocked" -> {"active", "paused", "failed", "cancelled"}
    [] state = "evaluating" -> {"remediating", "completed", "failed", "paused"}
    [] state = "remediating" -> {"active", "evaluating", "failed", "cancelled"}
    [] OTHER -> {}

NoFlight == [kind |-> "none"]
Outcomes == {"pending", "accepted", "rejected"}

\* A run task before its claim, claimed, accepted, or rejected or failed; a run with a
\* failed task is failed.  Its cancellation, which claims nothing, is left out.
TaskStages == {"planned", "running", "accepted", "failed"}

\* A control names its task and the tasks its scope matches.
ControlKinds == {"suspend", "resume", "stop"}
Controls == [on : Work, scope : SUBSET Work, kind : ControlKinds]

MissionsTypeOK ==
  /\ mission \in [state : MissionStates, revision : 0..MaxMoves, brief : 0..MaxBriefs,
                  crew : 0..MaxCrews, plan : 0..MaxPlans]
  /\ mission.brief = Len(briefs) /\ mission.crew = Len(crews) /\ mission.plan = Len(plans)
  /\ \A i \in DOMAIN crews : crews[i] \in 1..mission.brief
  /\ \A t \in Work : \A i \in DOMAIN assigned[t] :
       assigned[t][i].crew \in 1..mission.crew /\ assigned[t][i].run \in Runs
  /\ \A k \in Keys : \A i \in DOMAIN bound[k] : bound[k][i].outcome \in Outcomes
  /\ reports \subseteq Runs /\ verified \subseteq 1..mission.plan
  /\ runTask \in [Runs -> [Work -> TaskStages]] /\ refused \in [Runs -> SUBSET Work]
  /\ seen.revision <= mission.revision
  /\ \A h \in Hands : flight[h].kind \in {"none", "claim", "complete", "bind"}
  /\ control \in Seq(Controls)
  /\ escalated \in [Escalations -> {"none", "open", "answered"}]

\* A mission just created, or one that was launched with a Brief, a Crew, an environment
\* plan and every task assigned to one run.
MissionsInit ==
  /\ \/ /\ mission = [state |-> "proposed", revision |-> 0, brief |-> 0, crew |-> 0, plan |-> 0]
        /\ briefs = <<>> /\ crews = <<>> /\ plans = <<>> /\ assigned = [t \in Work |-> <<>>]
     \/ \E r \in Runs :
          /\ mission = [state |-> "active", revision |-> 5, brief |-> 1, crew |-> 1, plan |-> 1]
          /\ briefs = <<TRUE>> /\ crews = <<1>> /\ plans = <<[brief |-> 1, crew |-> 1]>>
          /\ assigned = [t \in Work |-> <<[crew |-> 1, run |-> r]>>]
  /\ bound = [k \in Keys |-> <<>>] /\ reports = {} /\ verified = {}
  /\ runTask = [r \in Runs |-> [t \in Work |-> "planned"]] /\ refused = [r \in Runs |-> {}]
  /\ seen = mission /\ flight = [h \in Hands |-> NoFlight]
  /\ closedOn = <<>> /\ control = <<>>
  /\ escalated = [e \in Escalations |-> "none"]

-----------------------------------------------------------------------------
(* Reading.                                                                   *)

\* MissionRecord's validator: it runs whenever the row is read, not when
\* model_copy changes the state.
Readable == mission.state \notin {"proposed", "clarifying"} => mission.brief # 0

Latest(t) == Last(assigned[t])
Assigned == {t \in Work : assigned[t] # <<>>}

\* _ancestors: the tasks t depends on, directly or not.
Ancestors(t) ==
  {u \in Work : \A S \in SUBSET Work :
     (Needs[t] \subseteq S /\ \A v \in S : Needs[v] \subseteq S) => u \in S}

OfKind(kind) == {t \in Assigned : KindOf[t] = kind}

\* MissionAssignmentGraphValidator.validate.
GraphValid ==
  /\ Assigned # {}
  /\ \A t \in Assigned : Needs[t] \subseteq Assigned /\ t \notin Ancestors(t)
  /\ \A e \in OfKind("evaluation") : Ancestors(e) \cap OfKind("production") # {}
  /\ (\E t, u \in Assigned : t # u) => OfKind("reporting") # {}
  /\ \A t \in Assigned \cap Judged :
       \E e \in OfKind("evaluation"), r \in OfKind("reporting") :
         t \in Ancestors(e) /\ e \in Ancestors(r)

\* MissionEnvironmentReadinessService: a declared context needs a plan of the current
\* Brief and Crew whose contexts are bound and verified.
EnvironmentReady(t) ==
  t \in Contexts =>
    /\ mission.plan \in verified
    /\ plans[mission.plan] = [brief |-> mission.brief, crew |-> mission.crew]

\* _binding_for_assignment: the keys whose latest revision binds the task as it is
\* assigned now.
Matching(t) ==
  {k \in Keys : bound[k] # <<>> /\ Last(bound[k]).task = t
     /\ Last(bound[k]).revision = Len(assigned[t]) /\ Last(bound[k]).run = Latest(t).run}
BoundAs(t, outcome) == \E k \in Keys : Matching(t) = {k} /\ Last(bound[k]).outcome = outcome

RunCompleted(r) == \A t \in Work : runTask[r][t] = "accepted"

Disputed(t) == \E e \in Escalations : escalated[e] = "open" /\ t \in Blocks[e]

\* _latest_scoped_intervention: of the controls that target a task or whose scope matches
\* it, the latest holds it or releases it.
Governs(i, t) == control[i].on = t \/ t \in control[i].scope
Held(t) ==
  \E i \in DOMAIN control :
    /\ Governs(i, t) /\ control[i].kind \in {"suspend", "stop"}
    /\ \A j \in DOMAIN control : j > i => ~Governs(j, t)

\* MissionTaskClaimService.inspect.
Claimable(t) ==
  /\ t \in Assigned /\ Readable
  /\ mission.state \in Runnable /\ Latest(t).crew = mission.crew
  /\ ~Held(t) /\ ~Disputed(t) /\ EnvironmentReady(t)
  /\ BoundAs(t, "pending")
  /\ \A d \in Needs[t] : d \in Assigned /\ runTask[Latest(d).run][d] = "accepted"
                         /\ Latest(d).run = Latest(t).run
  /\ runTask[Latest(t).run][t] = "planned"

\* inspect_completion.
CompletionReady ==
  /\ Readable /\ mission.state = "evaluating" /\ GraphValid
  /\ \A t \in Assigned :
       /\ RunCompleted(Latest(t).run) /\ Latest(t).run \in reports
       /\ BoundAs(t, "accepted") /\ EnvironmentReady(t) /\ Latest(t).crew = mission.crew

-----------------------------------------------------------------------------
(* Commands on the mission.                                                   *)

\* Mutant: the author's revision is not compared.
AdmitStale ==
  /\ Readable /\ mission.revision < MaxMoves
  /\ \A h \in Hands : flight[h].kind # "complete"

\* The target's lock, the row's validator and _require_revision.
Admitted ==
  /\ Readable /\ seen.revision = mission.revision /\ mission.revision < MaxMoves
  /\ \A h \in Hands : flight[h].kind # "complete"

\* _update_mission_row with the fields a handler changes.
Update(new) == mission' = [new EXCEPT !.revision = mission.revision + 1]

ReadMission ==
  /\ Readable /\ seen' = mission
  /\ UNCHANGED <<mission, briefs, crews, plans, assigned, bound, reports, runTask, refused, verified,
                 flight, closedOn, control, escalated>>

\* A Brief, confirmed or not, takes every mission that is not terminal back to clarifying.
RecordBrief(confirmed) ==
  /\ Admitted /\ mission.state \notin Terminal /\ Len(briefs) < MaxBriefs
  /\ briefs' = Append(briefs, confirmed)
  /\ Update([mission EXCEPT !.state = "clarifying", !.brief = @ + 1])
  /\ UNCHANGED <<crews, plans, assigned, bound, reports, runTask, refused, verified, seen, flight,
                 closedOn, control, escalated>>

\* Its members are the ones the confirmed Brief proposes; the state stays.
RecordCrew ==
  /\ Admitted /\ mission.brief # 0 /\ briefs[mission.brief] /\ Len(crews) < MaxCrews
  /\ crews' = Append(crews, mission.brief)
  /\ Update([mission EXCEPT !.crew = @ + 1])
  /\ UNCHANGED <<briefs, plans, assigned, bound, reports, runTask, refused, verified, seen, flight,
                 closedOn, control, escalated>>

\* The conditions of transition.
MayMove(to) ==
  /\ to \in Following(mission.state)
  /\ to \notin {"clarifying", "cancelled"} => mission.brief # 0 /\ mission.crew # 0
  /\ to = "active" =>
       /\ crews[mission.crew] = mission.brief
       /\ \A t \in Assigned : Latest(t).crew = mission.crew
       /\ GraphValid

Transition(to) ==
  /\ Admitted /\ MayMove(to) /\ to # "completed"
  /\ Update([mission EXCEPT !.state = to])
  /\ UNCHANGED <<briefs, crews, plans, assigned, bound, reports, runTask, refused, verified, seen, flight,
                 closedOn, control, escalated>>

\* A completion is checked first and recorded in a second transaction.
CheckCompletion(h) ==
  /\ Admitted /\ flight[h].kind = "none" /\ CompletionReady
  /\ flight' = [flight EXCEPT ![h] =
       [kind |-> "complete", with |-> [t \in Assigned |-> Latest(t).run]]]
  /\ UNCHANGED <<mission, briefs, crews, plans, assigned, bound, reports, runTask, refused, verified, seen, closedOn, control, escalated>>

RecordCompletion(h) ==
  /\ flight[h].kind = "complete" /\ MayMove("completed")
  /\ Update([mission EXCEPT !.state = "completed"])
  /\ closedOn' = flight[h].with /\ flight' = [flight EXCEPT ![h] = NoFlight]
  /\ UNCHANGED <<briefs, crews, plans, assigned, bound, reports, runTask, refused, verified, seen, control,
                 escalated>>

\* accept_environment_plan: the tasks its contexts affect are assigned.
AcceptEnvironmentPlan ==
  /\ Admitted /\ mission.brief # 0 /\ mission.crew # 0 /\ Len(plans) < MaxPlans
  /\ Contexts \subseteq Assigned
  /\ plans' = Append(plans, [brief |-> mission.brief, crew |-> mission.crew])
  /\ Update([mission EXCEPT !.plan = @ + 1])
  /\ UNCHANGED <<briefs, crews, assigned, bound, reports, runTask, refused, verified, seen, flight,
                 closedOn, control, escalated>>

\* The environment component binds and verifies a plan's contexts, or finds a binding stale.
ResolvePlan(v) ==
  /\ v \in 1..mission.plan
  /\ verified' \in {verified \cup {v}, verified \ {v}}
  /\ UNCHANGED <<mission, briefs, crews, plans, assigned, bound, reports, runTask, refused, seen,
                 flight, closedOn, control, escalated>>

-----------------------------------------------------------------------------
(* Commands with targets of their own.                                        *)

\* A revision changes the owner, the Crew, the run or the contributors; who has to
\* confirm which change (_require_assignment_change_governance) is left out.
RecordAssignment(t, r) ==
  /\ Readable /\ mission.crew # 0 /\ Len(assigned[t]) < MaxChanges
  /\ assigned' = [assigned EXCEPT ![t] = Append(@, [crew |-> mission.crew, run |-> r])]
  /\ UNCHANGED <<mission, briefs, crews, plans, bound, reports, runTask, refused, verified, seen,
                 flight, closedOn, control, escalated>>

\* _require_run_binding_settlement: an acceptance, or the rejection of any attempt.
Settleable(r, t, outcome) ==
  /\ outcome = "accepted" => runTask[r][t] = "accepted"
  /\ outcome = "rejected" => t \in refused[r]

\* The reads of record_run_binding: a first revision under a key no other key has for
\* the run task, or the settlement of a pending one with the same lineage.
CheckBinding(h, k, t, outcome) ==
  LET r == Latest(t).run
      new == [task |-> t, revision |-> Len(assigned[t]), run |-> r, outcome |-> outcome]
  IN /\ flight[h].kind = "none" /\ Readable /\ t \in Assigned
     /\ Settleable(r, t, outcome)
     /\ \A other \in Keys \ {k} : \A i \in DOMAIN bound[other] :
          ~(bound[other][i].run = r /\ bound[other][i].task = t)
     /\ bound[k] # <<>> =>
          /\ Last(bound[k]) = [new EXCEPT !.outcome = "pending"]
          /\ outcome # "pending"
     /\ flight' = [flight EXCEPT ![h] =
          [kind |-> "bind", key |-> k, place |-> Len(bound[k]) + 1, row |-> new]]
     /\ UNCHANGED <<mission, briefs, crews, plans, assigned, bound, reports, runTask, refused, verified,
                    seen, closedOn, control, escalated>>

\* The insert: (mission, key, revision) is unique.
WriteBinding(h) ==
  /\ flight[h].kind = "bind"
  /\ LET b == flight[h]
     IN bound' = IF b.place = Len(bound[b.key]) + 1
                 THEN [bound EXCEPT ![b.key] = Append(@, b.row)]
                 ELSE bound
  /\ flight' = [flight EXCEPT ![h] = NoFlight]
  /\ UNCHANGED <<mission, briefs, crews, plans, assigned, reports, runTask, refused, verified, seen,
                 closedOn, control, escalated>>

\* record_run_report: the mission is evaluating and as the reporter read it, the run is
\* completed, and its plan has a second task; of two keys that bind one run task either
\* may be read.
RecordRunReport(r) ==
  /\ Readable /\ mission.state = "evaluating" /\ seen.revision = mission.revision
  /\ r \notin reports /\ RunCompleted(r) /\ GraphValid
  /\ \A t \in Work :
       /\ t \in Assigned /\ Latest(t).run = r
       /\ \E k \in Keys : /\ bound[k] # <<>> /\ Last(bound[k]).run = r
                          /\ Last(bound[k]).task = t /\ Last(bound[k]).outcome = "accepted"
  /\ reports' = reports \cup {r}
  /\ UNCHANGED <<mission, briefs, crews, plans, assigned, bound, runTask, refused, verified, seen,
                 flight, closedOn, control, escalated>>

\* claim: inspect, then the run's own claim_task.
InspectClaim(h, t) ==
  /\ flight[h].kind = "none" /\ Claimable(t)
  /\ flight' = [flight EXCEPT ![h] = [kind |-> "claim", task |-> t, run |-> Latest(t).run]]
  /\ UNCHANGED <<mission, briefs, crews, plans, assigned, bound, reports, runTask, refused, verified, seen, closedOn, control, escalated>>

\* claim_task refuses a task that is not eligible, or a run that is not running.
ClaimRunTask(h) ==
  /\ flight[h].kind = "claim"
  /\ LET c == flight[h]
     IN runTask' = IF runTask[c.run][c.task] = "planned" /\ \A u \in Work : runTask[c.run][u] # "failed"
                   THEN [runTask EXCEPT ![c.run][c.task] = "running"]
                   ELSE runTask
  /\ flight' = [flight EXCEPT ![h] = NoFlight]
  /\ UNCHANGED <<mission, briefs, crews, plans, assigned, bound, reports, refused, verified, seen,
                 closedOn, control, escalated>>

\* The run's own part: it records a rejected review and goes on, accepts the task's
\* result, or fails; attempts of one task are one attempt.
RejectReview(r, t) ==
  /\ runTask[r][t] = "running"
  /\ refused' = [refused EXCEPT ![r] = @ \cup {t}]
  /\ UNCHANGED <<mission, briefs, crews, plans, assigned, bound, reports, runTask, verified, seen,
                 flight, closedOn, control, escalated>>

SettleRunTask(r, t, stage) ==
  /\ runTask[r][t] = "running" /\ stage \in {"accepted", "failed"}
  /\ runTask' = [runTask EXCEPT ![r][t] = stage]
  /\ UNCHANGED <<mission, briefs, crews, plans, assigned, bound, reports, refused, verified, seen,
                 flight, closedOn, control, escalated>>

\* run.recover: what was interrupted, rejected or failed is eligible again.
RecoverRun(r) ==
  /\ runTask' = [runTask EXCEPT ![r] =
       [t \in Work |-> IF runTask[r][t] \in {"running", "failed"} THEN "planned" ELSE runTask[r][t]]]
  /\ UNCHANGED <<mission, briefs, crews, plans, assigned, bound, reports, refused, verified, seen,
                 flight, closedOn, control, escalated>>

\* Commands that decide about the mission.
DecideNext ==
  \/ ReadMission \/ RecordCrew \/ AcceptEnvironmentPlan
  \/ \E confirmed \in BOOLEAN : RecordBrief(confirmed)
  \/ \E to \in MissionStates : Transition(to)
  \/ \E t \in Work, r \in Runs : RecordAssignment(t, r)

\* Commands that carry the work out, and what the runs and environments do meanwhile.
WorkNext ==
  \/ \E v \in 1..MaxPlans : ResolvePlan(v)
  \/ \E h \in Hands : \/ CheckCompletion(h) \/ RecordCompletion(h) \/ WriteBinding(h)
                      \/ ClaimRunTask(h)
                      \/ \E t \in Work : InspectClaim(h, t)
                      \/ \E k \in Keys, t \in Work, o \in Outcomes : CheckBinding(h, k, t, o)
  \/ \E r \in Runs : RecordRunReport(r)
  \/ \E r \in Runs : \/ RecoverRun(r)
                      \/ \E t \in Work : \/ RejectReview(r, t)
                                         \/ \E stage \in TaskStages : SettleRunTask(r, t, stage)

MissionsNext == DecideNext \/ WorkNext

-----------------------------------------------------------------------------
(* Properties.                                                                *)

\* What a report rests on stays: every task of a reported run is accepted and bound as
\* accepted, whatever is reassigned, rebound or claimed later (record_run_report,
\* _require_run_binding_transition).
ReportsHold ==
  \A r \in reports : \A t \in Work :
    /\ runTask[r][t] = "accepted"
    /\ \E k \in Keys : bound[k] # <<>> /\ Last(bound[k]).run = r /\ Last(bound[k]).task = t
                       /\ Last(bound[k]).outcome = "accepted"

\* A completed mission rests on runs that were reported and whose tasks are accepted,
\* although the check and the transition are two transactions and assignments,
\* bindings and claims go on between them and afterwards (API mission.transition).
CompletionHolds ==
  mission.state = "completed" =>
    /\ closedOn # <<>>
    /\ \A t \in DOMAIN closedOn : closedOn[t] \in reports /\ runTask[closedOn[t]][t] = "accepted"

\* Two threads that settle one binding leave one outcome: a key is bound once as pending
\* and settled at most once (unique revisions, _require_run_binding_transition).
SettledBindingFinal ==
  \A k \in Keys :
    /\ Len(bound[k]) <= 2
    /\ Len(bound[k]) = 2 => bound[k][1].outcome = "pending" /\ bound[k][2].outcome # "pending"

\* What a binding was settled as rests on evidence that is still there, although the
\* evidence is read before the insert and the run is recovered and its tasks claimed in
\* between and afterwards: a binding accepted on a task that runs again would count for
\* nothing (_require_run_binding_settlement).
Evidenced(row) ==
  /\ row.outcome = "accepted" => runTask[row.run][row.task] = "accepted"
  /\ row.outcome = "rejected" => row.task \in refused[row.run]
SettledOnEvidence == \A k \in Keys : \A i \in DOMAIN bound[k] : Evidenced(bound[k][i])

\* No command changes the mission on a view another command has made old
\* (_require_revision and the revision every handler bumps).
ChangedAsSeen == [][mission' # mission => seen = mission]_missionVars

\* A terminal mission stays where it is, whatever handler is called.
TerminalStays ==
  [][mission.state \in Terminal => mission'.state = mission.state]_missionVars

\* A run task whose result was accepted is never started again, although a claim inspected
\* before comes late and recovery makes what was rejected eligible again (claim and
\* claim_task are two transactions).
NoSecondStart ==
  [][\A r \in Runs, t \in Work :
       runTask[r][t] = "accepted" => runTask'[r][t] = "accepted"]_missionVars

\* Violated.  The stored row passes the validator that every read of it runs: "advanced
\* mission states require a durable Mission Brief" (models.py 308).
MissionReadable == Readable

\* A mission changes only as its author saw it, and what it was reported or completed on
\* stays, through everything that reads first and writes later.
MissionHolds ==
  /\ [](MissionsTypeOK /\ ReportsHold /\ CompletionHolds /\ SettledBindingFinal /\ SettledOnEvidence)
  /\ ChangedAsSeen
  /\ TerminalStays
  /\ NoSecondStart
=============================================================================
