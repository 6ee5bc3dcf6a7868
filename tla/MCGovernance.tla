---------------------------- MODULE MCGovernance ----------------------------
(* Missions with the conversations and the team evaluation about them.        *)
(*                                                                            *)
(* Their tables meet only in the mission, so a behaviour follows one part     *)
(* (`focus`) together with the commands on the mission that part reads.  The  *)
(* lifecycle starts from a mission just created, the others from a mission    *)
(* that was launched.                                                         *)
EXTENDS Conversations, TeamEffectiveness
CONSTANTS n1, n2, g1, x1, x2, z1, z2, e1, q1, o1, o2

\* A report depends on one production task; the escalation blocks production.
TaskKinds == (n1 :> "production") @@ (n2 :> "reporting")
Dependencies == (n1 :> {}) @@ (n2 :> {n1})
BlockedScope == (e1 :> {n1})
TaskOwners == (n1 :> o1) @@ (n2 :> o2)

VARIABLE focus
governanceVars == <<focus, conversationVars, teamVars>>

GovernanceInit ==
  /\ focus \in {"lifecycle", "work", "control", "talk", "adapt", "health"}
  /\ ConversationsInit /\ TeamInit
  /\ (focus = "lifecycle") <=> (mission.revision = 0)

\* One production task may be assigned again while work or evaluation goes on.
Reassign == \E r \in Runs : RecordAssignment(n1, r)

\* The parts but "control" stop one revision short of MaxMoves.
GovernanceNext ==
  /\ UNCHANGED focus
  /\ \/ /\ focus = "lifecycle" /\ UNCHANGED teamVars
        /\ \/ DecideNext /\ UNCHANGED talkVars
           \/ \E kind \in ControlKinds : InterveneMission(kind) /\ UNCHANGED talkVars
     \/ /\ focus = "work" /\ UNCHANGED teamVars
        /\ \/ (WorkNext \/ ReadMission \/ Transition("evaluating") \/ Reassign) /\ UNCHANGED talkVars
           \/ UNCHANGED talkVars /\ \E e \in Escalations : OpenEscalation(e) \/ AnswerEscalation(e)
           \/ UNCHANGED talkVars /\ \E kind \in ControlKinds : InterveneMission(kind)
     \/ /\ focus = "control" /\ UNCHANGED <<talkVars, teamVars>>
        /\ \/ ReadMission \/ ResolvePlan(1)
           \/ \E kind \in ControlKinds, t \in Work, scope \in SUBSET Work : ControlTask(t, kind, scope)
           \/ \E h \in Hands : \/ CheckBinding(h, x1, n1, "pending") \/ WriteBinding(h)
                               \/ InspectClaim(h, n1) \/ ClaimRunTask(h)
     \/ /\ focus = "talk" /\ UNCHANGED teamVars
        /\ TalkNext \/ (ReadMission /\ UNCHANGED talkVars)
     \/ focus = "adapt" /\ AdaptNext /\ UNCHANGED conversationVars
     \/ focus = "health" /\ HealthNext /\ UNCHANGED conversationVars
     \/ /\ focus \in {"adapt", "health"} /\ UNCHANGED <<talkVars, teamVars>>
        /\ ReadMission \/ RecordCrew \/ Reassign
  /\ focus # "control" => mission'.revision < MaxMoves

GovernanceSpec == GovernanceInit /\ [][GovernanceNext]_governanceVars

Interchangeable == Permutations(Hands) \cup Permutations(Keys)
=============================================================================
