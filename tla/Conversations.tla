----------------------------- MODULE Conversations -----------------------------
(* SQLiteConversationRepository (conversations/repository.py) over Missions:    *)
(* channels, staged decisions and their settlement, escalations, and the CEO's  *)
(* interventions, which are commands on the mission.  Decisions and channels    *)
(* have targets of their own, so two threads may read before either writes;     *)
(* only the unique indexes of the schema keep them apart.  Messages, which      *)
(* change nothing but their own row, are left out.                              *)
EXTENDS Missions

CONSTANTS
  Proposals,        \* staged decisions
  MaxInterventions  \* bound: interventions on one target

ASSUME ConversationsAssumption == MaxInterventions \in Nat

VARIABLES
  executives, \* Executive channels
  staged,     \* proposals recorded as staged
  settled,    \* the dispositions recorded for each proposal
  ceo,        \* interventions on each proposal, risk and assignment, in order
  drafting    \* what each thread checked and has not inserted yet

talkVars == <<executives, staged, settled, ceo, drafting>>
conversationVars == <<missionVars, talkVars>>

\* What an intervention may target beside the mission, its tasks and escalations.
Targets == {<<"proposal", p>> : p \in Proposals} \cup {<<"assignment", t>> : t \in Work}
             \cup {<<"risk", p>> : p \in Proposals}

ConversationsTypeOK ==
  /\ executives \in Nat /\ staged \subseteq Proposals
  /\ \A p \in Proposals : \A i \in DOMAIN settled[p] : settled[p][i] \in {"accepted", "rejected"}
  /\ \A x \in Targets : Len(ceo[x]) <= MaxInterventions
  /\ \A h \in Hands :
       /\ drafting[h].kind \in {"none", "settle", "channel"}
       /\ drafting[h].kind = "settle" => drafting[h].proposal \in staged

ConversationsInit ==
  /\ MissionsInit
  /\ executives = 0 /\ staged = {} /\ settled = [p \in Proposals |-> <<>>]
  /\ ceo = [x \in Targets |-> <<>>] /\ drafting = [h \in Hands |-> NoFlight]

-----------------------------------------------------------------------------
(* Channels and decisions.                                                    *)

\* create_channel of the Executive class: no other is there when it is read.
CheckExecutive(h) ==
  /\ drafting[h].kind = "none" /\ executives = 0
  /\ drafting' = [drafting EXCEPT ![h] = [kind |-> "channel"]]
  /\ UNCHANGED <<missionVars, executives, staged, settled, ceo>>

\* The index uq_conversation_single_executive refuses a second row.
WriteExecutive(h) ==
  /\ drafting[h].kind = "channel"
  /\ executives' = IF executives = 0 THEN 1 ELSE executives
  /\ drafting' = [drafting EXCEPT ![h] = NoFlight]
  /\ UNCHANGED <<missionVars, staged, settled, ceo>>

\* A staged or inconclusive recommendation needs no lineage.
StageDecision(p) ==
  /\ p \notin staged /\ staged' = staged \cup {p}
  /\ UNCHANGED <<missionVars, executives, settled, ceo, drafting>>

\* _require_decision_lineage: a staged decision nobody settled when it is read.
CheckSettlement(h, p, outcome) ==
  /\ drafting[h].kind = "none" /\ p \in staged /\ settled[p] = <<>>
  /\ drafting' = [drafting EXCEPT ![h] = [kind |-> "settle", proposal |-> p, outcome |-> outcome]]
  /\ UNCHANGED <<missionVars, executives, staged, settled, ceo>>

\* The insert; the index uq_mission_decision_settlement refuses a second one.
WriteSettlement(h) ==
  /\ drafting[h].kind = "settle"
  /\ LET d == drafting[h]
     IN settled' = IF settled[d.proposal] = <<>>
                   THEN [settled EXCEPT ![d.proposal] = Append(@, d.outcome)]
                   ELSE settled
  /\ drafting' = [drafting EXCEPT ![h] = NoFlight]
  /\ UNCHANGED <<missionVars, executives, staged, ceo>>

\* create_escalation: PM and CTO disagree, and the disputed tasks wait.
OpenEscalation(e) ==
  /\ Readable /\ escalated[e] = "none"
  /\ escalated' = [escalated EXCEPT ![e] = "open"]
  /\ UNCHANGED <<mission, briefs, crews, plans, assigned, bound, reports, runTask, refused, verified, seen, flight, closedOn, control, talkVars>>

-----------------------------------------------------------------------------
(* apply_intervention.                                                        *)

\* Every intervention bumps the mission's revision, also of a terminal mission.
Intervene(state) ==
  /\ Admitted
  /\ Update([mission EXCEPT !.state = state])
  /\ UNCHANGED <<briefs, crews, plans, assigned, bound, reports, runTask, refused, verified, seen,
                 flight, closedOn, executives, staged, settled, drafting>>

\* _transition_state: neither the transition table nor its checks, and no transition row.
InterveneMission(kind) ==
  /\ mission.state \notin Terminal
  /\ kind = "resume" => mission.state \in {"paused", "blocked"}
  /\ Intervene(CASE kind = "suspend" -> "paused" [] kind = "resume" -> "active"
                 [] kind = "stop" -> "cancelled")
  /\ UNCHANGED <<control, escalated, ceo>>

\* The controls a task had as their target.
Own(t) == {i \in DOMAIN control : control[i].on = t}
LastOwn(t, kind) == \E i \in Own(t) : control[i].kind = kind /\ \A j \in Own(t) : j <= i

\* The control history of a task (_validate_intervention_target).  Its date follows the
\* dates of its own history (_validate_intervention_sequence), not those of other tasks'
\* controls, and its scope may match other tasks.
ControlTask(t, kind, scope) ==
  /\ t \in Assigned /\ ~LastOwn(t, "stop")
  /\ kind = "resume" => LastOwn(t, "suspend")
  /\ kind = "suspend" => ~LastOwn(t, "suspend")
  /\ Intervene(mission.state)
  /\ \E place \in 1..(Len(control) + 1) :
       /\ \A i \in Own(t) : i < place
       /\ control' = InsertAt(control, place, [on |-> t, scope |-> scope, kind |-> kind])
  /\ UNCHANGED <<escalated, ceo>>

AnswerEscalation(e) ==
  /\ escalated[e] = "open"
  /\ Intervene(mission.state) /\ escalated' = [escalated EXCEPT ![e] = "answered"]
  /\ UNCHANGED <<control, ceo>>

\* Mutant: only the latest intervention on a target is looked at.
SequencedByLast(x, kind) ==
  LET history == ceo[x]
      before == IF history = <<>> THEN "none" ELSE Last(history)
  IN \/ kind = "comment"
     \/ kind \in {"accept", "reject"} /\ x[1] = "proposal" /\ x[2] \in staged
        /\ before \notin {"accept", "reject"}
     \/ kind = "accept_risk" /\ x[1] = "risk" /\ x[2] \in staged /\ before # "accept_risk"
     \/ kind = "request" /\ x[1] = "assignment" /\ x[2] \in Assigned /\ before # "request"
     \/ kind = "confirm" /\ x[1] = "assignment" /\ x[2] \in Assigned /\ before # "confirm"

\* The latest of the requests and confirmations of a target is a request.
RequestPending(history) ==
  \E i \in DOMAIN history :
    /\ history[i] = "request"
    /\ \A j \in DOMAIN history : j > i => history[j] \notin {"request", "confirm"}

\* Which kinds a target takes, and what its history must be (_validate_intervention_sequence).
Sequenced(x, kind) ==
  LET history == ceo[x]
  IN \/ kind = "comment"
     \/ /\ kind \in {"accept", "reject"} /\ x[1] = "proposal" /\ x[2] \in staged
        /\ \A i \in DOMAIN history : history[i] \notin {"accept", "reject"}
     \/ /\ kind = "accept_risk" /\ x[1] = "risk" /\ x[2] \in staged
        /\ \A i \in DOMAIN history : history[i] # "accept_risk"
     \/ /\ kind = "request" /\ x[1] = "assignment" /\ x[2] \in Assigned
        /\ ~RequestPending(history)
     \/ /\ kind = "confirm" /\ x[1] = "assignment" /\ x[2] \in Assigned
        /\ RequestPending(history)

InterveneTarget(x, kind) ==
  /\ Sequenced(x, kind) /\ Len(ceo[x]) < MaxInterventions
  /\ Intervene(mission.state) /\ ceo' = [ceo EXCEPT ![x] = Append(@, kind)]
  /\ UNCHANGED <<control, escalated>>

TargetKinds == {"comment", "accept", "reject", "accept_risk", "request", "confirm"}

\* The CEO's part in the mission's lifecycle and its gates.
InterveneNext ==
  /\ UNCHANGED talkVars
  /\ \/ \E e \in Escalations : OpenEscalation(e) \/ AnswerEscalation(e)
     \/ \E kind \in ControlKinds : 
          \/ InterveneMission(kind)
          \/ \E t \in Work, scope \in SUBSET Work : ControlTask(t, kind, scope)

\* What is said about it.
TalkNext ==
  \/ \E h \in Hands : \/ CheckExecutive(h) \/ WriteExecutive(h) \/ WriteSettlement(h)
                      \/ \E p \in Proposals, o \in {"accepted", "rejected"} : CheckSettlement(h, p, o)
  \/ \E p \in Proposals : StageDecision(p)
  \/ \E x \in Targets, kind \in TargetKinds : InterveneTarget(x, kind)

ConversationsNext == (MissionsNext /\ UNCHANGED talkVars) \/ InterveneNext \/ TalkNext

-----------------------------------------------------------------------------
(* Properties.                                                                *)

\* One disposition per staged recommendation and one Executive channel, although two
\* threads may both find none (record_decision, create_channel and their indexes).
OneDisposition ==
  /\ executives <= 1
  /\ \A p \in Proposals : Len(settled[p]) <= 1

\* What the CEO settled stays settled through the whole history of a target: one
\* disposition per proposal, one acceptance per risk, and requests and confirmations of a
\* reassignment in turn, a request first, however comments come between.
CeoDecidesOnce ==
  \A x \in Targets :
    /\ \A i, j \in DOMAIN ceo[x] : i < j =>
         /\ ~(ceo[x][i] \in {"accept", "reject"} /\ ceo[x][j] \in {"accept", "reject"})
         /\ ~(ceo[x][i] = "accept_risk" /\ ceo[x][j] = "accept_risk")
         /\ (ceo[x][i] = "request" /\ ceo[x][j] = "request") =>
              \E k \in DOMAIN ceo[x] : i < k /\ k < j /\ ceo[x][k] = "confirm"
         /\ (ceo[x][i] = "confirm" /\ ceo[x][j] = "confirm") =>
              \E k \in DOMAIN ceo[x] : i < k /\ k < j /\ ceo[x][k] = "request"
    /\ \A j \in DOMAIN ceo[x] : ceo[x][j] = "confirm" =>
         \E i \in DOMAIN ceo[x] : i < j /\ ceo[x][i] = "request"

\* A task the CEO stopped takes no control of its own afterwards, whatever dates its
\* controls carry, and a claim finds it released only by a resume of another task whose
\* scope matches it (ControlTask, inspect: the latest control goes by target or scope).
StopStands ==
  \A t \in Work : \A i \in Own(t) : control[i].kind = "stop" =>
    /\ \A j \in Own(t) : j <= i
    /\ Claimable(t) => \E j \in DOMAIN control :
         j > i /\ control[j].kind = "resume" /\ control[j].on # t /\ t \in control[j].scope

\* No control is taken back and an answered escalation is not opened again, so the gate of
\* a claim keeps what the CEO decided (apply_intervention).
DecisionsStay ==
  [][/\ \A t \in Work : LastOwn(t, "stop") => LastOwn(t, "stop")'
     /\ \A e \in Escalations : escalated[e] = "answered" => escalated'[e] = "answered"]_conversationVars

\* What the CEO decided is decided once and stays decided.
DecisionsHold ==
  /\ [](ConversationsTypeOK /\ OneDisposition /\ CeoDecidesOnce /\ StopStands)
  /\ DecisionsStay
=============================================================================
