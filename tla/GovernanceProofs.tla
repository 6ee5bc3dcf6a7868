--------------------------- MODULE GovernanceProofs ---------------------------
(***************************************************************************)
(* Missions, conversations and team records together, for any tasks, runs, *)
(* threads, escalations and bounds: a mission changes only as its author   *)
(* saw it and what it was reported or completed on stays; plans, health    *)
(* evaluations and adaptations rest on what was recorded before them.      *)
(***************************************************************************)
EXTENDS Conversations, TeamEffectiveness, FiniteSetTheorems, WellFoundedInduction, TLAPS

\* The three components at once: a conversation or a team record changes tables of its
\* own, and an intervention is a command on the mission.
WholeVars == <<conversationVars, teamVars>>
WholeNext ==
  \/ ConversationsNext /\ UNCHANGED teamVars
  \/ (AdaptNext \/ HealthNext) /\ UNCHANGED conversationVars
WholeSpec == ConversationsInit /\ TeamInit /\ [][WholeNext]_WholeVars

-----------------------------------------------------------------------------
(* The mission. *)

MissionRows ==
  [state : MissionStates, revision : 0..MaxMoves, brief : 0..MaxBriefs, crew : 0..MaxCrews,
   plan : 0..MaxPlans]
BindingRows == [task : Work, revision : Nat, run : Runs, outcome : Outcomes]
Claims == [kind : {"claim"}, task : Work, run : Runs]
Closings == [kind : {"complete"}, with : UNION {[S -> Runs] : S \in SUBSET Work}]
Binds == [kind : {"bind"}, key : Keys, place : 1..2, row : BindingRows]

MissionTypes ==
  /\ mission \in MissionRows /\ seen \in MissionRows
  /\ briefs \in Seq(BOOLEAN) /\ crews \in Seq(Nat) /\ plans \in Seq([brief : Nat, crew : Nat])
  /\ assigned \in [Work -> Seq([crew : Nat, run : Runs])]
  /\ bound \in [Keys -> Seq(BindingRows)]
  /\ flight \in [Hands -> {NoFlight} \cup Claims \cup Closings \cup Binds]
  /\ DOMAIN closedOn \subseteq Work

\* A view of the current revision is the current mission.
SeenIsPast == seen.revision = mission.revision => seen = mission

\* A thread that checked a completion is alone with the mission, which its author saw, and
\* holds runs that were reported; one that settles a binding saw it pending.
FlightFounded(h) ==
  /\ flight[h].kind = "complete" =>
       /\ seen = mission /\ mission.revision < MaxMoves
       /\ \A g \in Hands : flight[g].kind = "complete" => g = h
       /\ flight[h].with # <<>>
       /\ \A t \in DOMAIN flight[h].with :
            /\ t \in Work /\ flight[h].with[t] \in reports
            /\ runTask[flight[h].with[t]][t] = "accepted"
  /\ flight[h].kind = "bind" /\ flight[h].place = 2 =>
       /\ bound[flight[h].key] # <<>> /\ bound[flight[h].key][1].outcome = "pending"
       /\ flight[h].row.outcome # "pending"

MissionInv ==
  /\ MissionTypes /\ MissionsTypeOK
  /\ ReportsHold /\ CompletionHolds /\ SettledBindingFinal
  /\ SeenIsPast
  /\ \A h \in Hands : FlightFounded(h)

\* What an insert leaves in a history: the old rows at their places and the new one last.
LEMMA Appended ==
  ASSUME NEW S, NEW s \in Seq(S), NEW e \in S
  PROVE  /\ Append(s, e) \in Seq(S) /\ Len(Append(s, e)) = Len(s) + 1 /\ Append(s, e)[Len(s) + 1] = e
         /\ DOMAIN s = 1..Len(s) /\ DOMAIN Append(s, e) = 1..Len(s) + 1 /\ Len(s) \in Nat
         /\ \A i \in DOMAIN s : i \in DOMAIN Append(s, e) /\ Append(s, e)[i] = s[i]
         /\ \A i \in DOMAIN Append(s, e) :
              (i \in DOMAIN s /\ Append(s, e)[i] = s[i]) \/ (i = Len(s) + 1 /\ Append(s, e)[i] = e)
<1>1. PICK q : q = Append(s, e)
  OBVIOUS
<1>2. /\ q \in Seq(S) /\ Len(q) = Len(s) + 1 /\ q[Len(s) + 1] = e
      /\ DOMAIN s = 1..Len(s) /\ DOMAIN q = 1..Len(s) + 1 /\ Len(s) \in Nat
  BY <1>1
<1>3. \A i \in 1..Len(s) : q[i] = s[i]
  BY <1>1
<1>4. \A i \in DOMAIN q : (i \in DOMAIN s /\ q[i] = s[i]) \/ (i = Len(s) + 1 /\ q[i] = e)
  BY <1>2, <1>3
<1>5. \A i \in DOMAIN s : i \in DOMAIN q /\ q[i] = s[i]
  BY <1>2, <1>3
<1> QED BY <1>1, <1>2, <1>4, <1>5

\* A row inserted at a place: those before it stay and the others move up by one.
LEMMA Inserted ==
  ASSUME NEW S, NEW s \in Seq(S), NEW place \in 1..(Len(s) + 1), NEW e \in S
  PROVE  /\ InsertAt(s, place, e) \in Seq(S)
         /\ DOMAIN s = 1..Len(s) /\ Len(s) \in Nat
         /\ DOMAIN InsertAt(s, place, e) = 1..(Len(s) + 1)
         /\ \A i \in 1..(Len(s) + 1) :
              InsertAt(s, place, e)[i] = IF i < place THEN s[i] ELSE IF i = place THEN e ELSE s[i - 1]
<1>1. PICK q : q = InsertAt(s, place, e)
  OBVIOUS
<1>2. Len(s) \in Nat /\ DOMAIN s = 1..Len(s) /\ place \in Nat /\ place - 1 \in 0..Len(s)
  OBVIOUS
<1>3. PICK low, high : low = SubSeq(s, 1, place - 1) /\ high = SubSeq(s, place, Len(s))
  OBVIOUS
<1>4. /\ low \in Seq(S) /\ Len(low) = place - 1
      /\ \A i \in 1..(place - 1) : low[i] = s[i]
  BY <1>2, <1>3
<1>5. /\ high \in Seq(S) /\ Len(high) = Len(s) - place + 1
      /\ \A i \in 1..(Len(s) - place + 1) : high[i] = s[i + place - 1]
  BY <1>2, <1>3
<1>6. q = low \o <<e>> \o high
  BY <1>1, <1>3 DEF InsertAt
<1>7. PICK front : front = low \o <<e>>
  OBVIOUS
<1>8. /\ front \in Seq(S) /\ Len(front) = place
      /\ \A i \in 1..(place - 1) : front[i] = s[i]
      /\ front[place] = e
  BY <1>2, <1>4, <1>7
<1>9. /\ q \in Seq(S) /\ Len(q) = Len(s) + 1
      /\ \A i \in 1..place : q[i] = front[i]
      /\ \A i \in (place + 1)..(Len(s) + 1) : q[i] = high[i - place]
  BY <1>2, <1>5, <1>6, <1>7, <1>8
<1>10. \A i \in 1..(Len(s) + 1) : q[i] = IF i < place THEN s[i] ELSE IF i = place THEN e ELSE s[i - 1]
  <2>1. ASSUME NEW i \in 1..(Len(s) + 1) PROVE q[i] = IF i < place THEN s[i] ELSE IF i = place THEN e ELSE s[i - 1]
    <3>1. CASE i <= place
      BY <1>2, <1>8, <1>9, <3>1
    <3>2. CASE i > place
      <4>1. i - place \in 1..(Len(s) - place + 1) /\ (i - place) + place - 1 = i - 1
        BY <1>2, <3>2
      <4>2. q[i] = high[i - place] /\ high[i - place] = s[i - 1]
        BY <1>2, <1>5, <1>9, <3>2, <4>1
      <4> QED BY <1>2, <3>2, <4>2
    <3> QED BY <1>2, <3>1, <3>2
  <2> QED BY <2>1
<1> QED BY <1>1, <1>2, <1>9, <1>10

\* The row a history holds at a place, and its last one.
LEMMA Placed ==
  ASSUME NEW S, NEW s \in Seq(S)
  PROVE  /\ \A i \in DOMAIN s : s[i] \in S
         /\ s # <<>> => Last(s) \in S /\ Len(s) \in DOMAIN s
<1>1. Len(s) \in Nat /\ DOMAIN s = 1..Len(s) /\ \A i \in 1..Len(s) : s[i] \in S
  OBVIOUS
<1>2. s # <<>> => Len(s) \in 1..Len(s)
  BY <1>1
<1> QED BY <1>1, <1>2 DEF Last

\* A mission just created or launched satisfies all of it.
LEMMA MissionInitially == MissionsInit => MissionInv
<1> USE MissionsAssumption
<1> SUFFICES ASSUME MissionsInit PROVE MissionInv
  OBVIOUS
<1>1. /\ mission \in MissionRows /\ seen = mission /\ mission.state # "completed"
      /\ mission.brief = Len(briefs) /\ mission.crew = Len(crews) /\ mission.plan = Len(plans)
      /\ briefs \in Seq(BOOLEAN) /\ crews \in Seq(Nat) /\ plans \in Seq([brief : Nat, crew : Nat])
      /\ assigned \in [Work -> Seq([crew : Nat, run : Runs])]
      /\ \A i \in DOMAIN crews : crews[i] \in 1..mission.brief
      /\ \A t \in Work : \A i \in DOMAIN assigned[t] :
           assigned[t][i].crew \in 1..mission.crew /\ assigned[t][i].run \in Runs
  <2>1. CASE /\ mission = [state |-> "proposed", revision |-> 0, brief |-> 0, crew |-> 0, plan |-> 0]
             /\ briefs = <<>> /\ crews = <<>> /\ plans = <<>> /\ assigned = [t \in Work |-> <<>>]
    BY <2>1 DEF MissionsInit, MissionRows, MissionStates
  <2>2. CASE \E r \in Runs :
               /\ mission = [state |-> "active", revision |-> 5, brief |-> 1, crew |-> 1, plan |-> 1]
               /\ briefs = <<TRUE>> /\ crews = << 1 >> /\ plans = <<[brief |-> 1, crew |-> 1]>>
               /\ assigned = [t \in Work |-> <<[crew |-> 1, run |-> r]>>]
    <3>0. PICK r \in Runs :
            /\ mission = [state |-> "active", revision |-> 5, brief |-> 1, crew |-> 1, plan |-> 1]
            /\ briefs = <<TRUE>> /\ crews = << 1 >> /\ plans = <<[brief |-> 1, crew |-> 1]>>
            /\ assigned = [t \in Work |-> <<[crew |-> 1, run |-> r]>>]
      BY <2>2
    <3>1. mission \in MissionRows /\ seen = mission /\ mission.state # "completed"
      BY <3>0 DEF MissionsInit, MissionRows, MissionStates
    <3>2. /\ mission.brief = Len(briefs) /\ mission.crew = Len(crews) /\ mission.plan = Len(plans)
          /\ crews \in Seq(Nat) /\ plans \in Seq([brief : Nat, crew : Nat])
          /\ \A i \in DOMAIN crews : crews[i] \in 1..mission.brief
      BY <3>0
    <3>3. briefs \in Seq(BOOLEAN)
      BY <3>0
    <3>4. /\ assigned \in [Work -> Seq([crew : Nat, run : Runs])]
          /\ \A t \in Work : \A i \in DOMAIN assigned[t] :
               assigned[t][i].crew \in 1..mission.crew /\ assigned[t][i].run \in Runs
      BY <3>0
    <3> QED BY <3>1, <3>2, <3>3, <3>4
  <2> QED BY <2>1, <2>2 DEF MissionsInit
<1>2. /\ bound \in [Keys -> Seq(BindingRows)] /\ reports = {} /\ verified = {}
      /\ \A k \in Keys : bound[k] = <<>>
      /\ flight \in [Hands -> {NoFlight} \cup Claims \cup Closings \cup Binds]
      /\ \A h \in Hands : flight[h].kind = "none"
  BY DEF MissionsInit, NoFlight
<1>3. /\ runTask \in [Runs -> [Work -> TaskStages]] /\ refused \in [Runs -> SUBSET Work]
      /\ control \in Seq(Controls)
      /\ escalated \in [Escalations -> {"none", "open", "answered"}]
  BY DEF MissionsInit, TaskStages
<1>4. MissionTypes
  <2>1. DOMAIN closedOn \subseteq Work
    BY DEF MissionsInit
  <2> QED BY <1>1, <1>2, <2>1 DEF MissionTypes
<1>5. MissionsTypeOK
  BY <1>1, <1>2, <1>3 DEF MissionsTypeOK, MissionRows
<1>6. ReportsHold /\ CompletionHolds /\ SettledBindingFinal /\ SeenIsPast
  BY <1>1, <1>2 DEF ReportsHold, CompletionHolds, SettledBindingFinal, SeenIsPast
<1>7. \A h \in Hands : FlightFounded(h)
  BY <1>2 DEF FlightFounded
<1> QED BY <1>4, <1>5, <1>6, <1>7 DEF MissionInv

\* The counters of a row are numbers.
LEMMA RowNumbers ==
  \A r \in MissionRows : r.revision \in Nat /\ r.brief \in Nat /\ r.crew \in Nat /\ r.plan \in Nat
BY DEF MissionRows

\* A command on the mission takes it one revision further than anybody has seen it, while
\* nobody completes it.
LEMMA MissionMoved ==
  ASSUME MissionInv, Admitted, UNCHANGED <<assigned, bound, reports, runTask, refused, seen, flight, closedOn>>,
         mission' \in MissionRows, mission'.revision = mission.revision + 1,
         mission'.state = "completed" => mission.state = "completed",
         mission'.brief >= mission.brief, mission'.crew >= mission.crew, mission'.plan >= mission.plan,
         mission'.brief = Len(briefs'), mission'.crew = Len(crews'), mission'.plan = Len(plans'),
         briefs' \in Seq(BOOLEAN), crews' \in Seq(Nat), plans' \in Seq([brief : Nat, crew : Nat]),
         \A i \in DOMAIN crews' : crews'[i] \in 1..mission'.brief,
         verified' = verified,
         control' \in Seq(Controls),
         escalated' \in [Escalations -> {"none", "open", "answered"}]
  PROVE  MissionInv'
<1>t. MissionTypes /\ MissionsTypeOK
  BY DEF MissionInv
<1>1. MissionTypes'
  BY <1>t DEF MissionTypes
<1>2. MissionsTypeOK'
  <2>1. mission.crew \in Nat /\ mission.plan \in Nat /\ mission'.crew \in Nat /\ mission'.plan \in Nat
        /\ mission.revision \in Nat /\ seen.revision \in Nat
    <3>1. mission \in MissionRows /\ seen \in MissionRows
      BY <1>t DEF MissionTypes
    <3>2. mission' \in MissionRows
      OBVIOUS
    <3> QED BY ONLY <3>1, <3>2, RowNumbers
  <2>2. /\ \A t \in Work : \A i \in DOMAIN assigned'[t] :
             assigned'[t][i].crew \in 1..mission'.crew /\ assigned'[t][i].run \in Runs
        /\ verified' \subseteq 1..mission'.plan /\ seen'.revision <= mission'.revision
    <3>1. /\ \A t \in Work : \A i \in DOMAIN assigned[t] :
               assigned[t][i].crew \in 1..mission.crew /\ assigned[t][i].run \in Runs
          /\ verified \subseteq 1..mission.plan /\ seen.revision <= mission.revision
      BY <1>t DEF MissionsTypeOK
    <3> QED BY <2>1, <3>1, SMTT(60)
  <2>3. \A h \in Hands : flight'[h].kind \in {"none", "claim", "complete", "bind"}
    BY <1>t DEF MissionsTypeOK
  <2> QED BY <1>t, <2>2, <2>3 DEF MissionsTypeOK, MissionRows
<1>3. ReportsHold' /\ CompletionHolds' /\ SettledBindingFinal'
  BY DEF MissionInv, ReportsHold, CompletionHolds, SettledBindingFinal
<1>4. SeenIsPast'
  <2>1. mission.revision \in Nat /\ seen.revision \in Nat /\ seen.revision <= mission.revision
    BY <1>t DEF MissionsTypeOK, MissionTypes, MissionRows
  <2> QED BY <2>1 DEF SeenIsPast
<1>5. \A h \in Hands : FlightFounded(h)'
  BY DEF MissionInv, FlightFounded, Admitted
<1> QED BY <1>1, <1>2, <1>3, <1>4, <1>5 DEF MissionInv

\* What _update_mission_row writes: the handler's row, one revision further.
LEMMA RowUpdated ==
  ASSUME mission \in MissionRows, mission.revision < MaxMoves, NEW new \in MissionRows, Update(new)
  PROVE  /\ mission' \in MissionRows /\ mission'.revision = mission.revision + 1
         /\ mission'.state = new.state /\ mission'.brief = new.brief
         /\ mission'.crew = new.crew /\ mission'.plan = new.plan
<1>1. MaxMoves \in Nat /\ mission.revision \in Nat /\ mission.revision + 1 \in 0..MaxMoves
  BY MissionsAssumption DEF MissionRows
<1>2. PICK revision \in 0..MaxMoves : revision = mission.revision + 1
  BY <1>1
<1>3. mission' = [new EXCEPT !.revision = revision]
  BY <1>2 DEF Update
<1>4. mission' \in MissionRows
  BY <1>3 DEF MissionRows
<1>5. /\ mission'.revision = revision /\ mission'.state = new.state /\ mission'.brief = new.brief
      /\ mission'.crew = new.crew /\ mission'.plan = new.plan
  BY <1>3 DEF MissionRows
<1> QED BY <1>2, <1>4, <1>5

\* A command that changes only the state of the mission, its controls or its escalations.
LEMMA StateMoved ==
  ASSUME MissionInv, Admitted, NEW state \in MissionStates, Update([mission EXCEPT !.state = state]),
         UNCHANGED <<briefs, crews, plans, assigned, bound, reports, runTask, refused, verified, seen, flight, closedOn>>,
         state = "completed" => mission.state = "completed",
         control' \in Seq(Controls),
         escalated' \in [Escalations -> {"none", "open", "answered"}]
  PROVE  MissionInv'
<1>t. MissionTypes /\ MissionsTypeOK
  BY DEF MissionInv
<1>1. /\ mission.revision \in 0..MaxMoves /\ mission.revision < MaxMoves /\ mission.revision \in Nat
      /\ mission \in MissionRows /\ MaxMoves \in Nat
  BY <1>t, MissionsAssumption DEF MissionTypes, MissionRows, Admitted
<1>2. /\ mission' \in MissionRows /\ mission'.revision = mission.revision + 1 /\ mission'.state = state
      /\ mission'.brief = mission.brief /\ mission'.crew = mission.crew /\ mission'.plan = mission.plan
  <2>1. PICK new \in MissionRows :
          /\ new = [mission EXCEPT !.state = state] /\ new.state = state
          /\ new.brief = mission.brief /\ new.crew = mission.crew /\ new.plan = mission.plan
    <3>1. [mission EXCEPT !.state = state] \in MissionRows
      BY <1>1 DEF MissionRows
    <3> QED BY <1>1, <3>1 DEF MissionRows
  <2>2. Update(new)
    BY <2>1
  <2> QED BY <1>1, <2>1, <2>2, RowUpdated
<1>3. /\ mission.brief \in Nat /\ mission.crew \in Nat /\ mission.plan \in Nat
      /\ mission.brief = Len(briefs) /\ mission.crew = Len(crews) /\ mission.plan = Len(plans)
      /\ briefs \in Seq(BOOLEAN) /\ crews \in Seq(Nat) /\ plans \in Seq([brief : Nat, crew : Nat])
      /\ \A i \in DOMAIN crews : crews[i] \in 1..mission.brief
  BY <1>t, <1>1 DEF MissionTypes, MissionsTypeOK, MissionRows
<1> QED BY <1>2, <1>3, MissionMoved

\* A command of the mission's lifecycle.
LEMMA DecideStep ==
  ASSUME MissionInv, DecideNext PROVE MissionInv'
<1> USE MissionsAssumption
<1>t. MissionTypes /\ MissionsTypeOK
  BY DEF MissionInv
<1>1. /\ mission \in MissionRows /\ mission.revision \in Nat /\ mission.brief \in Nat
      /\ mission.crew \in Nat /\ mission.plan \in Nat
      /\ mission.brief = Len(briefs) /\ mission.crew = Len(crews) /\ mission.plan = Len(plans)
      /\ briefs \in Seq(BOOLEAN) /\ crews \in Seq(Nat) /\ plans \in Seq([brief : Nat, crew : Nat])
      /\ \A i \in DOMAIN crews : crews[i] \in 1..mission.brief
      /\ control \in Seq(Controls)
      /\ escalated \in [Escalations -> {"none", "open", "answered"}]
  BY <1>t, SMTT(60) DEF MissionTypes, MissionsTypeOK, MissionRows
<1>2. ASSUME ReadMission PROVE MissionInv'
  <2>1. /\ seen' = mission
        /\ UNCHANGED <<mission, briefs, crews, plans, assigned, bound, reports, runTask, refused, verified,
                       flight, closedOn, control, escalated>>
    BY <1>2 DEF ReadMission
  <2>2. MissionTypes'
    BY <2>1, <1>t DEF MissionTypes
  <2>3. MissionsTypeOK'
    BY <2>1, <1>1, <1>t, SMTT(60) DEF MissionsTypeOK
  <2>4. ReportsHold' /\ CompletionHolds' /\ SettledBindingFinal' /\ SeenIsPast'
    BY <2>1 DEF MissionInv, ReportsHold, CompletionHolds, SettledBindingFinal, SeenIsPast
  <2>5. \A h \in Hands : FlightFounded(h)'
    BY <2>1 DEF MissionInv, FlightFounded
  <2> QED BY <2>2, <2>3, <2>4, <2>5 DEF MissionInv
<1>3. ASSUME RecordCrew PROVE MissionInv'
  <2>1. /\ Admitted /\ mission.brief # 0 /\ Len(crews) < MaxCrews /\ crews' = Append(crews, mission.brief)
        /\ Update([mission EXCEPT !.crew = @ + 1]) /\ mission.revision < MaxMoves
        /\ UNCHANGED <<briefs, plans, assigned, bound, reports, runTask, refused, verified, seen, flight,
                       closedOn, control, escalated>>
    BY <1>3 DEF RecordCrew, Admitted
  <2>2. /\ mission' \in MissionRows /\ mission'.revision = mission.revision + 1
        /\ mission'.state = mission.state /\ mission'.brief = mission.brief
        /\ mission'.crew = mission.crew + 1 /\ mission'.plan = mission.plan
    <3>1. PICK new \in MissionRows :
            /\ new = [mission EXCEPT !.crew = @ + 1] /\ new.state = mission.state /\ new.brief = mission.brief
            /\ new.crew = mission.crew + 1 /\ new.plan = mission.plan
      <4>1. PICK n \in 0..MaxCrews : n = mission.crew + 1
        BY <2>1, <1>1
      <4>2. [mission EXCEPT !.crew = n] \in MissionRows
        BY <1>1 DEF MissionRows
      <4>3. [mission EXCEPT !.crew = @ + 1] = [mission EXCEPT !.crew = n]
        BY <4>1
      <4> QED BY <1>1, <4>1, <4>2, <4>3 DEF MissionRows
    <3>2. Update(new)
      BY <2>1, <3>1
    <3> QED BY <2>1, <1>1, <3>1, <3>2, RowUpdated
  <2>3. crews' \in Seq(Nat) /\ Len(crews') = Len(crews) + 1
    BY <2>1, <1>1
  <2>4. \A i \in DOMAIN crews' : crews'[i] \in 1..mission'.brief
    <3>1. mission.brief \in 1..mission'.brief
      BY <2>1, <2>2, <1>1
    <3>2. \A i \in DOMAIN crews' : \/ i \in DOMAIN crews /\ crews'[i] = crews[i]
                                  \/ crews'[i] = mission.brief
      BY <2>1, <1>1, Appended, SMTT(60)
    <3> QED BY <3>1, <3>2, <2>2, <1>1
  <2>5. /\ mission'.brief >= mission.brief /\ mission'.crew >= mission.crew /\ mission'.plan >= mission.plan
        /\ mission'.brief = Len(briefs') /\ mission'.crew = Len(crews') /\ mission'.plan = Len(plans')
    BY <2>1, <2>2, <2>3, <1>1
  <2>6. /\ briefs' \in Seq(BOOLEAN) /\ plans' \in Seq([brief : Nat, crew : Nat])
        /\ control' \in Seq(Controls) /\ escalated' \in [Escalations -> {"none", "open", "answered"}]
    BY <2>1, <1>1
  <2>7. /\ UNCHANGED <<assigned, bound, reports, runTask, refused, seen, flight, closedOn>>
        /\ verified' = verified /\ (mission'.state = "completed" => mission.state = "completed")
    BY <2>1, <2>2
  <2> QED BY <2>1, <2>2, <2>3, <2>4, <2>5, <2>6, <2>7, MissionMoved
<1>4. ASSUME AcceptEnvironmentPlan PROVE MissionInv'
  <2>1. /\ Admitted /\ Len(plans) < MaxPlans
        /\ plans' = Append(plans, [brief |-> mission.brief, crew |-> mission.crew])
        /\ Update([mission EXCEPT !.plan = @ + 1]) /\ mission.revision < MaxMoves
        /\ UNCHANGED <<briefs, crews, assigned, bound, reports, runTask, refused, verified, seen, flight,
                       closedOn, control, escalated>>
    BY <1>4 DEF AcceptEnvironmentPlan, Admitted
  <2>2. /\ mission' \in MissionRows /\ mission'.revision = mission.revision + 1
        /\ mission'.state = mission.state /\ mission'.brief = mission.brief
        /\ mission'.crew = mission.crew /\ mission'.plan = mission.plan + 1
    <3>1. PICK new \in MissionRows :
            /\ new = [mission EXCEPT !.plan = @ + 1] /\ new.state = mission.state /\ new.brief = mission.brief
            /\ new.crew = mission.crew /\ new.plan = mission.plan + 1
      <4>1. PICK n \in 0..MaxPlans : n = mission.plan + 1
        BY <2>1, <1>1, SMTT(60)
      <4>2. [mission EXCEPT !.plan = n] \in MissionRows
        BY <1>1 DEF MissionRows
      <4>3. [mission EXCEPT !.plan = @ + 1] = [mission EXCEPT !.plan = n]
        BY <4>1
      <4> QED BY <1>1, <4>1, <4>2, <4>3 DEF MissionRows
    <3>2. Update(new)
      BY <2>1, <3>1
    <3> QED BY <2>1, <1>1, <3>1, <3>2, RowUpdated
  <2>3. plans' \in Seq([brief : Nat, crew : Nat]) /\ Len(plans') = Len(plans) + 1
    BY <2>1, <1>1
  <2> QED BY <2>1, <2>2, <2>3, <1>1, MissionMoved
<1>5. ASSUME NEW confirmed \in BOOLEAN, RecordBrief(confirmed) PROVE MissionInv'
  <2>1. /\ Admitted /\ Len(briefs) < MaxBriefs /\ briefs' = Append(briefs, confirmed)
        /\ Update([mission EXCEPT !.state = "clarifying", !.brief = @ + 1])
        /\ mission.revision < MaxMoves
        /\ UNCHANGED <<crews, plans, assigned, bound, reports, runTask, refused, verified, seen, flight,
                       closedOn, control, escalated>>
    BY <1>5 DEF RecordBrief, Admitted
  <2>2. /\ mission' \in MissionRows /\ mission'.revision = mission.revision + 1
        /\ mission'.state = "clarifying" /\ mission'.brief = mission.brief + 1
        /\ mission'.crew = mission.crew /\ mission'.plan = mission.plan
    <3>1. PICK new \in MissionRows :
            /\ new = [mission EXCEPT !.state = "clarifying", !.brief = @ + 1] /\ new.state = "clarifying" /\ new.brief = mission.brief + 1
            /\ new.crew = mission.crew /\ new.plan = mission.plan
      <4>1. PICK n \in 0..MaxBriefs : n = mission.brief + 1
        BY <2>1, <1>1
      <4>2. [mission EXCEPT !.state = "clarifying", !.brief = n] \in MissionRows
        BY <1>1 DEF MissionRows, MissionStates
      <4>3. [mission EXCEPT !.state = "clarifying", !.brief = @ + 1] = [mission EXCEPT !.state = "clarifying", !.brief = n]
        BY <4>1
      <4> QED BY <1>1, <4>1, <4>2, <4>3 DEF MissionRows, MissionStates
    <3>2. Update(new)
      BY <2>1, <3>1
    <3> QED BY <2>1, <1>1, <3>1, <3>2, RowUpdated
  <2>3. briefs' \in Seq(BOOLEAN)
    BY <2>1, <1>1
  <2>4. Len(briefs') = Len(briefs) + 1
    BY <2>1, <1>1
  <2>5. \A i \in DOMAIN crews' : crews'[i] \in 1..mission'.brief
    BY <2>1, <2>2, <1>1
  <2> QED BY <2>1, <2>2, <2>3, <2>4, <2>5, <1>1, MissionMoved
<1>6. ASSUME NEW to \in MissionStates, Transition(to) PROVE MissionInv'
  BY <1>6, <1>1, StateMoved DEF Transition
<1>7. ASSUME NEW t \in Work, NEW r \in Runs, RecordAssignment(t, r) PROVE MissionInv'
  <2>1. /\ mission.crew # 0 /\ assigned' = [assigned EXCEPT ![t] = Append(@, [crew |-> mission.crew, run |-> r])]
        /\ UNCHANGED <<mission, briefs, crews, plans, bound, reports, runTask, refused, verified, seen,
                       flight, closedOn, control, escalated>>
    BY <1>7 DEF RecordAssignment
  <2>2. /\ assigned \in [Work -> Seq([crew : Nat, run : Runs])]
        /\ \A u \in Work : \A i \in DOMAIN assigned[u] :
             assigned[u][i].crew \in 1..mission.crew /\ assigned[u][i].run \in Runs
    BY <1>t DEF MissionTypes, MissionsTypeOK
  <2>3. PICK new \in [crew : Nat, run : Runs] : new.crew = mission.crew /\ new.run = r
                                                 /\ assigned' = [assigned EXCEPT ![t] = Append(@, new)]
    <3>1. [crew |-> mission.crew, run |-> r] \in [crew : Nat, run : Runs]
      BY <1>1
    <3> QED BY <2>1, <3>1
  <2>4. /\ assigned'[t] = Append(assigned[t], new) /\ assigned[t] \in Seq([crew : Nat, run : Runs])
        /\ \A u \in Work \ {t} : assigned'[u] = assigned[u]
    BY <2>2, <2>3
  <2>5. /\ assigned'[t] \in Seq([crew : Nat, run : Runs])
        /\ \A i \in DOMAIN assigned'[t] : \/ i \in DOMAIN assigned[t] /\ assigned'[t][i] = assigned[t][i]
                                          \/ assigned'[t][i] = new
    BY <2>4, Appended, SMTT(60)
  <2>6. assigned' \in [Work -> Seq([crew : Nat, run : Runs])]
    BY <2>2, <2>3, <2>4, <2>5
  <2>7. \A u \in Work : \A i \in DOMAIN assigned'[u] :
          assigned'[u][i].crew \in 1..mission.crew /\ assigned'[u][i].run \in Runs
    <3>1. new.crew \in 1..mission.crew /\ new.run \in Runs
      BY <2>1, <2>3, <1>1
    <3>2. \A i \in DOMAIN assigned'[t] :
            assigned'[t][i].crew \in 1..mission.crew /\ assigned'[t][i].run \in Runs
      BY <2>2, <2>5, <3>1
    <3> QED BY <2>2, <2>4, <3>2
  <2>8. MissionTypes'
    BY <2>1, <2>6, <1>t DEF MissionTypes
  <2>9. MissionsTypeOK'
    BY <2>1, <2>7, <1>t DEF MissionsTypeOK
  <2>10. ReportsHold' /\ CompletionHolds' /\ SettledBindingFinal' /\ SeenIsPast'
    BY <2>1 DEF MissionInv, ReportsHold, CompletionHolds, SettledBindingFinal, SeenIsPast
  <2>11. \A h \in Hands : FlightFounded(h)'
    BY <2>1 DEF MissionInv, FlightFounded
  <2> QED BY <2>8, <2>9, <2>10, <2>11 DEF MissionInv
<1> QED BY <1>2, <1>3, <1>4, <1>5, <1>6, <1>7 DEF DecideNext

\* The CEO's interventions.
LEMMA InterveneStep ==
  ASSUME MissionInv,
         InterveneNext \/ \E x \in Targets, kind \in TargetKinds : InterveneTarget(x, kind)
  PROVE  MissionInv'
<1>t. MissionTypes /\ MissionsTypeOK
  BY DEF MissionInv
<1>1. /\ mission.state \in MissionStates
      /\ control \in Seq(Controls)
      /\ escalated \in [Escalations -> {"none", "open", "answered"}]
  BY <1>t DEF MissionTypes, MissionsTypeOK, MissionRows
<1>2. ASSUME NEW state \in MissionStates, Intervene(state), state = "completed" => mission.state = "completed",
             control' \in Seq(Controls),
             escalated' \in [Escalations -> {"none", "open", "answered"}]
      PROVE  MissionInv'
  BY <1>2, StateMoved DEF Intervene
<1>3. ASSUME NEW e \in Escalations, OpenEscalation(e) PROVE MissionInv'
  <2>1. /\ escalated' = [escalated EXCEPT ![e] = "open"]
        /\ UNCHANGED <<mission, briefs, crews, plans, assigned, bound, reports, runTask, refused, verified, seen,
                       flight, closedOn, control>>
    BY <1>3 DEF OpenEscalation
  <2>2. MissionTypes'
    BY <2>1, <1>t DEF MissionTypes
  <2>3. escalated' \in [Escalations -> {"none", "open", "answered"}]
    BY <2>1, <1>1
  <2>4. MissionsTypeOK'
    BY <2>1, <2>3, <1>t DEF MissionsTypeOK
  <2>5. ReportsHold' /\ CompletionHolds' /\ SettledBindingFinal' /\ SeenIsPast'
    BY <2>1 DEF MissionInv, ReportsHold, CompletionHolds, SettledBindingFinal, SeenIsPast
  <2>6. \A h \in Hands : FlightFounded(h)'
    BY <2>1 DEF MissionInv, FlightFounded
  <2> QED BY <2>2, <2>4, <2>5, <2>6 DEF MissionInv
<1>4. ASSUME NEW e \in Escalations, AnswerEscalation(e) PROVE MissionInv'
  <2>1. escalated' \in [Escalations -> {"none", "open", "answered"}] /\ control' = control
    BY <1>4, <1>1 DEF AnswerEscalation
  <2> QED BY <1>1, <1>2, <1>4, <2>1 DEF AnswerEscalation
<1>5. ASSUME NEW kind \in ControlKinds, InterveneMission(kind) PROVE MissionInv'
  <2>1. PICK state \in {"paused", "active", "cancelled"} : Intervene(state)
    BY <1>5 DEF InterveneMission, ControlKinds
  <2> QED BY <1>1, <1>2, <1>5, <2>1 DEF InterveneMission, MissionStates
<1>6. ASSUME NEW kind \in ControlKinds, NEW t \in Work, NEW scope \in SUBSET Work, ControlTask(t, kind, scope)
      PROVE  MissionInv'
  <2>1. PICK place \in 1..(Len(control) + 1) :
          control' = InsertAt(control, place, [on |-> t, scope |-> scope, kind |-> kind])
    BY <1>6 DEF ControlTask
  <2>2. [on |-> t, scope |-> scope, kind |-> kind] \in Controls
    BY DEF Controls
  <2>3. control' \in Seq(Controls)
    BY <1>1, <2>1, <2>2, Inserted
  <2> QED BY <1>1, <1>2, <1>6, <2>3 DEF ControlTask
<1>7. ASSUME NEW x \in Targets, NEW kind \in TargetKinds, InterveneTarget(x, kind) PROVE MissionInv'
  BY <1>1, <1>2, <1>7 DEF InterveneTarget
<1> QED BY <1>3, <1>4, <1>5, <1>6, <1>7 DEF InterveneNext

\* What a thread takes up or leaves, while bindings and results only accumulate.
LEMMA FlightsKept ==
  ASSUME MissionInv, NEW h \in Hands, NEW row \in {NoFlight} \cup Claims \cup Binds,
         flight' = [flight EXCEPT ![h] = row], UNCHANGED <<mission, seen>>,
         reports \subseteq reports',
         \A r \in Runs, t \in Work : runTask[r][t] = "accepted" => runTask'[r][t] = "accepted",
         reports \subseteq Runs,
         \A k \in Keys : bound[k] # <<>> => bound'[k] # <<>> /\ bound'[k][1] = bound[k][1],
         row.kind = "bind" /\ row.place = 2 =>
           bound[row.key] # <<>> /\ bound[row.key][1].outcome = "pending" /\ row.row.outcome # "pending"
  PROVE  /\ \A g \in Hands : FlightFounded(g)'
         /\ flight' \in [Hands -> {NoFlight} \cup Claims \cup Closings \cup Binds]
         /\ \A g \in Hands : flight'[g].kind \in {"none", "claim", "complete", "bind"}
<1>t. /\ flight \in [Hands -> {NoFlight} \cup Claims \cup Closings \cup Binds]
      /\ \A g \in Hands : FlightFounded(g)
      /\ \A g \in Hands : flight[g].kind \in {"none", "claim", "complete", "bind"}
  BY DEF MissionInv, MissionTypes, MissionsTypeOK
<1>1. /\ row.kind \in {"none", "claim", "bind"}
      /\ row.kind = "bind" => row.key \in Keys
  BY DEF NoFlight, Claims, Binds
<1>2. /\ flight' \in [Hands -> {NoFlight} \cup Claims \cup Closings \cup Binds]
      /\ flight'[h] = row /\ \A g \in Hands : g # h => flight'[g] = flight[g]
  BY <1>t
<1>3. \A g \in Hands : flight'[g].kind \in {"none", "claim", "complete", "bind"}
  BY <1>t, <1>1, <1>2
<1>4. ASSUME NEW g \in Hands PROVE FlightFounded(g)'
  <2>1. ASSUME flight'[g].kind = "complete"
        PROVE  /\ seen' = mission' /\ mission'.revision < MaxMoves
               /\ \A f \in Hands : flight'[f].kind = "complete" => f = g
               /\ flight'[g].with # <<>>
               /\ \A t \in DOMAIN flight'[g].with :
                    /\ t \in Work /\ flight'[g].with[t] \in reports'
                    /\ runTask'[flight'[g].with[t]][t] = "accepted"
    <3>1. flight'[g] = flight[g] /\ flight[g].kind = "complete" /\ FlightFounded(g)
      BY <1>t, <1>1, <1>2, <2>1
    <3>2. \A f \in Hands : flight'[f].kind = "complete" => f = g
      BY <1>1, <1>2, <3>1 DEF FlightFounded
    <3>3. \A t \in DOMAIN flight[g].with :
            /\ t \in Work /\ flight[g].with[t] \in reports
            /\ runTask[flight[g].with[t]][t] = "accepted"
      BY <3>1 DEF FlightFounded
    <3> QED BY <3>1, <3>2, <3>3 DEF FlightFounded
  <2>2. ASSUME flight'[g].kind = "bind", flight'[g].place = 2
        PROVE  /\ bound'[flight'[g].key] # <<>> /\ bound'[flight'[g].key][1].outcome = "pending"
               /\ flight'[g].row.outcome # "pending"
    <3>1. CASE g = h
      BY <1>1, <1>2, <2>2, <3>1
    <3>2. CASE g # h
      <4>1. flight[g].kind = "bind" /\ flight[g].place = 2 /\ flight'[g] = flight[g] /\ FlightFounded(g)
        BY <1>t, <1>2, <2>2, <3>2
      <4>2. flight[g].key \in Keys
        BY <1>t, <4>1 DEF NoFlight, Claims, Closings, Binds
      <4> QED BY <4>1, <4>2 DEF FlightFounded
    <3> QED BY <3>1, <3>2
  <2> QED BY <2>1, <2>2 DEF FlightFounded
<1> QED BY <1>2, <1>3, <1>4

\* Recovery takes back what is not accepted.
LEMMA Recovered ==
  ASSUME runTask \in [Runs -> [Work -> TaskStages]], NEW r \in Runs, RecoverRun(r)
  PROVE  /\ runTask' \in [Runs -> [Work -> TaskStages]]
         /\ \A q \in Runs, t \in Work : runTask[q][t] = "accepted" => runTask'[q][t] = "accepted"
<1>1. PICK row : row = [t \in Work |-> IF runTask[r][t] \in {"running", "failed"} THEN "planned" ELSE runTask[r][t]]
  OBVIOUS
<1>2. row \in [Work -> TaskStages] /\ \A t \in Work : runTask[r][t] = "accepted" => row[t] = "accepted"
  BY <1>1 DEF TaskStages
<1>3. runTask' = [runTask EXCEPT ![r] = row]
  BY <1>1 DEF RecoverRun
<1> QED BY <1>2, <1>3

\* What carries the work out: bindings, claims, reports and completions.
LEMMA WorkStep ==
  ASSUME MissionInv, WorkNext PROVE MissionInv'
<1> USE MissionsAssumption
<1> DEFINE Flights == {NoFlight} \cup Claims \cup Closings \cup Binds
<1>i. /\ MissionTypes /\ MissionsTypeOK /\ ReportsHold /\ CompletionHolds /\ SettledBindingFinal
      /\ SeenIsPast /\ \A h \in Hands : FlightFounded(h)
  BY DEF MissionInv
<1>t. /\ mission \in MissionRows /\ seen \in MissionRows /\ flight \in [Hands -> Flights]
      /\ bound \in [Keys -> Seq(BindingRows)] /\ runTask \in [Runs -> [Work -> TaskStages]]
      /\ refused \in [Runs -> SUBSET Work]
      /\ reports \subseteq Runs /\ verified \subseteq 1..mission.plan
      /\ assigned \in [Work -> Seq([crew : Nat, run : Runs])]
      /\ \A h \in Hands : flight[h].kind \in {"none", "claim", "complete", "bind"}
      /\ \A k \in Keys : \A i \in DOMAIN bound[k] : bound[k][i].outcome \in Outcomes
  BY <1>i DEF MissionTypes, MissionsTypeOK
<1>l. ASSUME NEW t \in Assigned PROVE t \in Work /\ Latest(t).run \in Runs /\ Len(assigned[t]) \in Nat
  <2>1. t \in Work /\ assigned[t] # <<>> /\ assigned[t] \in Seq([crew : Nat, run : Runs])
    BY <1>t DEF Assigned
  <2>2. Last(assigned[t]) \in [crew : Nat, run : Runs]
    BY <2>1, Placed
  <2> QED BY <2>1, <2>2 DEF Latest
\* What a step that leaves the mission alone has to show of the rows it writes.
<1>k. ASSUME UNCHANGED <<mission, briefs, crews, plans, assigned, seen, closedOn, control, escalated>>,
             runTask' \in [Runs -> [Work -> TaskStages]], refused' \in [Runs -> SUBSET Work],
             reports' \subseteq Runs,
             verified' \subseteq 1..mission.plan, bound' \in [Keys -> Seq(BindingRows)],
             flight' \in [Hands -> Flights],
             \A h \in Hands : flight'[h].kind \in {"none", "claim", "complete", "bind"}
      PROVE  MissionTypes' /\ MissionsTypeOK' /\ SeenIsPast'
  <2>1. MissionTypes'
    BY <1>k, <1>i DEF MissionTypes
  <2>2. \A q \in Keys : \A i \in DOMAIN bound'[q] : bound'[q][i].outcome \in Outcomes
    <3>1. \A q \in Keys : bound'[q] \in Seq(BindingRows)
      BY <1>k
    <3>2. \A q \in Keys : \A i \in DOMAIN bound'[q] : bound'[q][i] \in BindingRows
      BY <3>1, Placed
    <3> QED BY <3>2 DEF BindingRows
  <2>3. MissionsTypeOK'
    BY <1>k, <2>2, <1>i DEF MissionsTypeOK
  <2> QED BY <1>k, <2>1, <2>3, <1>i DEF SeenIsPast
<1>1. ASSUME NEW v \in 1..MaxPlans, ResolvePlan(v) PROVE MissionInv'
  <2>1. /\ v \in 1..mission.plan /\ verified' \in {verified \cup {v}, verified \ {v}}
        /\ UNCHANGED <<mission, briefs, crews, plans, assigned, bound, reports, runTask, refused, seen,
                       flight, closedOn, control, escalated>>
    BY <1>1 DEF ResolvePlan
  <2>2. MissionTypes' /\ MissionsTypeOK' /\ SeenIsPast'
    BY <2>1, <1>k, <1>t
  <2>3. ReportsHold' /\ CompletionHolds' /\ SettledBindingFinal'
    BY <2>1, <1>i DEF ReportsHold, CompletionHolds, SettledBindingFinal
  <2>4. \A h \in Hands : FlightFounded(h)'
    BY <2>1, <1>i DEF FlightFounded
  <2> QED BY <2>2, <2>3, <2>4 DEF MissionInv
<1>2. ASSUME NEW h \in Hands, CheckCompletion(h) PROVE MissionInv'
  <2>1. PICK with : /\ with = [t \in Assigned |-> Latest(t).run]
                    /\ flight' = [flight EXCEPT ![h] = [kind |-> "complete", with |-> with]]
    BY <1>2 DEF CheckCompletion
  <2>2. /\ Admitted /\ CompletionReady
        /\ UNCHANGED <<mission, briefs, crews, plans, assigned, bound, reports, runTask, refused, verified, seen,
                       closedOn, control, escalated>>
    BY <1>2 DEF CheckCompletion
  <2>3. DOMAIN with = Assigned /\ Assigned # {} /\ Assigned \subseteq Work /\ with \in [Assigned -> Runs]
    BY <2>1, <2>2, <1>l DEF CompletionReady, GraphValid, Assigned
  <2>4. \A t \in Assigned : with[t] \in reports /\ runTask[with[t]][t] = "accepted"
    BY <2>1, <2>2, <2>3 DEF CompletionReady, RunCompleted
  <2>5. with # <<>>
    BY <2>3
  <2>6. [kind |-> "complete", with |-> with] \in Closings
    BY <2>3 DEF Closings
  <2>7. PICK row \in Closings : row.kind = "complete" /\ row.with = with /\ flight' = [flight EXCEPT ![h] = row]
    BY <2>1, <2>6
  <2>8. /\ flight' \in [Hands -> Flights] /\ flight'[h] = row
        /\ \A g \in Hands : g # h => flight'[g] = flight[g]
    BY <2>7, <1>t
  <2>9. \A g \in Hands : flight'[g].kind \in {"none", "claim", "complete", "bind"}
    BY <2>7, <2>8, <1>t
  <2>10. MissionTypes' /\ MissionsTypeOK' /\ SeenIsPast'
    BY <2>2, <2>8, <2>9, <1>k, <1>t
  <2>11. ReportsHold' /\ CompletionHolds' /\ SettledBindingFinal'
    BY <2>2, <1>i DEF ReportsHold, CompletionHolds, SettledBindingFinal
  <2>12. seen = mission /\ mission.revision < MaxMoves /\ \A g \in Hands : flight[g].kind # "complete"
    BY <2>2, <1>i DEF Admitted, SeenIsPast
  <2>13. FlightFounded(h)'
    BY <2>2, <2>3, <2>4, <2>5, <2>7, <2>8, <2>12 DEF FlightFounded
  <2>14. \A g \in Hands : g # h => FlightFounded(g)'
    BY <2>2, <2>8, <2>12, <1>i DEF FlightFounded
  <2> QED BY <2>10, <2>11, <2>13, <2>14 DEF MissionInv
<1>3. ASSUME NEW h \in Hands, RecordCompletion(h) PROVE MissionInv'
  <2>1. /\ flight[h].kind = "complete" /\ Update([mission EXCEPT !.state = "completed"])
        /\ closedOn' = flight[h].with /\ flight' = [flight EXCEPT ![h] = NoFlight]
        /\ UNCHANGED <<briefs, crews, plans, assigned, bound, reports, runTask, refused, verified, seen, control,
                       escalated>>
    BY <1>3 DEF RecordCompletion
  <2>2. /\ mission' \in MissionRows /\ mission'.revision = mission.revision + 1
        /\ mission'.brief = mission.brief /\ mission'.crew = mission.crew /\ mission'.plan = mission.plan
    <3>1. PICK new \in MissionRows :
            /\ new = [mission EXCEPT !.state = "completed"]
            /\ new.brief = mission.brief /\ new.crew = mission.crew /\ new.plan = mission.plan
      <4>1. [mission EXCEPT !.state = "completed"] \in MissionRows
        BY <1>t DEF MissionRows, MissionStates
      <4> QED BY <1>t, <4>1 DEF MissionRows
    <3>2. Update(new)
      BY <2>1, <3>1
    <3>3. mission.revision < MaxMoves
      BY <2>1, <1>i DEF FlightFounded
    <3> QED BY <1>t, <3>1, <3>2, <3>3, RowUpdated
  <2>3. /\ flight' \in [Hands -> Flights] /\ flight'[h] = NoFlight
        /\ \A g \in Hands : g # h => flight'[g] = flight[g]
        /\ \A g \in Hands : flight'[g].kind \in {"none", "claim", "bind"}
    <3>1. /\ flight' \in [Hands -> Flights] /\ flight'[h] = NoFlight
          /\ \A g \in Hands : g # h => flight'[g] = flight[g]
      BY <2>1, <1>t
    <3>2. \A g \in Hands : g # h => flight[g].kind \in {"none", "claim", "bind"}
      BY <2>1, <1>i, <1>t DEF FlightFounded
    <3> QED BY <3>1, <3>2 DEF NoFlight
  <2>4. MissionTypes'
    <3>1. DOMAIN closedOn' \subseteq Work
      BY <2>1, <1>i DEF FlightFounded
    <3> QED BY <2>1, <2>2, <2>3, <3>1, <1>i DEF MissionTypes
  <2>5. mission.revision \in Nat /\ seen.revision \in Nat /\ seen.revision <= mission.revision
    BY <1>t, <1>i DEF MissionRows, MissionsTypeOK
  <2>6. MissionsTypeOK'
    <3>1. seen'.revision <= mission'.revision
      BY <2>1, <2>2, <2>5
    <3>2. \A g \in Hands : flight'[g].kind \in {"none", "claim", "complete", "bind"}
      BY <2>3
    <3> QED BY <2>1, <2>2, <3>1, <3>2, <1>i DEF MissionsTypeOK, MissionRows
  <2>7. ReportsHold' /\ SettledBindingFinal'
    BY <2>1, <1>i DEF ReportsHold, SettledBindingFinal
  <2>8. CompletionHolds'
    BY <2>1, <1>i DEF CompletionHolds, FlightFounded
  <2>9. SeenIsPast'
    BY <2>1, <2>2, <2>5 DEF SeenIsPast
  <2>10. \A g \in Hands : FlightFounded(g)'
    BY <2>1, <2>3, <1>i DEF FlightFounded, NoFlight
  <2> QED BY <2>4, <2>6, <2>7, <2>8, <2>9, <2>10 DEF MissionInv
<1>4. ASSUME NEW h \in Hands, NEW t \in Work, InspectClaim(h, t) PROVE MissionInv'
  <2>1. /\ t \in Assigned /\ flight' = [flight EXCEPT ![h] = [kind |-> "claim", task |-> t, run |-> Latest(t).run]]
        /\ UNCHANGED <<mission, briefs, crews, plans, assigned, bound, reports, runTask, refused, verified, seen,
                       closedOn, control, escalated>>
    BY <1>4 DEF InspectClaim, Claimable
  <2>2. PICK row \in Claims : flight' = [flight EXCEPT ![h] = row] /\ row.kind = "claim"
    <3>1. [kind |-> "claim", task |-> t, run |-> Latest(t).run] \in Claims
      BY <2>1, <1>l DEF Claims
    <3> QED BY <2>1, <3>1
  <2>3. /\ \A g \in Hands : FlightFounded(g)'
        /\ flight' \in [Hands -> Flights]
        /\ \A g \in Hands : flight'[g].kind \in {"none", "claim", "complete", "bind"}
    BY <2>1, <2>2, <1>t, FlightsKept
  <2>4. MissionTypes' /\ MissionsTypeOK' /\ SeenIsPast'
    BY <2>1, <2>3, <1>k, <1>t
  <2>5. ReportsHold' /\ CompletionHolds' /\ SettledBindingFinal'
    BY <2>1, <1>i DEF ReportsHold, CompletionHolds, SettledBindingFinal
  <2> QED BY <2>3, <2>4, <2>5 DEF MissionInv
\* A step on the runs: nothing accepted is lost.
<1>r. ASSUME NEW r \in Runs, NEW t \in Work, NEW stage \in TaskStages, runTask[r][t] # "accepted",
             runTask' \in {runTask, [runTask EXCEPT ![r][t] = stage]}
      PROVE  /\ runTask' \in [Runs -> [Work -> TaskStages]]
             /\ \A q \in Runs, u \in Work : runTask[q][u] = "accepted" => runTask'[q][u] = "accepted"
  <2>1. CASE runTask' = runTask
    BY <2>1, <1>t
  <2>2. CASE runTask' = [runTask EXCEPT ![r][t] = stage]
    <3>1. PICK row \in [Work -> TaskStages] : row = [runTask[r] EXCEPT ![t] = stage]
      BY <1>t
    <3>2. runTask' = [runTask EXCEPT ![r] = row]
      BY <2>2, <3>1
    <3>3. runTask' \in [Runs -> [Work -> TaskStages]]
      BY <3>1, <3>2, <1>t
    <3>4. \A q \in Runs, u \in Work : runTask[q][u] = "accepted" => runTask'[q][u] = "accepted"
      BY <3>1, <3>2, <1>r, <1>t
    <3> QED BY <3>3, <3>4
  <2> QED BY <1>r, <2>1, <2>2
<1>5. ASSUME NEW h \in Hands, ClaimRunTask(h) PROVE MissionInv'
  <2>1. /\ flight[h].kind = "claim" /\ flight' = [flight EXCEPT ![h] = NoFlight]
        /\ UNCHANGED <<mission, briefs, crews, plans, assigned, bound, reports, refused, verified, seen,
                       closedOn, control, escalated>>
    BY <1>5 DEF ClaimRunTask
  <2>2. flight[h].run \in Runs /\ flight[h].task \in Work
    BY <2>1, <1>t DEF NoFlight, Claims, Closings, Binds
  <2>3. PICK r \in Runs, t \in Work : r = flight[h].run /\ t = flight[h].task
    BY <2>2
  <2>4. runTask' \in {runTask, [runTask EXCEPT ![r][t] = "running"]} /\ (runTask' = runTask \/ runTask[r][t] # "accepted")
    BY <1>5, <2>3 DEF ClaimRunTask
  <2>5. /\ runTask' \in [Runs -> [Work -> TaskStages]]
        /\ \A q \in Runs, u \in Work : runTask[q][u] = "accepted" => runTask'[q][u] = "accepted"
    <3>1. "running" \in TaskStages
      BY DEF TaskStages
    <3> QED BY <2>4, <3>1, <1>r, <1>t
  <2>6. /\ \A g \in Hands : FlightFounded(g)'
        /\ flight' \in [Hands -> Flights]
        /\ \A g \in Hands : flight'[g].kind \in {"none", "claim", "complete", "bind"}
    <3>1. NoFlight.kind = "none"
      BY DEF NoFlight
    <3> QED BY <2>1, <2>5, <3>1, <1>t, FlightsKept
  <2>7. MissionTypes' /\ MissionsTypeOK' /\ SeenIsPast'
    BY <2>1, <2>5, <2>6, <1>k, <1>t
  <2>8. ReportsHold' /\ SettledBindingFinal'
    BY <2>1, <2>5, <1>i, <1>t DEF ReportsHold, SettledBindingFinal
  <2>9. CompletionHolds'
    BY <2>1, <2>5, <1>i, <1>t DEF CompletionHolds, MissionTypes
  <2> QED BY <2>6, <2>7, <2>8, <2>9 DEF MissionInv
<1>6. ASSUME NEW r \in Runs, NEW t \in Work, NEW o \in TaskStages, SettleRunTask(r, t, o) PROVE MissionInv'
  <2>1. /\ runTask[r][t] = "running" /\ o \in TaskStages /\ runTask' = [runTask EXCEPT ![r][t] = o]
        /\ UNCHANGED <<mission, briefs, crews, plans, assigned, bound, reports, refused, verified, seen,
                       flight, closedOn, control, escalated>>
    BY <1>6 DEF SettleRunTask
  <2>2. /\ runTask' \in [Runs -> [Work -> TaskStages]]
        /\ \A q \in Runs, u \in Work : runTask[q][u] = "accepted" => runTask'[q][u] = "accepted"
    BY <2>1, <1>r
  <2>3. MissionTypes' /\ MissionsTypeOK' /\ SeenIsPast'
    BY <2>1, <2>2, <1>k, <1>t
  <2>4. ReportsHold' /\ SettledBindingFinal'
    BY <2>1, <2>2, <1>i, <1>t DEF ReportsHold, SettledBindingFinal
  <2>5. CompletionHolds'
    BY <2>1, <2>2, <1>i, <1>t DEF CompletionHolds, MissionTypes
  <2>6. \A h \in Hands : FlightFounded(h)'
    <3>1. ASSUME NEW h \in Hands PROVE FlightFounded(h)'
      <4>1. FlightFounded(h) /\ flight'[h] = flight[h]
        BY <2>1, <1>i
      <4>2. ASSUME flight[h].kind = "complete", NEW u \in DOMAIN flight[h].with
            PROVE  runTask'[flight[h].with[u]][u] = "accepted"
        BY <4>1, <4>2, <2>2, <1>t DEF FlightFounded
      <4> QED BY <2>1, <4>1, <4>2 DEF FlightFounded
    <3> QED BY <3>1
  <2> QED BY <2>3, <2>4, <2>5, <2>6 DEF MissionInv
<1>61. ASSUME NEW r \in Runs, NEW t \in Work, RejectReview(r, t) PROVE MissionInv'
  <2>1. /\ refused' = [refused EXCEPT ![r] = @ \cup {t}]
        /\ UNCHANGED <<mission, briefs, crews, plans, assigned, bound, reports, runTask, verified, seen,
                       flight, closedOn, control, escalated>>
    BY <1>61 DEF RejectReview
  <2>2. refused' \in [Runs -> SUBSET Work]
    BY <2>1, <1>t
  <2>3. MissionTypes' /\ MissionsTypeOK' /\ SeenIsPast'
    BY <2>1, <2>2, <1>k, <1>t
  <2>4. ReportsHold' /\ CompletionHolds' /\ SettledBindingFinal'
    BY <2>1, <1>i DEF ReportsHold, CompletionHolds, SettledBindingFinal
  <2>5. \A h \in Hands : FlightFounded(h)'
    BY <2>1, <1>i DEF FlightFounded
  <2> QED BY <2>3, <2>4, <2>5 DEF MissionInv
<1>62. ASSUME NEW r \in Runs, RecoverRun(r) PROVE MissionInv'
  <2>1. UNCHANGED <<mission, briefs, crews, plans, assigned, bound, reports, refused, verified, seen,
                    flight, closedOn, control, escalated>>
    BY <1>62 DEF RecoverRun
  <2>2. /\ runTask' \in [Runs -> [Work -> TaskStages]]
        /\ \A q \in Runs, u \in Work : runTask[q][u] = "accepted" => runTask'[q][u] = "accepted"
    BY <1>62, <1>t, Recovered
  <2>3. MissionTypes' /\ MissionsTypeOK' /\ SeenIsPast'
    BY <2>1, <2>2, <1>k, <1>t
  <2>4. ReportsHold' /\ SettledBindingFinal'
    BY <2>1, <2>2, <1>i, <1>t DEF ReportsHold, SettledBindingFinal
  <2>5. CompletionHolds'
    BY <2>1, <2>2, <1>i, <1>t DEF CompletionHolds, MissionTypes
  <2>6. \A h \in Hands : FlightFounded(h)'
    <3>1. ASSUME NEW h \in Hands PROVE FlightFounded(h)'
      <4>1. FlightFounded(h) /\ flight'[h] = flight[h]
        BY <2>1, <1>i
      <4>2. ASSUME flight[h].kind = "complete", NEW u \in DOMAIN flight[h].with
            PROVE  runTask'[flight[h].with[u]][u] = "accepted"
        BY <4>1, <4>2, <2>2, <1>t DEF FlightFounded
      <4> QED BY <2>1, <4>1, <4>2 DEF FlightFounded
    <3> QED BY <3>1
  <2> QED BY <2>3, <2>4, <2>5, <2>6 DEF MissionInv
<1>7. ASSUME NEW r \in Runs, RecordRunReport(r) PROVE MissionInv'
  <2>1. /\ reports' = reports \cup {r} /\ RunCompleted(r)
        /\ \A t \in Work : \E k \in Keys : /\ bound[k] # <<>> /\ Last(bound[k]).run = r
                                           /\ Last(bound[k]).task = t /\ Last(bound[k]).outcome = "accepted"
        /\ UNCHANGED <<mission, briefs, crews, plans, assigned, bound, runTask, refused, verified, seen,
                       flight, closedOn, control, escalated>>
    BY <1>7 DEF RecordRunReport
  <2>2. MissionTypes' /\ MissionsTypeOK' /\ SeenIsPast'
    BY <2>1, <1>k, <1>t
  <2>3. ReportsHold'
    BY <2>1, <1>i DEF ReportsHold, RunCompleted
  <2>4. CompletionHolds' /\ SettledBindingFinal'
    BY <2>1, <1>i DEF CompletionHolds, SettledBindingFinal
  <2>5. \A h \in Hands : FlightFounded(h)'
    BY <2>1, <1>i DEF FlightFounded
  <2> QED BY <2>2, <2>3, <2>4, <2>5 DEF MissionInv
<1>8. ASSUME NEW h \in Hands, NEW k \in Keys, NEW t \in Work, NEW o \in Outcomes, CheckBinding(h, k, t, o)
      PROVE  MissionInv'
  <2>1. PICK new : new = [task |-> t, revision |-> Len(assigned[t]), run |-> Latest(t).run, outcome |-> o]
    OBVIOUS
  <2>2. /\ t \in Assigned
        /\ bound[k] # <<>> => Last(bound[k]) = [new EXCEPT !.outcome = "pending"] /\ o # "pending"
        /\ flight' = [flight EXCEPT ![h] = [kind |-> "bind", key |-> k, place |-> Len(bound[k]) + 1, row |-> new]]
        /\ UNCHANGED <<mission, briefs, crews, plans, assigned, bound, reports, runTask, refused, verified,
                       seen, closedOn, control, escalated>>
    BY <1>8, <2>1 DEF CheckBinding
  <2>3. new \in BindingRows /\ new.outcome = o
    BY <2>1, <2>2, <1>l DEF BindingRows
  <2>4. /\ Len(bound[k]) + 1 \in 1..2
        /\ Len(bound[k]) + 1 = 2 => bound[k] # <<>> /\ bound[k][1].outcome = "pending" /\ o # "pending"
    <3>1. bound[k] \in Seq(BindingRows) /\ Len(bound[k]) \in Nat /\ Len(bound[k]) <= 2
      BY <1>t, <1>i DEF SettledBindingFinal
    <3>2. CASE bound[k] = <<>>
      BY <3>2
    <3>3. CASE bound[k] # <<>>
      <4>1. Last(bound[k]).outcome = "pending"
        BY <2>2, <2>3, <3>3 DEF BindingRows
      <4>2. Len(bound[k]) # 0
        BY <3>1, <3>3
      <4>3. Len(bound[k]) # 2
        BY <4>1, <1>i DEF SettledBindingFinal, Last
      <4>4. Len(bound[k]) = 1
        <5>1. \A n \in Nat : n <= 2 /\ n # 0 /\ n # 2 => n = 1
          OBVIOUS
        <5> QED BY <3>1, <4>2, <4>3, <5>1
      <4> QED BY <2>2, <3>3, <4>1, <4>4 DEF Last
    <3> QED BY <3>2, <3>3
  <2>5. PICK row \in Binds : /\ flight' = [flight EXCEPT ![h] = row] /\ row.key = k
                             /\ row.place = Len(bound[k]) + 1 /\ row.row = new
    <3>1. [kind |-> "bind", key |-> k, place |-> Len(bound[k]) + 1, row |-> new] \in Binds
      BY <2>3, <2>4 DEF Binds
    <3> QED BY <2>2, <3>1
  <2>6. /\ \A g \in Hands : FlightFounded(g)'
        /\ flight' \in [Hands -> Flights]
        /\ \A g \in Hands : flight'[g].kind \in {"none", "claim", "complete", "bind"}
    BY <2>2, <2>3, <2>4, <2>5, <1>t, FlightsKept, ZenonT(60)
  <2>7. MissionTypes' /\ MissionsTypeOK' /\ SeenIsPast'
    BY <2>2, <2>6, <1>k, <1>t
  <2>8. ReportsHold' /\ CompletionHolds' /\ SettledBindingFinal'
    BY <2>2, <1>i DEF ReportsHold, CompletionHolds, SettledBindingFinal
  <2> QED BY <2>6, <2>7, <2>8 DEF MissionInv
<1>9. ASSUME NEW h \in Hands, WriteBinding(h) PROVE MissionInv'
  <2>1. /\ flight[h].kind = "bind" /\ flight' = [flight EXCEPT ![h] = NoFlight]
        /\ UNCHANGED <<mission, briefs, crews, plans, assigned, reports, runTask, refused, verified, seen,
                       closedOn, control, escalated>>
    BY <1>9 DEF WriteBinding
  <2>2. flight[h] \in Binds /\ FlightFounded(h)
    BY <2>1, <1>i, <1>t DEF NoFlight, Claims, Closings
  <2>3. PICK k \in Keys, row \in BindingRows, n \in 1..2 :
          k = flight[h].key /\ row = flight[h].row /\ n = flight[h].place
    BY <2>2 DEF Binds
  <2>4. bound' = IF n = Len(bound[k]) + 1 THEN [bound EXCEPT ![k] = Append(@, row)] ELSE bound
    BY <1>9, <2>3 DEF WriteBinding
  <2>5. n = 2 => bound[k] # <<>> /\ bound[k][1].outcome = "pending" /\ row.outcome # "pending"
    BY <2>1, <2>2, <2>3 DEF FlightFounded
  <2>6. bound[k] \in Seq(BindingRows) /\ Len(bound[k]) \in Nat
    BY <1>t
  <2>7. /\ bound' \in [Keys -> Seq(BindingRows)]
        /\ \A q \in Keys : bound[q] # <<>> => bound'[q] # <<>> /\ bound'[q][1] = bound[q][1]
        /\ \A q \in Keys : \/ bound'[q] = bound[q]
                           \/ bound[q] = <<>> /\ Len(bound'[q]) = 1
                           \/ /\ Len(bound[q]) = 1 /\ bound[q][1].outcome = "pending"
                              /\ Len(bound'[q]) = 2 /\ bound'[q][1].outcome = "pending"
                              /\ bound'[q][2].outcome # "pending"
    <3>1. CASE n = Len(bound[k]) + 1
      <4>1. PICK q : q = Append(bound[k], row)
        OBVIOUS
      <4>2. /\ q \in Seq(BindingRows) /\ Len(q) = Len(bound[k]) + 1 /\ q[Len(bound[k]) + 1] = row
            /\ \A i \in DOMAIN bound[k] : q[i] = bound[k][i]
            /\ DOMAIN bound[k] = 1..Len(bound[k])
        BY <2>6, <4>1, Appended
      <4>3. /\ bound' \in [Keys -> Seq(BindingRows)] /\ bound'[k] = q
            /\ \A p \in Keys : p # k => bound'[p] = bound[p]
        BY <2>4, <3>1, <4>1, <4>2, <1>t
      <4>4. CASE n = 1
        <5>1. bound[k] = <<>> /\ Len(q) = 1
          BY <2>6, <3>1, <4>2, <4>4
        <5> QED BY <4>3, <5>1
      <4>5. CASE n = 2
        <5>1. Len(bound[k]) = 1
          <6>1. \A m \in Nat : 2 = m + 1 => m = 1
            OBVIOUS
          <6> QED BY <2>6, <3>1, <4>5, <6>1
        <5>2. Len(q) = 2 /\ q[2] = row /\ q[1] = bound[k][1]
          BY <4>2, <5>1
        <5>3. q # <<>>
          <6>1. Len(<<>>) # 2
            OBVIOUS
          <6> QED BY <5>2, <6>1, Zenon
        <5> QED BY <2>5, <4>3, <4>5, <5>1, <5>2, <5>3
      <4> QED BY <4>4, <4>5
    <3>2. CASE n # Len(bound[k]) + 1
      BY <2>4, <3>2, <1>t
    <3> QED BY <3>1, <3>2
  <2>8. /\ \A g \in Hands : FlightFounded(g)'
        /\ flight' \in [Hands -> Flights]
        /\ \A g \in Hands : flight'[g].kind \in {"none", "claim", "complete", "bind"}
    <3>1. NoFlight.kind = "none"
      BY DEF NoFlight
    <3> QED BY <2>1, <2>7, <3>1, <1>t, FlightsKept
  <2>9. MissionTypes' /\ MissionsTypeOK' /\ SeenIsPast'
    BY <2>1, <2>7, <2>8, <1>k, <1>t
  <2>10. SettledBindingFinal'
    <3>1. ASSUME NEW q \in Keys
          PROVE  /\ Len(bound'[q]) <= 2
                 /\ Len(bound'[q]) = 2 => bound'[q][1].outcome = "pending" /\ bound'[q][2].outcome # "pending"
      <4>1. /\ Len(bound[q]) <= 2
            /\ Len(bound[q]) = 2 => bound[q][1].outcome = "pending" /\ bound[q][2].outcome # "pending"
        BY <1>i DEF SettledBindingFinal
      <4>2. CASE bound'[q] = bound[q]
        BY <4>1, <4>2
      <4>3. CASE Len(bound'[q]) = 1
        BY <4>3
      <4>4. CASE Len(bound'[q]) = 2 /\ bound'[q][1].outcome = "pending" /\ bound'[q][2].outcome # "pending"
        BY <4>4
      <4> QED BY <2>7, <4>2, <4>3, <4>4
    <3> QED BY <3>1 DEF SettledBindingFinal
  <2>11. \A q \in Keys : bound[q] # <<>> /\ Last(bound[q]).outcome = "accepted" => bound'[q] = bound[q]
    BY <2>7 DEF Last
  <2>12. ReportsHold'
    BY <2>1, <2>11, <1>i DEF ReportsHold
  <2>13. CompletionHolds'
    BY <2>1, <1>i DEF CompletionHolds
  <2> QED BY <2>8, <2>9, <2>10, <2>12, <2>13 DEF MissionInv
<1> QED BY <1>1, <1>2, <1>3, <1>4, <1>5, <1>6, <1>61, <1>62, <1>7, <1>8, <1>9 DEF WorkNext

\* Every step of missions and conversations preserves all of it.
LEMMA MissionStep == MissionInv /\ [ConversationsNext]_conversationVars => MissionInv'
<1> SUFFICES ASSUME MissionInv, [ConversationsNext]_conversationVars PROVE MissionInv'
  OBVIOUS
<1>1. ASSUME UNCHANGED missionVars PROVE MissionInv'
  <2>1. UNCHANGED <<mission, briefs, crews, plans, assigned, bound, reports, runTask, refused, verified, seen, flight,
                    closedOn, control, escalated>>
    BY <1>1 DEF missionVars
  <2>2. MissionTypes'
    BY <2>1 DEF MissionInv, MissionTypes
  <2>3. MissionsTypeOK'
    BY <2>1 DEF MissionInv, MissionsTypeOK
  <2>4. ReportsHold' /\ CompletionHolds' /\ SettledBindingFinal' /\ SeenIsPast'
    BY <2>1 DEF MissionInv, ReportsHold, CompletionHolds, SettledBindingFinal, SeenIsPast
  <2>5. \A h \in Hands : FlightFounded(h)'
    BY <2>1 DEF MissionInv, FlightFounded
  <2> QED BY <2>2, <2>3, <2>4, <2>5 DEF MissionInv
<1>2. ASSUME TalkNext PROVE MissionInv'
  <2>1. UNCHANGED missionVars \/ \E x \in Targets, kind \in TargetKinds : InterveneTarget(x, kind)
    BY <1>2 DEF TalkNext, CheckExecutive, WriteExecutive, WriteSettlement, CheckSettlement, StageDecision
  <2> QED BY <1>1, <2>1, InterveneStep
<1> QED BY <1>1, <1>2, DecideStep, WorkStep, InterveneStep DEF ConversationsNext, MissionsNext, conversationVars

\* What a step may do to the mission and to the results of its runs.
LEMMA MissionChange ==
  ASSUME MissionInv, [ConversationsNext]_conversationVars
  PROVE  /\ mission' # mission => seen = mission
         /\ mission.state \in Terminal => mission'.state = mission.state
         /\ mission'.brief >= mission.brief /\ mission'.crew >= mission.crew
         /\ \A r \in Runs, t \in Work :
              runTask[r][t] = "accepted" => runTask'[r][t] = "accepted"
<1> DEFINE Kept == mission' = mission
           Moved == /\ seen = mission
                    /\ mission.state \in Terminal => mission'.state = mission.state
                    /\ mission'.brief >= mission.brief /\ mission'.crew >= mission.crew
           Results == \A r \in Runs, t \in Work :
                        runTask[r][t] = "accepted" => runTask'[r][t] = "accepted"
<1>t. /\ mission \in MissionRows /\ mission.brief \in Nat /\ mission.crew \in Nat /\ mission.plan \in Nat
      /\ mission.revision \in Nat /\ SeenIsPast /\ \A h \in Hands : FlightFounded(h)
      /\ runTask \in [Runs -> [Work -> TaskStages]]
      /\ flight \in [Hands -> {NoFlight} \cup Claims \cup Closings \cup Binds]
  BY DEF MissionInv, MissionTypes, MissionRows, MissionsTypeOK
<1>a. Admitted => seen = mission
  BY <1>t DEF Admitted, SeenIsPast
<1>u. ASSUME NEW new, Update(new), new \in [state : MissionStates, revision : Nat, brief : Nat, crew : Nat, plan : Nat]
      PROVE  mission'.state = new.state /\ mission'.brief = new.brief /\ mission'.crew = new.crew
  BY <1>u DEF Update
<1>s. ASSUME NEW state \in MissionStates, Update([mission EXCEPT !.state = state])
      PROVE  mission'.state = state /\ mission'.brief = mission.brief /\ mission'.crew = mission.crew
  <2>1. PICK new : new = [mission EXCEPT !.state = state]
    OBVIOUS
  <2>2. /\ new \in [state : MissionStates, revision : Nat, brief : Nat, crew : Nat, plan : Nat]
        /\ new.state = state /\ new.brief = mission.brief /\ new.crew = mission.crew
    BY <2>1, <1>t DEF MissionRows
  <2>3. Update(new)
    BY <1>s, <2>1
  <2> QED BY <2>2, <2>3, <1>u
<1>e. \A state \in Terminal : Following(state) = {}
  BY DEF Terminal, Following
<1>1. ASSUME DecideNext PROVE (Kept \/ Moved) /\ Results
  <2>1. Results
    BY <1>1 DEF DecideNext, ReadMission, RecordCrew, AcceptEnvironmentPlan, RecordBrief, Transition,
                RecordAssignment
  <2>2. CASE ReadMission \/ \E t \in Work, r \in Runs : RecordAssignment(t, r)
    BY <2>1, <2>2 DEF ReadMission, RecordAssignment
  <2>3. CASE RecordCrew
    <3>1. PICK new : new = [mission EXCEPT !.crew = @ + 1]
      OBVIOUS
    <3>2. Admitted /\ Update(new)
      BY <2>3, <3>1 DEF RecordCrew
    <3>3. /\ new \in [state : MissionStates, revision : Nat, brief : Nat, crew : Nat, plan : Nat]
          /\ new.state = mission.state /\ new.brief = mission.brief /\ new.crew = mission.crew + 1
      BY <3>1, <1>t DEF MissionRows
    <3> QED BY <3>2, <3>3, <1>a, <1>u, <1>t, <2>1
  <2>4. CASE AcceptEnvironmentPlan
    <3>1. PICK new : new = [mission EXCEPT !.plan = @ + 1]
      OBVIOUS
    <3>2. Admitted /\ Update(new)
      BY <2>4, <3>1 DEF AcceptEnvironmentPlan
    <3>3. /\ new \in [state : MissionStates, revision : Nat, brief : Nat, crew : Nat, plan : Nat]
          /\ new.state = mission.state /\ new.brief = mission.brief /\ new.crew = mission.crew
      BY <3>1, <1>t DEF MissionRows
    <3> QED BY <3>2, <3>3, <1>a, <1>u, <1>t, <2>1
  <2>5. ASSUME NEW confirmed \in BOOLEAN, RecordBrief(confirmed) PROVE Moved
    <3>1. PICK new : new = [mission EXCEPT !.state = "clarifying", !.brief = @ + 1]
      OBVIOUS
    <3>2. Admitted /\ Update(new) /\ mission.state \notin Terminal
      BY <2>5, <3>1 DEF RecordBrief
    <3>3. /\ new \in [state : MissionStates, revision : Nat, brief : Nat, crew : Nat, plan : Nat]
          /\ new.brief = mission.brief + 1 /\ new.crew = mission.crew
      <4>1. PICK n \in Nat : n = mission.brief + 1
        BY <1>t
      <4>2. new = [mission EXCEPT !.state = "clarifying", !.brief = n]
        BY <3>1, <4>1
      <4> QED BY <4>1, <4>2, <1>t DEF MissionRows, MissionStates
    <3> QED BY <3>2, <3>3, <1>a, <1>u, <1>t
  <2>6. ASSUME NEW to \in MissionStates, Transition(to) PROVE Moved
    BY <2>6, <1>a, <1>s, <1>e, <1>t DEF Transition, MayMove
  <2> QED BY <1>1, <2>1, <2>2, <2>3, <2>4, <2>5, <2>6 DEF DecideNext
<1>2. ASSUME WorkNext PROVE (Kept \/ Moved) /\ Results
  <2>1. ASSUME NEW h \in Hands, RecordCompletion(h) PROVE Moved /\ Results
    <3>1. /\ flight[h].kind = "complete" /\ Update([mission EXCEPT !.state = "completed"])
          /\ runTask' = runTask /\ MayMove("completed")
      BY <2>1 DEF RecordCompletion
    <3>2. mission.state \notin Terminal /\ "completed" \in MissionStates
      BY <3>1, <1>e DEF MayMove, MissionStates
    <3> QED BY <3>1, <3>2, <1>s, <1>t DEF FlightFounded
  <2>2. ASSUME NEW h \in Hands, ClaimRunTask(h) PROVE Kept /\ Results
    <3>1. flight[h].kind = "claim" /\ mission' = mission
      BY <2>2 DEF ClaimRunTask
    <3>2. flight[h].run \in Runs /\ flight[h].task \in Work
      BY <3>1, <1>t DEF NoFlight, Claims, Closings, Binds
    <3>3. PICK r \in Runs, t \in Work : r = flight[h].run /\ t = flight[h].task
      BY <3>2
    <3>4. \/ runTask' = runTask
          \/ runTask[r][t] = "planned" /\ runTask' = [runTask EXCEPT ![r][t] = "running"]
      BY <2>2, <3>3 DEF ClaimRunTask
    <3> QED BY <3>1, <3>4, <1>t
  <2>3. ASSUME NEW r \in Runs, NEW t \in Work, NEW o \in TaskStages, SettleRunTask(r, t, o) PROVE Kept /\ Results
    BY <2>3, <1>t DEF SettleRunTask
  <2>31. ASSUME NEW r \in Runs, RecoverRun(r) PROVE Kept /\ Results
    BY <2>31, <1>t, Recovered DEF RecoverRun
  <2>4. CASE \/ \E v \in 1..MaxPlans : ResolvePlan(v)
             \/ \E h \in Hands : \/ CheckCompletion(h) \/ WriteBinding(h)
                                 \/ \E t \in Work : InspectClaim(h, t)
                                 \/ \E k \in Keys, t \in Work, o \in Outcomes : CheckBinding(h, k, t, o)
             \/ \E r \in Runs : RecordRunReport(r) \/ \E t \in Work : RejectReview(r, t)
    BY <2>4, ZenonT(60) DEF RejectReview, ResolvePlan, CheckCompletion, WriteBinding, InspectClaim, CheckBinding, RecordRunReport
  <2> QED BY <1>2, <2>1, <2>2, <2>3, <2>31, <2>4 DEF WorkNext
<1>3. ASSUME NEW state \in MissionStates, Intervene(state), state = mission.state \/ mission.state \notin Terminal
      PROVE  Moved /\ Results
  BY <1>3, <1>a, <1>s, <1>t DEF Intervene
<1>4. mission.state \in MissionStates
  BY <1>t DEF MissionRows
<1>5. ASSUME InterveneNext PROVE (Kept \/ Moved) /\ Results
  <2>1. ASSUME NEW kind \in ControlKinds, InterveneMission(kind) PROVE Moved /\ Results
    <3>1. PICK state \in {"paused", "active", "cancelled"} : Intervene(state) /\ mission.state \notin Terminal
      BY <2>1 DEF InterveneMission, ControlKinds
    <3> QED BY <1>3, <3>1 DEF MissionStates
  <2>2. ASSUME NEW e \in Escalations, OpenEscalation(e) \/ AnswerEscalation(e) PROVE (Kept \/ Moved) /\ Results
    BY <2>2, <1>3, <1>4 DEF OpenEscalation, AnswerEscalation
  <2>3. ASSUME NEW kind \in ControlKinds, NEW t \in Work, NEW scope \in SUBSET Work, ControlTask(t, kind, scope)
        PROVE  Moved /\ Results
    BY <2>3, <1>3, <1>4 DEF ControlTask
  <2> QED BY <1>5, <2>1, <2>2, <2>3 DEF InterveneNext
<1>6. ASSUME TalkNext PROVE (Kept \/ Moved) /\ Results
  <2>1. ASSUME NEW x \in Targets, NEW kind \in TargetKinds, InterveneTarget(x, kind) PROVE Moved /\ Results
    BY <2>1, <1>3, <1>4 DEF InterveneTarget
  <2>2. CASE UNCHANGED missionVars
    BY <2>2 DEF missionVars
  <2>3. UNCHANGED missionVars \/ \E x \in Targets, kind \in TargetKinds : InterveneTarget(x, kind)
    BY <1>6 DEF TalkNext, CheckExecutive, WriteExecutive, WriteSettlement, CheckSettlement, StageDecision
  <2> QED BY <2>1, <2>2, <2>3
<1>7. ASSUME UNCHANGED conversationVars PROVE Kept /\ Results
  BY <1>7 DEF conversationVars, missionVars
<1>8. (Kept \/ Moved) /\ Results
  BY <1>1, <1>2, <1>5, <1>6, <1>7 DEF ConversationsNext, MissionsNext
<1> QED BY <1>8, <1>t

\* Every step of the three components is, for the mission, a step of the first two.
LEMMA WholeIsConversation == [WholeNext]_WholeVars => [ConversationsNext]_conversationVars
BY DEF WholeNext, WholeVars

\* The mission's invariant holds throughout.
LEMMA MissionAlways == WholeSpec => []MissionInv
<1>1. ConversationsInit /\ TeamInit => MissionInv
  BY MissionInitially DEF ConversationsInit
<1>2. MissionInv /\ [WholeNext]_WholeVars => MissionInv'
  BY MissionStep, WholeIsConversation
<1> QED BY <1>1, <1>2, PTL DEF WholeSpec

\* What a binding rests on is there when it is checked and stays until it is written.
EvidenceInv ==
  /\ SettledOnEvidence
  /\ \A h \in Hands : flight[h].kind = "bind" => Evidenced(flight[h].row)

\* What a row rests on is there after the step.
StillEvidenced(row) ==
  /\ row.outcome = "accepted" => runTask'[row.run][row.task] = "accepted"
  /\ row.outcome = "rejected" => row.task \in refused'[row.run]

\* Acceptances and rejections only accumulate, so a settlement keeps its evidence through
\* recovery, claims and everything else between its check and its insert.
LEMMA EvidenceStep ==
  ASSUME MissionInv, EvidenceInv, [ConversationsNext]_conversationVars
  PROVE  EvidenceInv'
<1>t. /\ flight \in [Hands -> {NoFlight} \cup Claims \cup Closings \cup Binds]
      /\ bound \in [Keys -> Seq(BindingRows)] /\ refused \in [Runs -> SUBSET Work]
      /\ assigned \in [Work -> Seq([crew : Nat, run : Runs])]
  BY DEF MissionInv, MissionTypes, MissionsTypeOK
<1>1. \A r \in Runs, t \in Work : runTask[r][t] = "accepted" => runTask'[r][t] = "accepted"
  BY MissionChange
\* A part of a step that leaves the bindings alone and takes up none.
<1>2. ASSUME MissionsNext PROVE
        \/ \E r \in Runs, t \in Work : RejectReview(r, t)
        \/ \E h \in Hands, k \in Keys, t \in Work, o \in Outcomes : CheckBinding(h, k, t, o)
        \/ \E h \in Hands : WriteBinding(h)
        \/ /\ UNCHANGED <<bound, refused>>
           /\ \A h \in Hands : flight'[h] = flight[h] \/ flight'[h].kind # "bind"
  <2>1. CASE DecideNext
    BY <2>1 DEF DecideNext, ReadMission, RecordCrew, AcceptEnvironmentPlan, RecordBrief, Transition, RecordAssignment
  <2>2. CASE WorkNext
    <3>1. ASSUME NEW h \in Hands, NEW row, row.kind # "bind", flight' = [flight EXCEPT ![h] = row]
          PROVE  \A g \in Hands : flight'[g] = flight[g] \/ flight'[g].kind # "bind"
      BY <3>1, <1>t
    <3>2. ASSUME NEW h \in Hands, CheckCompletion(h) \/ RecordCompletion(h) \/ ClaimRunTask(h)
                                  \/ \E t \in Work : InspectClaim(h, t)
          PROVE  /\ UNCHANGED <<bound, refused>>
                 /\ \A g \in Hands : flight'[g] = flight[g] \/ flight'[g].kind # "bind"
      <4>1. CASE CheckCompletion(h)
        BY <3>1, <4>1 DEF CheckCompletion
      <4>2. CASE RecordCompletion(h)
        BY <3>1, <4>2 DEF RecordCompletion, NoFlight
      <4>3. CASE ClaimRunTask(h)
        BY <3>1, <4>3 DEF ClaimRunTask, NoFlight
      <4>4. CASE \E t \in Work : InspectClaim(h, t)
        BY <3>1, <4>4 DEF InspectClaim
      <4> QED BY <3>2, <4>1, <4>2, <4>3, <4>4
    <3>3. CASE \/ \E v \in 1..MaxPlans : ResolvePlan(v)
               \/ \E r \in Runs : \/ RecordRunReport(r) \/ RecoverRun(r)
                                   \/ \E t \in Work, stage \in TaskStages : SettleRunTask(r, t, stage)
      BY <3>3 DEF ResolvePlan, RecordRunReport, RecoverRun, SettleRunTask
    <3> QED BY <2>2, <3>2, <3>3 DEF WorkNext
  <2> QED BY <1>2, <2>1, <2>2 DEF MissionsNext
<1>3. ASSUME InterveneNext \/ TalkNext \/ UNCHANGED conversationVars
      PROVE  UNCHANGED <<bound, refused, flight>>
  BY <1>3 DEF InterveneNext, OpenEscalation, AnswerEscalation, InterveneMission, ControlTask, Intervene,
              TalkNext, CheckExecutive, WriteExecutive, WriteSettlement, CheckSettlement, StageDecision,
              InterveneTarget, conversationVars, missionVars
<1>4. ASSUME NEW r \in Runs PROVE refused[r] \subseteq refused'[r]
  <2>1. ASSUME NEW q \in Runs, NEW t \in Work, RejectReview(q, t) PROVE refused[r] \subseteq refused'[r]
    BY <2>1, <1>t DEF RejectReview
  <2>2. CASE UNCHANGED refused
    BY <2>2
  <2> QED BY <1>2, <1>3, <2>1, <2>2, ZenonT(60) DEF ConversationsNext, CheckBinding, WriteBinding
<1>5. ASSUME NEW row \in BindingRows, Evidenced(row) PROVE StillEvidenced(row)
  BY <1>1, <1>4, <1>5 DEF Evidenced, StillEvidenced, BindingRows
<1>6. \A k \in Keys : \A i \in DOMAIN bound[k] : StillEvidenced(bound[k][i])
  BY <1>5, <1>t, Placed DEF EvidenceInv, SettledOnEvidence
<1>7. \A h \in Hands : flight[h].kind = "bind" => flight[h].row \in BindingRows /\ StillEvidenced(flight[h].row)
  <2>1. \A h \in Hands : flight[h].kind = "bind" => flight[h].row \in BindingRows
    BY <1>t DEF NoFlight, Claims, Closings, Binds
  <2> QED BY <1>5, <2>1 DEF EvidenceInv
<1>8. ASSUME UNCHANGED bound, \A h \in Hands : flight'[h] = flight[h] \/ flight'[h].kind # "bind"
      PROVE  EvidenceInv'
  BY <1>6, <1>7, <1>8 DEF EvidenceInv, SettledOnEvidence, Evidenced, StillEvidenced
<1>9. ASSUME NEW h \in Hands, NEW k \in Keys, NEW t \in Work, NEW o \in Outcomes, CheckBinding(h, k, t, o)
      PROVE  EvidenceInv'
  <2>1. PICK new : new = [task |-> t, revision |-> Len(assigned[t]), run |-> Latest(t).run, outcome |-> o]
    OBVIOUS
  <2>2. /\ flight' = [flight EXCEPT ![h] = [kind |-> "bind", key |-> k, place |-> Len(bound[k]) + 1, row |-> new]]
        /\ Settleable(Latest(t).run, t, o) /\ UNCHANGED <<bound, runTask, refused>>
    BY <1>9, <2>1 DEF CheckBinding
  <2>3. PICK f : f = [kind |-> "bind", key |-> k, place |-> Len(bound[k]) + 1, row |-> new]
    OBVIOUS
  <2>4. f.row = new /\ flight' = [flight EXCEPT ![h] = f]
    BY <2>2, <2>3
  <2>5. StillEvidenced(new)
    BY <2>1, <2>2 DEF Settleable, StillEvidenced
  <2>6. \A g \in Hands : flight'[g].kind = "bind" => StillEvidenced(flight'[g].row)
    BY <2>4, <2>5, <1>7, <1>t
  <2> QED BY <2>2, <2>6, <1>6 DEF EvidenceInv, SettledOnEvidence, Evidenced, StillEvidenced
<1>10. ASSUME NEW h \in Hands, WriteBinding(h) PROVE EvidenceInv'
  <2>1. /\ flight[h].kind = "bind" /\ flight' = [flight EXCEPT ![h] = NoFlight]
        /\ bound' = IF flight[h].place = Len(bound[flight[h].key]) + 1
                    THEN [bound EXCEPT ![flight[h].key] = Append(@, flight[h].row)]
                    ELSE bound
    BY <1>10 DEF WriteBinding
  <2>2. \A g \in Hands : flight'[g].kind = "bind" => StillEvidenced(flight'[g].row)
    BY <2>1, <1>7, <1>t DEF NoFlight
  <2>3. PICK row \in BindingRows : row = flight[h].row /\ StillEvidenced(row)
    BY <2>1, <1>7
  <2>4. PICK k \in Keys : k = flight[h].key
    BY <2>1, <1>t DEF NoFlight, Claims, Closings, Binds
  <2>5. bound' = [bound EXCEPT ![k] = Append(bound[k], row)] \/ bound' = bound
    BY <2>1, <2>3, <2>4
  <2>6. ASSUME NEW q \in Keys, NEW i \in DOMAIN bound'[q] PROVE StillEvidenced(bound'[q][i])
    <3>1. CASE bound'[q] = bound[q]
      BY <3>1, <1>6
    <3>2. CASE q = k /\ bound'[q] = Append(bound[k], row)
      <4>1. bound[k] \in Seq(BindingRows)
        BY <1>t
      <4>2. (i \in DOMAIN bound[k] /\ bound'[q][i] = bound[k][i]) \/ bound'[q][i] = row
        BY <3>2, <4>1, Appended
      <4> QED BY <4>2, <2>3, <1>6
    <3>3. bound'[q] = bound[q] \/ (q = k /\ bound'[q] = Append(bound[k], row))
      BY <2>5, <1>t
    <3> QED BY <3>1, <3>2, <3>3
  <2> QED BY <2>2, <2>6 DEF EvidenceInv, SettledOnEvidence, Evidenced, StillEvidenced
<1>11. ASSUME NEW r \in Runs, NEW t \in Work, RejectReview(r, t) PROVE EvidenceInv'
  BY <1>8, <1>11 DEF RejectReview
<1> QED BY <1>2, <1>3, <1>8, <1>9, <1>10, <1>11 DEF ConversationsNext

\* A mission changes only on the view its author had, stays terminal and rests on reported
\* and accepted runs; a settled binding keeps its evidence, and no accepted task starts again
\* (missions/repository.py, execution.py), whatever threads, recoveries, interventions and
\* team records interleave.
THEOREM MissionsAlwaysHold == WholeSpec => MissionHolds
<1>1. MissionInv => MissionsTypeOK /\ ReportsHold /\ CompletionHolds /\ SettledBindingFinal
  BY DEF MissionInv
<1>2. MissionInv /\ [WholeNext]_WholeVars => [mission' # mission => seen = mission]_missionVars
  BY MissionChange, WholeIsConversation
<1>3. MissionInv /\ [WholeNext]_WholeVars =>
        [mission.state \in Terminal => mission'.state = mission.state]_missionVars
  BY MissionChange, WholeIsConversation
<1>4. MissionInv /\ [WholeNext]_WholeVars =>
        [\A r \in Runs, t \in Work :
           runTask[r][t] = "accepted" => runTask'[r][t] = "accepted"]_missionVars
  BY MissionChange, WholeIsConversation
<1>5. ConversationsInit /\ TeamInit => EvidenceInv
  BY DEF ConversationsInit, MissionsInit, EvidenceInv, SettledOnEvidence, NoFlight
<1>6. MissionInv /\ EvidenceInv /\ [WholeNext]_WholeVars => EvidenceInv'
  BY EvidenceStep, WholeIsConversation
<1>7. EvidenceInv => SettledOnEvidence
  BY DEF EvidenceInv
<1> QED BY <1>1, <1>2, <1>3, <1>4, <1>5, <1>6, <1>7, MissionAlways, PTL
        DEF WholeSpec, MissionHolds, ChangedAsSeen, TerminalStays, NoSecondStart

-----------------------------------------------------------------------------
(* The records of a team. *)

CollabRows == [brief : 1..MaxBriefs, crew : 1..MaxCrews]
SignalRows == [kind : SignalKinds, plan : Nat, tasks : SUBSET Work, at : 1..MaxCursor]
HealthRows ==
  [plan : Nat, cursor : 1..MaxCursor, status : HealthStatuses, found : SUBSET SignalRows,
   saw : SUBSET SignalRows]

\* What a thread may have on its desk.
Planning == [kind : {"plan"}, place : 1..MaxCollabs, row : CollabRows]
Evaluating ==
  [kind : {"evaluate"}, plan : Nat, cursor : 1..MaxCursor, todo : SUBSET SignalRows,
   found : SUBSET SignalRows]
Weighing ==
  [kind : {"health"}, plan : Nat, cursor : 1..MaxCursor, checked : BOOLEAN, status : HealthStatuses,
   found : SUBSET SignalRows, saw : SUBSET SignalRows]
Adapting == [kind : {"adapt"}, row : AdaptationRows]
Desks == {NoDesk} \cup Planning \cup Evaluating \cup Weighing \cup Adapting

TeamTypes ==
  /\ collabs \in Seq(CollabRows) /\ Len(collabs) <= MaxCollabs
  /\ healths \in Seq(HealthRows) /\ adaptations \in Seq(AdaptationRows)
  /\ signals \subseteq SignalRows /\ (\A s \in signals : s.plan \in DOMAIN collabs)
  /\ handed \subseteq Work /\ approvals \in 0..1
  /\ desk \in [Hands -> Desks]

\* No plan is of a later Brief or Crew than the mission's.
PlansBehind ==
  \A i \in DOMAIN collabs : collabs[i].crew <= mission.crew /\ collabs[i].brief <= mission.brief

\* An adaptation names plans and Crews that exist, and its approval was given.
Governed(a) ==
  /\ a.after \in DOMAIN collabs /\ a.afterCrew \in 1..mission.crew
  /\ (a.beforeCrew # a.afterCrew) => approvals > 0

\* A thread that records a plan read the plans of its time, none newer than its own; what an
\* evaluation detected is recorded or still to be recorded, and what was interpreted had all
\* of it; what will be recorded of an adaptation is governed.
DeskFounded(d) ==
  /\ d.kind = "plan" =>
       /\ d.row.crew <= mission.crew /\ d.row.brief <= mission.brief /\ d.place <= Len(collabs) + 1
       /\ d.place = Len(collabs) + 1 =>
            \A i \in DOMAIN collabs : collabs[i].crew <= d.row.crew /\ collabs[i].brief <= d.row.brief
  /\ d.kind = "evaluate" => d.found \subseteq signals \cup d.todo
  /\ d.kind = "health" => d.found \subseteq d.saw /\ d.saw \subseteq signals
  /\ d.kind = "adapt" => Governed(d.row)

TeamInv ==
  /\ TeamTypes /\ PlansFollowCrews /\ PlansBehind /\ HealthSawSignals
  /\ \A i \in DOMAIN adaptations : Governed(adaptations[i])
  /\ \A h \in Hands : DeskFounded(desk[h])

\* Nothing is recorded at first.
LEMMA TeamInitially == TeamInit => TeamInv
<1> USE TeamAssumption
<1> SUFFICES ASSUME TeamInit PROVE TeamInv
  OBVIOUS
<1>1. collabs = <<>> /\ healths = <<>> /\ adaptations = <<>> /\ desk \in [Hands -> Desks]
      /\ \A h \in Hands : desk[h].kind = "none"
  BY DEF TeamInit, Desks, NoDesk
<1>2. TeamTypes
  BY <1>1 DEF TeamTypes, TeamInit
<1>3. PlansFollowCrews /\ PlansBehind /\ HealthSawSignals
  BY <1>1 DEF PlansFollowCrews, PlansBehind, HealthSawSignals
<1> QED BY <1>1, <1>2, <1>3 DEF TeamInv, DeskFounded

\* The kind of a desk tells what is on it.
LEMMA DeskKinds ==
  ASSUME NEW d \in Desks
  PROVE  /\ d.kind = "plan" => d \in Planning
         /\ d.kind = "evaluate" => d \in Evaluating
         /\ d.kind = "health" => d \in Weighing
         /\ d.kind = "adapt" => d \in Adapting
<1>1. /\ NoDesk.kind = "none" /\ (d \in Planning => d.kind = "plan")
      /\ (d \in Evaluating => d.kind = "evaluate") /\ (d \in Weighing => d.kind = "health")
      /\ (d \in Adapting => d.kind = "adapt")
  BY DEF NoDesk, Planning, Evaluating, Weighing, Adapting
<1>2. d = NoDesk \/ d \in Planning \/ d \in Evaluating \/ d \in Weighing \/ d \in Adapting
  BY DEF Desks
<1> QED BY <1>1, <1>2

\* What rests on the tables keeps resting on them as they grow.
LEMMA FoundedKept ==
  ASSUME TeamInv, mission.crew \in Nat, mission.brief \in Nat, mission'.crew \in Nat, mission'.brief \in Nat,
         mission'.crew >= mission.crew, mission'.brief >= mission.brief,
         collabs' \in Seq(CollabRows), DOMAIN collabs \subseteq DOMAIN collabs',
         collabs' = collabs \/ Len(collabs') = Len(collabs) + 1,
         signals \subseteq signals', approvals' \in 0..1, approvals > 0 => approvals' > 0
  PROVE  /\ \A d \in Desks : DeskFounded(d) => DeskFounded(d)'
         /\ \A a \in AdaptationRows : Governed(a) => Governed(a)'
<1>t. collabs \in Seq(CollabRows) /\ approvals \in 0..1 /\ Len(collabs) \in Nat
  BY DEF TeamInv, TeamTypes
<1>1. ASSUME NEW a \in AdaptationRows, Governed(a) PROVE Governed(a)'
  BY <1>1 DEF Governed
<1>2. ASSUME NEW d \in Desks, DeskFounded(d) PROVE DeskFounded(d)'
  <2>1. CASE d \in Planning
    <3>1. /\ d.kind = "plan" /\ d.place \in Nat /\ d.row.crew \in Nat /\ d.row.brief \in Nat
      BY <2>1 DEF Planning, CollabRows
    <3>2. /\ d.row.crew <= mission.crew /\ d.row.brief <= mission.brief /\ d.place <= Len(collabs) + 1
          /\ d.place = Len(collabs) + 1 =>
               \A i \in DOMAIN collabs : collabs[i].crew <= d.row.crew /\ collabs[i].brief <= d.row.brief
      BY <1>2, <3>1 DEF DeskFounded
    <3>3. d.row.crew <= mission'.crew /\ d.row.brief <= mission'.brief
      BY <3>1, <3>2
    <3>4. CASE collabs' = collabs
      BY <3>1, <3>2, <3>3, <3>4 DEF DeskFounded
    <3>5. CASE Len(collabs') = Len(collabs) + 1
      <4>1. d.place <= Len(collabs') + 1 /\ d.place # Len(collabs') + 1
        BY <3>1, <3>2, <3>5, <1>t
      <4> QED BY <3>1, <3>3, <4>1 DEF DeskFounded
    <3> QED BY <3>4, <3>5
  <2>2. CASE d \in Evaluating \cup Weighing
    <3>1. d.kind \in {"evaluate", "health"}
      BY <2>2 DEF Evaluating, Weighing
    <3> QED BY <1>2, <3>1 DEF DeskFounded
  <2>3. CASE d \in Adapting
    <3>1. d.kind = "adapt" /\ d.row \in AdaptationRows
      BY <2>3 DEF Adapting
    <3>2. Governed(d.row)'
      BY <1>1, <1>2, <3>1 DEF DeskFounded
    <3> QED BY <3>1, <3>2 DEF DeskFounded
  <2>4. CASE d = NoDesk
    BY <2>4 DEF NoDesk, DeskFounded
  <2> QED BY <2>1, <2>2, <2>3, <2>4 DEF Desks
<1> QED BY <1>1, <1>2

\* A thread takes something founded onto its desk, or leaves it.
LEMMA DeskMoved ==
  ASSUME TeamInv, NEW h \in Hands, NEW row \in Desks, desk' = [desk EXCEPT ![h] = row],
         \A d \in Desks : DeskFounded(d) => DeskFounded(d)', DeskFounded(row)'
  PROVE  /\ desk' \in [Hands -> Desks]
         /\ \A g \in Hands : DeskFounded(desk[g])'
<1>1. desk \in [Hands -> Desks] /\ \A g \in Hands : DeskFounded(desk[g])
  BY DEF TeamInv, TeamTypes
<1>2. desk' \in [Hands -> Desks] /\ desk'[h] = row /\ \A g \in Hands : g # h => desk'[g] = desk[g]
  BY <1>1
<1>3. ASSUME NEW g \in Hands PROVE DeskFounded(desk[g])'
  <2>1. PICK d \in Desks : d = desk[g] /\ DeskFounded(d)
    BY <1>1
  <2>2. DeskFounded(d)'
    BY <2>1
  <2>3. CASE g = h
    <3>1. desk'[g] = row
      BY <1>2, <2>3
    <3> QED BY <3>1 DEF DeskFounded
  <2>4. CASE g # h
    <3>1. desk'[g] = d
      BY <1>2, <2>1, <2>4
    <3> QED BY <2>2, <3>1 DEF DeskFounded
  <2> QED BY <2>3, <2>4
<1> QED BY <1>2, <1>3

\* TeamSignalDetector yields rows of signals.
LEMMA DetectedRows ==
  ASSUME NEW v \in Nat, NEW cursor \in 1..MaxCursor
  PROVE  Detected(v, cursor) \subseteq SignalRows
<1>1. ASSUME NEW kind \in SignalKinds PROVE Concerned(kind, v) \subseteq Work
  <2>1. CASE kind = "context_drift"
    BY <2>1 DEF Concerned, Assigned
  <2>2. CASE kind = "workload_concentration"
    BY <2>2 DEF Concerned, OwnedBy, Production, OfKind, Assigned
  <2>3. CASE kind = "missing_handoff"
    BY <2>3 DEF Concerned, AcceptedTasks
  <2>4. CASE kind = "rejection"
    BY <2>4 DEF Concerned
  <2> QED BY <2>1, <2>2, <2>3, <2>4 DEF SignalKinds
<1>2. ASSUME NEW s \in Detected(v, cursor) PROVE s \in SignalRows
  <2>1. PICK kind \in SignalKinds : s = [kind |-> kind, plan |-> v, tasks |-> Concerned(kind, v), at |-> cursor]
    BY <1>2 DEF Detected
  <2>2. PICK tasks \in SUBSET Work : tasks = Concerned(kind, v)
    BY <1>1
  <2> QED BY <2>1, <2>2 DEF SignalRows
<1> QED BY <1>2

\* Every step of the three components preserves what the records of a team rest on.
LEMMA TeamStep == MissionInv /\ TeamInv /\ [WholeNext]_WholeVars => TeamInv'
<1> USE TeamAssumption, MissionsAssumption
<1> SUFFICES ASSUME MissionInv, TeamInv, [WholeNext]_WholeVars PROVE TeamInv'
  OBVIOUS
<1> DEFINE Rest == UNCHANGED <<collabs, signals, handed, healths, adaptations, approvals>>
<1>m. /\ mission.crew \in 0..MaxCrews /\ mission.brief \in 0..MaxBriefs
      /\ mission.crew \in Nat /\ mission.brief \in Nat
      /\ mission'.crew \in Nat /\ mission'.brief \in Nat
      /\ mission'.crew >= mission.crew /\ mission'.brief >= mission.brief
  <2>1. MissionInv'
    BY MissionStep, WholeIsConversation
  <2>2. mission'.crew >= mission.crew /\ mission'.brief >= mission.brief
    BY MissionChange, WholeIsConversation
  <2>3. mission'.crew \in Nat /\ mission'.brief \in Nat
    BY <2>1 DEF MissionInv, MissionTypes, MissionRows
  <2> QED BY <2>2, <2>3 DEF MissionInv, MissionTypes, MissionRows
<1>i. /\ TeamTypes /\ PlansFollowCrews /\ PlansBehind /\ HealthSawSignals
      /\ \A i \in DOMAIN adaptations : Governed(adaptations[i])
      /\ \A h \in Hands : DeskFounded(desk[h])
  BY DEF TeamInv
<1>t. /\ collabs \in Seq(CollabRows) /\ Len(collabs) <= MaxCollabs /\ Len(collabs) \in Nat
      /\ healths \in Seq(HealthRows) /\ adaptations \in Seq(AdaptationRows)
      /\ signals \subseteq SignalRows /\ (\A s \in signals : s.plan \in DOMAIN collabs)
      /\ handed \subseteq Work /\ approvals \in 0..1 /\ desk \in [Hands -> Desks]
      /\ DOMAIN collabs = 1..Len(collabs)
      /\ \A i \in DOMAIN collabs : collabs[i] \in CollabRows
      /\ \A i \in DOMAIN adaptations : adaptations[i] \in AdaptationRows
  <2>1. /\ \A i \in DOMAIN collabs : collabs[i] \in CollabRows
        /\ \A i \in DOMAIN adaptations : adaptations[i] \in AdaptationRows
    BY <1>i, Placed DEF TeamTypes
  <2> QED BY <1>i, <2>1 DEF TeamTypes
\* What stays when a table does.
<1>b. ASSUME collabs' = collabs PROVE PlansFollowCrews' /\ PlansBehind'
  <2>1. PlansFollowCrews'
    BY <1>b, <1>i DEF PlansFollowCrews
  <2>2. ASSUME NEW i \in DOMAIN collabs
        PROVE  collabs[i].crew <= mission'.crew /\ collabs[i].brief <= mission'.brief
    <3>1. collabs[i].crew \in Nat /\ collabs[i].brief \in Nat
      <4>1. PICK row \in CollabRows : row = collabs[i]
        BY <1>t
      <4>2. row.crew \in Nat /\ row.brief \in Nat
        BY DEF CollabRows
      <4> QED BY <4>1, <4>2
    <3>2. collabs[i].crew <= mission.crew /\ collabs[i].brief <= mission.brief
      BY <1>i DEF PlansBehind
    <3> QED BY <3>1, <3>2, <1>m
  <2> QED BY <1>b, <2>1, <2>2 DEF PlansBehind
<1>v. ASSUME adaptations' = adaptations, \A a \in AdaptationRows : Governed(a) => Governed(a)'
      PROVE  \A i \in DOMAIN adaptations' : Governed(adaptations[i])'
  <2>1. ASSUME NEW i \in DOMAIN adaptations PROVE Governed(adaptations[i])'
    <3>1. PICK a \in AdaptationRows : a = adaptations[i] /\ Governed(a)
      BY <1>i, <1>t
    <3>2. Governed(a)' /\ adaptations'[i] = a
      BY <1>v, <3>1
    <3> QED BY <3>2 DEF Governed
  <2> QED BY <1>v, <2>1
<1>k. ASSUME Rest, desk' \in [Hands -> Desks], \A h \in Hands : DeskFounded(desk[h])' PROVE TeamInv'
  <2>1. \A a \in AdaptationRows : Governed(a) => Governed(a)'
    BY <1>k, <1>m, <1>t, FoundedKept
  <2>2. TeamTypes'
    BY <1>k, <1>i DEF TeamTypes
  <2>3. HealthSawSignals'
    BY <1>k, <1>i DEF HealthSawSignals
  <2> QED BY <1>k, <1>b, <1>v, <2>1, <2>2, <2>3 DEF TeamInv
\* A thread that moves while the tables stay.
<1>d. ASSUME Rest, NEW h \in Hands, NEW row \in Desks, desk' = [desk EXCEPT ![h] = row], DeskFounded(row)'
      PROVE  TeamInv'
  <2>1. \A d \in Desks : DeskFounded(d) => DeskFounded(d)'
    BY <1>d, <1>m, <1>t, FoundedKept
  <2> QED BY <1>d, <2>1, <1>k, DeskMoved
<1>n. NoDesk \in Desks /\ NoDesk.kind = "none" /\ DeskFounded(NoDesk)'
  BY DEF NoDesk, Desks, DeskFounded
<1>1. ASSUME UNCHANGED teamVars PROVE TeamInv'
  <2>1. Rest /\ desk' = desk
    BY <1>1 DEF teamVars
  <2>2. \A d \in Desks : DeskFounded(d) => DeskFounded(d)'
    BY <2>1, <1>m, <1>t, FoundedKept
  <2>3. ASSUME NEW h \in Hands PROVE DeskFounded(desk[h])'
    <3>1. PICK d \in Desks : d = desk[h] /\ DeskFounded(d)
      BY <1>i, <1>t
    <3>2. DeskFounded(d)' /\ desk'[h] = d
      BY <2>1, <2>2, <3>1
    <3> QED BY <3>2 DEF DeskFounded
  <2> QED BY <2>1, <2>3, <1>k, <1>t
<1>2. ASSUME UNCHANGED conversationVars PROVE mission' = mission
  BY <1>2 DEF conversationVars, missionVars
<1>3. ASSUME NEW h \in Hands, CheckCollaboration(h), mission' = mission PROVE TeamInv'
  <2>1. /\ mission.brief # 0 /\ mission.crew # 0 /\ Len(collabs) < MaxCollabs /\ Rest
        /\ desk' = [desk EXCEPT ![h] = [kind |-> "plan", place |-> Len(collabs) + 1,
                                        row |-> [brief |-> mission.brief, crew |-> mission.crew]]]
    BY <1>3 DEF CheckCollaboration, Takes
  <2>2. PICK row \in CollabRows : /\ row = [brief |-> mission.brief, crew |-> mission.crew]
                                  /\ row.brief = mission.brief /\ row.crew = mission.crew
    <3>1. [brief |-> mission.brief, crew |-> mission.crew] \in CollabRows
      BY <2>1, <1>m DEF CollabRows
    <3> QED BY <3>1
  <2>3. PICK d \in Planning : /\ d.kind = "plan" /\ d.place = Len(collabs) + 1 /\ d.row = row
                              /\ desk' = [desk EXCEPT ![h] = d]
    <3>1. Len(collabs) + 1 \in 1..MaxCollabs
      BY <2>1, <1>t
    <3>2. [kind |-> "plan", place |-> Len(collabs) + 1, row |-> row] \in Planning
      BY <3>1 DEF Planning
    <3> QED BY <2>1, <2>2, <3>2
  <2>4. DeskFounded(d)'
    <3>1. d.row.crew <= mission'.crew /\ d.row.brief <= mission'.brief
      BY <2>2, <2>3, <1>3, <1>m
    <3>2. \A i \in DOMAIN collabs' : collabs'[i].crew <= d.row.crew /\ collabs'[i].brief <= d.row.brief
      BY <2>1, <2>2, <2>3, <1>i DEF PlansBehind
    <3>3. d.place <= Len(collabs') + 1
      BY <2>1, <2>3, <1>t
    <3> QED BY <2>3, <3>1, <3>2, <3>3 DEF DeskFounded
  <2> QED BY <2>1, <2>3, <2>4, <1>d DEF Desks
<1>4. ASSUME NEW h \in Hands, NEW v \in DOMAIN collabs, NEW c \in 1..MaxCursor, BeginEvaluation(h, v, c)
      PROVE  TeamInv'
  <2>1. PICK found \in SUBSET SignalRows :
          desk' = [desk EXCEPT ![h] = [kind |-> "evaluate", plan |-> v, cursor |-> c, todo |-> found, found |-> found]]
    <3>1. v \in Nat
      BY <1>t
    <3>2. Detected(v, c) \subseteq SignalRows
      BY <3>1, DetectedRows
    <3> QED BY <1>4, <3>2 DEF BeginEvaluation, Takes
  <2>2. PICK d \in Evaluating : d.kind = "evaluate" /\ d.todo = d.found /\ desk' = [desk EXCEPT ![h] = d]
    <3>1. v \in Nat
      BY <1>t
    <3>2. [kind |-> "evaluate", plan |-> v, cursor |-> c, todo |-> found, found |-> found] \in Evaluating
      BY <3>1 DEF Evaluating
    <3> QED BY <2>1, <3>2
  <2>3. DeskFounded(d)'
    BY <2>2 DEF DeskFounded
  <2> QED BY <1>4, <2>2, <2>3, <1>d DEF Desks, BeginEvaluation
<1>5. ASSUME NEW h \in Hands, RecordDetected(h) PROVE TeamInv'
  <2>1. PICK s \in desk[h].todo :
          /\ RecordSignal(s) /\ desk' = [desk EXCEPT ![h] = [desk[h] EXCEPT !.todo = @ \ {s}]]
    BY <1>5 DEF RecordDetected, Takes
  <2>2. /\ desk[h].kind = "evaluate" /\ UNCHANGED <<collabs, handed, healths, adaptations, approvals>>
        /\ s.plan \in DOMAIN collabs /\ signals' = signals \cup {s}
    BY <1>5, <2>1 DEF RecordDetected, RecordSignal
  <2>3. PICK d \in Evaluating : d = desk[h] /\ DeskFounded(d)
    BY <2>2, <1>i, <1>t, DeskKinds
  <2>4. PICK todo \in SUBSET SignalRows : todo = d.todo \ {s}
    BY <2>3 DEF Evaluating
  <2>5. PICK e \in Evaluating : /\ e.kind = "evaluate" /\ e.todo = todo /\ e.found = d.found
                                /\ desk' = [desk EXCEPT ![h] = e]
    <3>1. [d EXCEPT !.todo = todo] \in Evaluating
      BY <2>4 DEF Evaluating
    <3>2. [desk[h] EXCEPT !.todo = @ \ {s}] = [d EXCEPT !.todo = todo]
      BY <2>3, <2>4
    <3> QED BY <2>1, <2>3, <3>1, <3>2 DEF Evaluating
  <2>6. s \in SignalRows
    BY <2>1, <2>3 DEF Evaluating
  <2>7. DeskFounded(e)'
    <3>1. d.found \subseteq signals \cup d.todo
      BY <2>2, <2>3 DEF DeskFounded
    <3>2. e.found \subseteq signals' \cup e.todo
      BY <2>2, <2>4, <2>5, <3>1
    <3> QED BY <2>5, <3>2 DEF DeskFounded
  <2>8. /\ \A x \in Desks : DeskFounded(x) => DeskFounded(x)'
        /\ \A a \in AdaptationRows : Governed(a) => Governed(a)'
    BY <2>2, <1>m, <1>t, FoundedKept
  <2>9. /\ desk' \in [Hands -> Desks] /\ \A g \in Hands : DeskFounded(desk[g])'
    BY <2>5, <2>7, <2>8, DeskMoved DEF Desks
  <2>10. TeamTypes'
    BY <2>2, <2>6, <2>9, <1>i DEF TeamTypes
  <2>11. HealthSawSignals'
    BY <2>2, <1>i DEF HealthSawSignals
  <2> QED BY <2>2, <2>8, <2>9, <2>10, <2>11, <1>b, <1>v DEF TeamInv
<1>6. ASSUME NEW h \in Hands, NEW answer \in Answers, Interpret(h, answer) PROVE TeamInv'
  <2>1. /\ desk[h].kind = "evaluate" /\ desk[h].todo = {} /\ Rest
        /\ desk' = [desk EXCEPT ![h] =
             [kind |-> "health", plan |-> desk[h].plan, cursor |-> desk[h].cursor, checked |-> FALSE,
              status |-> Normalized(answer), found |-> desk[h].found, saw |-> signals]]
    BY <1>6 DEF Interpret, Takes
  <2>2. PICK d \in Evaluating : d = desk[h] /\ DeskFounded(d)
    BY <2>1, <1>i, <1>t, DeskKinds
  <2>3. PICK status \in HealthStatuses : status = Normalized(answer)
    BY DEF Normalized, Answers, HealthStatuses
  <2>4. PICK e \in Weighing : /\ e.kind = "health" /\ e.found = d.found /\ e.saw = signals
                             /\ desk' = [desk EXCEPT ![h] = e]
    <3>1. [kind |-> "health", plan |-> d.plan, cursor |-> d.cursor, checked |-> FALSE,
           status |-> status, found |-> d.found, saw |-> signals] \in Weighing
      BY <1>t, <2>2 DEF Weighing, Evaluating
    <3> QED BY <2>1, <2>2, <2>3, <3>1
  <2>5. DeskFounded(e)'
    BY <2>1, <2>2, <2>4 DEF DeskFounded
  <2> QED BY <2>1, <2>4, <2>5, <1>d DEF Desks
<1>7. ASSUME NEW h \in Hands, CheckHealth(h) PROVE TeamInv'
  <2>1. /\ desk[h].kind = "health" /\ Rest
        /\ \/ desk' = [desk EXCEPT ![h] = [desk[h] EXCEPT !.checked = TRUE]]
           \/ desk' = [desk EXCEPT ![h] = NoDesk]
    BY <1>7 DEF CheckHealth, Takes, Leaves
  <2>2. PICK d \in Weighing : d = desk[h] /\ DeskFounded(d)
    BY <2>1, <1>i, <1>t, DeskKinds
  <2>3. CASE desk' = [desk EXCEPT ![h] = [desk[h] EXCEPT !.checked = TRUE]]
    <3>1. PICK e \in Weighing : e = [d EXCEPT !.checked = TRUE]
      BY <2>2 DEF Weighing
    <3>2. e.kind = "health" /\ e.found = d.found /\ e.saw = d.saw /\ d.kind = "health"
      BY <2>2, <3>1 DEF Weighing
    <3>3. DeskFounded(e)'
      BY <2>1, <2>2, <3>2 DEF DeskFounded
    <3> QED BY <2>1, <2>2, <2>3, <3>1, <3>3, <1>d DEF Desks
  <2>4. CASE desk' = [desk EXCEPT ![h] = NoDesk]
    BY <2>1, <2>4, <1>d, <1>n
  <2> QED BY <2>1, <2>3, <2>4
<1>8. ASSUME NEW h \in Hands, WriteHealth(h) PROVE TeamInv'
  <2>1. /\ desk[h].kind = "health" /\ desk' = [desk EXCEPT ![h] = NoDesk]
        /\ healths' = Append(healths, [plan |-> desk[h].plan, cursor |-> desk[h].cursor,
                                       status |-> desk[h].status, found |-> desk[h].found,
                                       saw |-> desk[h].saw])
        /\ UNCHANGED <<collabs, signals, handed, adaptations, approvals>>
    BY <1>8 DEF WriteHealth, Leaves
  <2>2. PICK d \in Weighing : d = desk[h] /\ DeskFounded(d) /\ d.kind = "health"
    BY <2>1, <1>i, <1>t, DeskKinds
  <2>3. PICK row \in HealthRows : row.found = d.found /\ row.saw = d.saw /\ healths' = Append(healths, row)
    <3>1. [plan |-> d.plan, cursor |-> d.cursor, status |-> d.status, found |-> d.found, saw |-> d.saw] \in HealthRows
      BY <2>2 DEF Weighing, HealthRows
    <3> QED BY <2>1, <2>2, <3>1
  <2>4. /\ healths' \in Seq(HealthRows)
        /\ \A i \in DOMAIN healths' : (i \in DOMAIN healths /\ healths'[i] = healths[i]) \/ healths'[i] = row
    BY <2>3, <1>t, Appended, SMTT(60)
  <2>5. row.found \subseteq row.saw /\ row.saw \subseteq signals
    BY <2>2, <2>3 DEF DeskFounded
  <2>6. HealthSawSignals'
    BY <2>1, <2>4, <2>5, <1>i DEF HealthSawSignals
  <2>7. /\ \A x \in Desks : DeskFounded(x) => DeskFounded(x)'
        /\ \A a \in AdaptationRows : Governed(a) => Governed(a)'
    BY <2>1, <1>m, <1>t, FoundedKept
  <2>8. /\ desk' \in [Hands -> Desks] /\ \A g \in Hands : DeskFounded(desk[g])'
    BY <2>1, <2>7, <1>n, DeskMoved
  <2>9. TeamTypes'
    BY <2>1, <2>4, <2>8, <1>i DEF TeamTypes
  <2> QED BY <2>1, <2>6, <2>7, <2>8, <2>9, <1>b, <1>v DEF TeamInv
<1>9. ASSUME NEW t \in Work, RecordHandoff(t) PROVE TeamInv'
  <2>1. handed' = handed \cup {t} /\ UNCHANGED <<collabs, signals, healths, adaptations, approvals, desk>>
    BY <1>9 DEF RecordHandoff
  <2>2. /\ \A x \in Desks : DeskFounded(x) => DeskFounded(x)'
        /\ \A a \in AdaptationRows : Governed(a) => Governed(a)'
    BY <2>1, <1>m, <1>t, FoundedKept
  <2>3. ASSUME NEW h \in Hands PROVE DeskFounded(desk[h])'
    <3>1. PICK d \in Desks : d = desk[h] /\ DeskFounded(d)
      BY <1>i, <1>t
    <3>2. DeskFounded(d)' /\ desk'[h] = d
      BY <2>1, <2>2, <3>1
    <3> QED BY <3>2 DEF DeskFounded
  <2>4. TeamTypes' /\ HealthSawSignals'
    BY <2>1, <1>i DEF TeamTypes, HealthSawSignals
  <2> QED BY <2>1, <2>2, <2>3, <2>4, <1>b, <1>v DEF TeamInv
<1>10. ASSUME Approve PROVE TeamInv'
  <2>1. approvals = 0 /\ approvals' = 1 /\ UNCHANGED <<collabs, signals, handed, healths, adaptations, desk>>
    BY <1>10 DEF Approve
  <2>2. /\ \A x \in Desks : DeskFounded(x) => DeskFounded(x)'
        /\ \A a \in AdaptationRows : Governed(a) => Governed(a)'
    BY <2>1, <1>m, <1>t, FoundedKept
  <2>3. ASSUME NEW h \in Hands PROVE DeskFounded(desk[h])'
    <3>1. PICK d \in Desks : d = desk[h] /\ DeskFounded(d)
      BY <1>i, <1>t
    <3>2. DeskFounded(d)' /\ desk'[h] = d
      BY <2>1, <2>2, <3>1
    <3> QED BY <3>2 DEF DeskFounded
  <2>4. TeamTypes' /\ HealthSawSignals'
    BY <2>1, <1>i DEF TeamTypes, HealthSawSignals
  <2> QED BY <2>1, <2>2, <2>3, <2>4, <1>b, <1>v DEF TeamInv
<1>11. ASSUME NEW h \in Hands, NEW row \in AdaptationRows, CheckAdaptation(h, row), mission' = mission
       PROVE  TeamInv'
  <2>1. /\ row.after \in DOMAIN collabs /\ row.afterCrew = mission.crew /\ Rest
        /\ row.disposition = "bounded" => row.beforeCrew = row.afterCrew
        /\ row.disposition = "approval_required" => approvals > 0
        /\ desk' = [desk EXCEPT ![h] = [kind |-> "adapt", row |-> row]]
    BY <1>11 DEF CheckAdaptation, Takes
  <2>2. PICK d \in Adapting : d.kind = "adapt" /\ d.row = row /\ desk' = [desk EXCEPT ![h] = d]
    <3>1. [kind |-> "adapt", row |-> row] \in Adapting
      BY DEF Adapting
    <3> QED BY <2>1, <3>1
  <2>3. row.afterCrew \in 1..mission.crew /\ row.disposition \in {"bounded", "approval_required"}
    BY <2>1, <1>m DEF AdaptationRows, Dispositions
  <2>4. Governed(row)'
    BY <2>1, <2>3, <1>11 DEF Governed
  <2>5. DeskFounded(d)'
    BY <2>2, <2>4 DEF DeskFounded
  <2> QED BY <2>1, <2>2, <2>5, <1>d DEF Desks
<1>12. ASSUME NEW h \in Hands, WriteAdaptation(h) PROVE TeamInv'
  <2>1. /\ desk[h].kind = "adapt" /\ desk' = [desk EXCEPT ![h] = NoDesk]
        /\ adaptations' = Append(adaptations, desk[h].row)
        /\ UNCHANGED <<collabs, signals, handed, healths, approvals>>
    BY <1>12 DEF WriteAdaptation, Leaves
  <2>2. PICK d \in Adapting : d = desk[h] /\ DeskFounded(d) /\ d.kind = "adapt"
    BY <2>1, <1>i, <1>t, DeskKinds
  <2>3. PICK row \in AdaptationRows : Governed(row) /\ adaptations' = Append(adaptations, row)
    BY <2>1, <2>2 DEF Adapting, DeskFounded
  <2>4. /\ adaptations' \in Seq(AdaptationRows)
        /\ \A i \in DOMAIN adaptations' :
             (i \in DOMAIN adaptations /\ adaptations'[i] = adaptations[i]) \/ adaptations'[i] = row
    BY <2>3, <1>t, Appended, SMTT(60)
  <2>5. /\ \A x \in Desks : DeskFounded(x) => DeskFounded(x)'
        /\ \A a \in AdaptationRows : Governed(a) => Governed(a)'
    BY <2>1, <1>m, <1>t, FoundedKept
  <2>6. /\ desk' \in [Hands -> Desks] /\ \A g \in Hands : DeskFounded(desk[g])'
    BY <2>1, <2>5, <1>n, DeskMoved
  <2>7. ASSUME NEW i \in DOMAIN adaptations' PROVE Governed(adaptations[i])'
    <3>1. PICK a \in AdaptationRows : a = adaptations'[i] /\ Governed(a)
      BY <2>3, <2>4, <1>i, <1>t
    <3>2. Governed(a)'
      BY <2>5, <3>1
    <3> QED BY <3>1, <3>2 DEF Governed
  <2>8. TeamTypes' /\ HealthSawSignals'
    BY <2>1, <2>4, <2>6, <1>i DEF TeamTypes, HealthSawSignals
  <2> QED BY <2>1, <2>6, <2>7, <2>8, <1>b DEF TeamInv
<1>13. ASSUME NEW h \in Hands, WriteCollaboration(h), mission' = mission PROVE TeamInv'
  <2>1. /\ desk[h].kind = "plan" /\ desk' = [desk EXCEPT ![h] = NoDesk]
        /\ UNCHANGED <<signals, handed, healths, adaptations, approvals>>
    BY <1>13 DEF WriteCollaboration, Leaves
  <2>2. PICK d \in Planning : d = desk[h] /\ DeskFounded(d) /\ d.kind = "plan"
    BY <2>1, <1>i, <1>t, DeskKinds
  <2>3. PICK row \in CollabRows : row = d.row
    BY <2>2 DEF Planning
  <2>4. collabs' = IF d.place = Len(collabs) + 1 THEN Append(collabs, row) ELSE collabs
    BY <1>13, <2>2, <2>3 DEF WriteCollaboration
  <2>5. CASE d.place # Len(collabs) + 1
    BY <2>1, <2>4, <2>5, <1>d, <1>n
  <2>6. CASE d.place = Len(collabs) + 1
    <3>1. /\ collabs' \in Seq(CollabRows) /\ Len(collabs') = Len(collabs) + 1
          /\ DOMAIN collabs' = 1..Len(collabs) + 1 /\ DOMAIN collabs \subseteq DOMAIN collabs'
          /\ \A i \in DOMAIN collabs : collabs'[i] = collabs[i]
          /\ \A i \in DOMAIN collabs' : \/ i \in DOMAIN collabs /\ collabs'[i] = collabs[i]
                                        \/ i = Len(collabs) + 1 /\ collabs'[i] = row
      <4>1. collabs' = Append(collabs, row)
        BY <2>4, <2>6
      <4> QED BY <4>1, <1>t, Appended, SMTT(60)
    <3>2. Len(collabs') <= MaxCollabs
      BY <2>2, <2>6, <3>1, <1>t DEF Planning
    <3>3. /\ row.crew <= mission.crew /\ row.brief <= mission.brief
          /\ \A i \in DOMAIN collabs : collabs[i].crew <= row.crew /\ collabs[i].brief <= row.brief
      BY <2>2, <2>3, <2>6 DEF DeskFounded
    <3>4. PlansBehind'
      BY <3>1, <3>3, <1>13, <1>i DEF PlansBehind
    <3>5. PlansFollowCrews'
      <4>1. ASSUME NEW i \in DOMAIN collabs', NEW j \in DOMAIN collabs', i <= j
            PROVE  collabs'[i].crew <= collabs'[j].crew /\ collabs'[i].brief <= collabs'[j].brief
        <5>1. row.crew <= row.crew /\ row.brief <= row.brief
          BY DEF CollabRows
        <5>2. CASE j \in DOMAIN collabs
          <6>1. i \in DOMAIN collabs
            BY <3>1, <4>1, <5>2, <1>t, SMTT(60)
          <6> QED BY <3>1, <4>1, <5>2, <6>1, <1>i DEF PlansFollowCrews
        <5>3. CASE collabs'[j] = row
          BY <3>1, <3>3, <5>1, <5>3
        <5> QED BY <3>1, <5>2, <5>3
      <4> QED BY <4>1 DEF PlansFollowCrews
    <3>6. /\ \A x \in Desks : DeskFounded(x) => DeskFounded(x)'
          /\ \A a \in AdaptationRows : Governed(a) => Governed(a)'
      BY <2>1, <3>1, <1>m, <1>t, FoundedKept
    <3>7. /\ desk' \in [Hands -> Desks] /\ \A g \in Hands : DeskFounded(desk[g])'
      BY <2>1, <3>6, <1>n, DeskMoved
    <3>8. TeamTypes' /\ HealthSawSignals'
      BY <2>1, <3>1, <3>2, <3>7, <1>i DEF TeamTypes, HealthSawSignals
    <3> QED BY <2>1, <3>4, <3>5, <3>6, <3>7, <3>8, <1>v DEF TeamInv
  <2> QED BY <2>5, <2>6
<1>14. ASSUME AdaptNext, UNCHANGED conversationVars PROVE TeamInv'
  BY <1>14, <1>2, <1>3, <1>10, <1>11, <1>12, <1>13 DEF AdaptNext
<1>15. ASSUME HealthNext, UNCHANGED conversationVars PROVE TeamInv'
  BY <1>15, <1>2, <1>3, <1>4, <1>5, <1>6, <1>7, <1>8, <1>9, <1>13 DEF HealthNext
<1> QED BY <1>1, <1>14, <1>15 DEF WholeNext, WholeVars

\* Plans follow Briefs and Crews, an evaluation was made with all it detected and an
\* adaptation has the approval its disposition asks for (missions/team_repository.py),
\* although threads read and write apart and the mission changes between.
THEOREM TeamsAlwaysGoverned == WholeSpec => []TeamGoverned
<1>1. ConversationsInit /\ TeamInit => TeamInv
  BY TeamInitially
<1>2. MissionInv /\ TeamInv /\ [WholeNext]_WholeVars => TeamInv'
  BY TeamStep
<1>3. TeamInv => TeamGoverned
  <2> SUFFICES ASSUME TeamInv PROVE TeamGoverned
    OBVIOUS
  <2>1. /\ collabs \in Seq(CollabRows) /\ healths \in Seq(HealthRows)
        /\ adaptations \in Seq(AdaptationRows) /\ desk \in [Hands -> Desks]
        /\ signals \subseteq SignalRows /\ Len(collabs) <= MaxCollabs /\ approvals \in 0..1
        /\ handed \subseteq Work /\ \A s \in signals : s.plan \in DOMAIN collabs
    BY DEF TeamInv, TeamTypes
  <2>2. /\ \A i \in DOMAIN collabs : collabs[i] \in CollabRows
        /\ \A i \in DOMAIN healths : healths[i] \in HealthRows
        /\ \A i \in DOMAIN adaptations : adaptations[i] \in AdaptationRows
    BY <2>1, Placed
  <2>3. /\ \A s \in signals : s.kind \in SignalKinds /\ s.tasks \subseteq Work
        /\ \A i \in DOMAIN healths : healths[i].status \in HealthStatuses
        /\ \A i \in DOMAIN adaptations : adaptations[i].disposition \in Dispositions
    BY <2>1, <2>2 DEF SignalRows, HealthRows, AdaptationRows
  <2>4. \A h \in Hands : desk[h].kind \in {"none", "plan", "evaluate", "health", "adapt"}
    BY <2>1 DEF Desks, NoDesk, Planning, Evaluating, Weighing, Adapting
  <2>5. TeamTypeOK
    BY <2>1, <2>2, <2>3, <2>4 DEF TeamTypeOK, CollabRows
  <2>6. AdaptationsGoverned
    BY DEF TeamInv, AdaptationsGoverned, Governed
  <2> QED BY <2>5, <2>6 DEF TeamInv, TeamGoverned
<1> QED BY <1>1, <1>2, <1>3, MissionAlways, PTL DEF WholeSpec

-----------------------------------------------------------------------------
(* Conversations. *)

Dispositioned == {"accepted", "rejected"}
Drafts ==
  {NoFlight} \cup [kind : {"channel"}] \cup [kind : {"settle"}, proposal : Proposals, outcome : Dispositioned]

TalkTypes ==
  /\ executives \in 0..1 /\ staged \subseteq Proposals
  /\ settled \in [Proposals -> Seq(Dispositioned)] /\ ceo \in [Targets -> Seq(TargetKinds)]
  /\ drafting \in [Hands -> Drafts]

TalkInv == TalkTypes /\ ConversationsTypeOK /\ OneDisposition /\ CeoDecidesOnce

\* The history of one target is in order: what CeoDecidesOnce says of each.
InOrder(history) ==
  /\ \A i, j \in DOMAIN history : i < j =>
       /\ ~(history[i] \in {"accept", "reject"} /\ history[j] \in {"accept", "reject"})
       /\ ~(history[i] = "accept_risk" /\ history[j] = "accept_risk")
       /\ (history[i] = "request" /\ history[j] = "request") =>
            \E k \in DOMAIN history : i < k /\ k < j /\ history[k] = "confirm"
       /\ (history[i] = "confirm" /\ history[j] = "confirm") =>
            \E k \in DOMAIN history : i < k /\ k < j /\ history[k] = "request"
  /\ \A j \in DOMAIN history : history[j] = "confirm" =>
       \E i \in DOMAIN history : i < j /\ history[i] = "request"

\* _validate_intervention_sequence keeps a history in order: it looks at the whole of it for
\* dispositions and acceptances, and at the latest request or confirmation.
LEMMA OrderKept ==
  ASSUME NEW history \in Seq(TargetKinds), InOrder(history), NEW kind \in TargetKinds,
         kind \in {"accept", "reject"} => \A i \in DOMAIN history : history[i] \notin {"accept", "reject"},
         kind = "accept_risk" => \A i \in DOMAIN history : history[i] # "accept_risk",
         kind = "request" => ~RequestPending(history),
         kind = "confirm" => RequestPending(history)
  PROVE  InOrder(Append(history, kind))
<1>1. PICK n \in Nat : n = Len(history) /\ DOMAIN history = 1..n
  OBVIOUS
<1>2. PICK new : new = Append(history, kind)
  OBVIOUS
<1>3. /\ DOMAIN new = 1..n + 1 /\ new[n + 1] = kind
      /\ \A i \in DOMAIN history : i \in DOMAIN new /\ new[i] = history[i]
      /\ \A i \in DOMAIN new : i \in DOMAIN history \/ i = n + 1
  BY <1>1, <1>2, Appended
<1>4. ASSUME NEW i \in DOMAIN new, NEW j \in DOMAIN new, i < j
      PROVE  /\ ~(new[i] \in {"accept", "reject"} /\ new[j] \in {"accept", "reject"})
             /\ ~(new[i] = "accept_risk" /\ new[j] = "accept_risk")
             /\ (new[i] = "request" /\ new[j] = "request") =>
                  \E k \in DOMAIN new : i < k /\ k < j /\ new[k] = "confirm"
             /\ (new[i] = "confirm" /\ new[j] = "confirm") =>
                  \E k \in DOMAIN new : i < k /\ k < j /\ new[k] = "request"
  <2>1. i \in DOMAIN history
    BY <1>1, <1>3, <1>4
  <2>2. CASE j \in DOMAIN history
    <3>1. /\ ~(history[i] \in {"accept", "reject"} /\ history[j] \in {"accept", "reject"})
          /\ ~(history[i] = "accept_risk" /\ history[j] = "accept_risk")
          /\ (history[i] = "request" /\ history[j] = "request") =>
               \E k \in DOMAIN history : i < k /\ k < j /\ history[k] = "confirm"
          /\ (history[i] = "confirm" /\ history[j] = "confirm") =>
               \E k \in DOMAIN history : i < k /\ k < j /\ history[k] = "request"
      BY <1>4, <2>1, <2>2 DEF InOrder
    <3>2. new[i] = history[i] /\ new[j] = history[j]
      BY <1>3, <2>1, <2>2
    <3> QED BY <1>3, <3>1, <3>2
  <2>3. CASE j = n + 1
    <3>1. new[j] = kind /\ new[i] = history[i]
      BY <1>3, <2>1, <2>3
    <3>2. ASSUME history[i] = "request", kind = "request"
          PROVE  \E k \in DOMAIN history : i < k /\ history[k] = "confirm"
      <4>1. PICK m \in DOMAIN history : m > i /\ history[m] \in {"request", "confirm"}
        BY <2>1, <3>2 DEF RequestPending
      <4>2. CASE history[m] = "confirm"
        BY <1>1, <2>1, <4>1, <4>2
      <4>3. CASE history[m] = "request"
        <5>1. i < m
          BY <1>1, <2>1, <4>1
        <5> QED BY <2>1, <3>2, <4>3, <5>1 DEF InOrder
      <4> QED BY <4>1, <4>2, <4>3
    <3>3. ASSUME history[i] = "confirm", kind = "confirm"
          PROVE  \E k \in DOMAIN history : i < k /\ history[k] = "request"
      <4>1. PICK m \in DOMAIN history : /\ history[m] = "request"
                                        /\ \A l \in DOMAIN history : l > m => history[l] \notin {"request", "confirm"}
        BY <3>3 DEF RequestPending
      <4>2. ~(i > m) /\ i # m
        BY <2>1, <3>3, <4>1
      <4>3. i < m
        BY <1>1, <2>1, <4>2
      <4> QED BY <4>1, <4>3
    <3>4. \A k \in DOMAIN history : k < j
      BY <1>1, <2>3
    <3>5. /\ ~(new[i] \in {"accept", "reject"} /\ new[j] \in {"accept", "reject"})
          /\ ~(new[i] = "accept_risk" /\ new[j] = "accept_risk")
      BY <2>1, <3>1
    <3> QED BY <1>3, <3>1, <3>2, <3>3, <3>4, <3>5
  <2> QED BY <1>3, <2>2, <2>3
<1>5. ASSUME NEW j \in DOMAIN new, new[j] = "confirm"
      PROVE  \E i \in DOMAIN new : i < j /\ new[i] = "request"
  <2>1. CASE j \in DOMAIN history
    <3>1. PICK i \in DOMAIN history : i < j /\ history[i] = "request"
      BY <1>3, <1>5, <2>1 DEF InOrder
    <3> QED BY <1>3, <3>1
  <2>2. CASE j = n + 1
    <3>1. PICK i \in DOMAIN history : history[i] = "request"
      BY <1>3, <1>5, <2>2 DEF RequestPending
    <3>2. i < j
      BY <1>1, <2>2
    <3> QED BY <1>3, <3>1, <3>2
  <2> QED BY <1>3, <2>1, <2>2
<1>6. InOrder(new)
  BY <1>4, <1>5 DEF InOrder
<1> QED BY <1>2, <1>6

\* Nothing was said yet.
LEMMA TalkInitially == ConversationsInit => TalkInv
<1> SUFFICES ASSUME ConversationsInit PROVE TalkInv
  OBVIOUS
<1>1. /\ executives = 0 /\ staged = {} /\ settled = [p \in Proposals |-> <<>>]
      /\ ceo = [x \in Targets |-> <<>>] /\ drafting = [h \in Hands |-> NoFlight]
  BY DEF ConversationsInit
<1>2. TalkTypes
  <2>1. executives \in 0..1 /\ staged \subseteq Proposals
    BY <1>1
  <2>2. settled \in [Proposals -> Seq(Dispositioned)] /\ ceo \in [Targets -> Seq(TargetKinds)]
    BY <1>1
  <2>3. drafting \in [Hands -> Drafts]
    BY <1>1 DEF Drafts
  <2> QED BY <2>1, <2>2, <2>3 DEF TalkTypes
<1>3. /\ \A p \in Proposals : Len(settled[p]) = 0 /\ DOMAIN settled[p] = {}
      /\ \A x \in Targets : Len(ceo[x]) = 0 /\ DOMAIN ceo[x] = {}
  BY <1>1
<1>4. ConversationsTypeOK
  BY <1>1, <1>3, ConversationsAssumption DEF ConversationsTypeOK, NoFlight
<1>5. OneDisposition /\ CeoDecidesOnce
  BY <1>1, <1>3 DEF OneDisposition, CeoDecidesOnce
<1> QED BY <1>2, <1>4, <1>5 DEF TalkInv

\* CeoDecidesOnce asks of every target what InOrder asks of one.
LEMMA DecidesInOrder == CeoDecidesOnce <=> \A x \in Targets : InOrder(ceo[x])
BY DEF CeoDecidesOnce, InOrder

\* What a thread may hold between its read and its insert.
LEMMA Drafted ==
  ASSUME TalkInv, NEW h \in Hands
  PROVE  /\ drafting[h].kind \in {"none", "settle", "channel"}
         /\ drafting[h].kind = "settle" =>
              /\ drafting[h].proposal \in Proposals /\ drafting[h].proposal \in staged
              /\ drafting[h].outcome \in Dispositioned
<1>1. PICK d : d = drafting[h]
  OBVIOUS
<1>2. d \in Drafts
  BY <1>1 DEF TalkInv, TalkTypes
<1>3. d.kind = "settle" => d.proposal \in Proposals /\ d.outcome \in Dispositioned
  BY <1>2 DEF Drafts, NoFlight
<1>4. d.kind \in {"none", "settle", "channel"} /\ (d.kind = "settle" => d.proposal \in staged)
  BY <1>1 DEF TalkInv, ConversationsTypeOK
<1> QED BY <1>1, <1>3, <1>4

\* Every step of missions and conversations preserves it: two threads may both have found a
\* proposal unsettled or no Executive channel, and the unique indexes refuse the second row.
LEMMA TalkStep == TalkInv /\ [ConversationsNext]_conversationVars => TalkInv'
<1> SUFFICES ASSUME TalkInv, [ConversationsNext]_conversationVars PROVE TalkInv'
  OBVIOUS
<1>t. TalkTypes /\ ConversationsTypeOK /\ OneDisposition /\ CeoDecidesOnce
  BY DEF TalkInv
<1>1. ASSUME UNCHANGED talkVars PROVE TalkInv'
  BY <1>1, <1>t DEF talkVars, TalkInv, TalkTypes, ConversationsTypeOK, OneDisposition, CeoDecidesOnce
<1>2. ASSUME NEW h \in Hands, NEW d \in Drafts, drafting' = [drafting EXCEPT ![h] = d],
             d.kind = "settle" => d.proposal \in staged, UNCHANGED staged
      PROVE  /\ drafting' \in [Hands -> Drafts]
             /\ \A g \in Hands : /\ drafting'[g].kind \in {"none", "settle", "channel"}
                                 /\ drafting'[g].kind = "settle" => drafting'[g].proposal \in staged'
  <2>1. drafting' \in [Hands -> Drafts]
    BY <1>2, <1>t DEF TalkTypes
  <2>2. d.kind \in {"none", "settle", "channel"}
    BY <1>2 DEF Drafts, NoFlight
  <2>3. ASSUME NEW g \in Hands
        PROVE  /\ drafting'[g].kind \in {"none", "settle", "channel"}
               /\ drafting'[g].kind = "settle" => drafting'[g].proposal \in staged'
    <3>1. CASE g = h
      <4>1. drafting'[g] = d
        BY <1>2, <1>t, <3>1 DEF TalkTypes
      <4> QED BY <1>2, <2>2, <4>1
    <3>2. CASE g # h
      <4>1. drafting'[g] = drafting[g]
        BY <1>2, <1>t, <3>2 DEF TalkTypes
      <4> QED BY <1>2, <4>1, Drafted
    <3> QED BY <3>1, <3>2
  <2> QED BY <2>1, <2>3
<1>3. ASSUME UNCHANGED ceo
      PROVE  /\ ceo' \in [Targets -> Seq(TargetKinds)] /\ CeoDecidesOnce'
             /\ \A x \in Targets : Len(ceo'[x]) <= MaxInterventions
  BY <1>3, <1>t DEF TalkTypes, CeoDecidesOnce, ConversationsTypeOK
<1>4. ASSUME UNCHANGED settled
      PROVE  /\ settled' \in [Proposals -> Seq(Dispositioned)]
             /\ \A p \in Proposals : Len(settled'[p]) <= 1
             /\ \A p \in Proposals : \A i \in DOMAIN settled'[p] : settled'[p][i] \in Dispositioned
  BY <1>4, <1>t DEF TalkTypes, OneDisposition, ConversationsTypeOK, Dispositioned
<1>5. ASSUME executives' \in 0..1, staged' \subseteq Proposals,
             settled' \in [Proposals -> Seq(Dispositioned)],
             \A p \in Proposals : Len(settled'[p]) <= 1,
             \A p \in Proposals : \A i \in DOMAIN settled'[p] : settled'[p][i] \in Dispositioned,
             ceo' \in [Targets -> Seq(TargetKinds)], CeoDecidesOnce',
             \A x \in Targets : Len(ceo'[x]) <= MaxInterventions,
             drafting' \in [Hands -> Drafts],
             \A g \in Hands : /\ drafting'[g].kind \in {"none", "settle", "channel"}
                              /\ drafting'[g].kind = "settle" => drafting'[g].proposal \in staged'
      PROVE  TalkInv'
  <2>1. TalkTypes'
    BY <1>5 DEF TalkTypes
  <2>2. executives' \in Nat /\ executives' <= 1
    BY <1>5
  <2>3. ConversationsTypeOK'
    BY <1>5, <2>2 DEF ConversationsTypeOK, Dispositioned
  <2>4. OneDisposition'
    BY <1>5, <2>2 DEF OneDisposition
  <2> QED BY <1>5, <2>1, <2>3, <2>4 DEF TalkInv
<1>6. ASSUME NEW h \in Hands, CheckExecutive(h) PROVE TalkInv'
  <2>1. PICK d : d = [kind |-> "channel"]
    OBVIOUS
  <2>2. d \in Drafts /\ d.kind = "channel"
    BY <2>1 DEF Drafts
  <2>3. drafting' = [drafting EXCEPT ![h] = d] /\ UNCHANGED <<executives, staged, settled, ceo>>
    BY <1>6, <2>1 DEF CheckExecutive
  <2> QED BY <1>2, <1>3, <1>4, <1>5, <1>t, <2>2, <2>3 DEF TalkTypes
<1>7. ASSUME NEW h \in Hands, WriteExecutive(h) PROVE TalkInv'
  <2>1. NoFlight \in Drafts /\ NoFlight.kind = "none"
    BY DEF Drafts, NoFlight
  <2>2. drafting' = [drafting EXCEPT ![h] = NoFlight] /\ UNCHANGED <<staged, settled, ceo>>
    BY <1>7 DEF WriteExecutive
  <2>3. executives' \in 0..1
    BY <1>7, <1>t DEF WriteExecutive, TalkTypes
  <2> QED BY <1>2, <1>3, <1>4, <1>5, <1>t, <2>1, <2>2, <2>3 DEF TalkTypes
<1>8. ASSUME NEW p \in Proposals, StageDecision(p) PROVE TalkInv'
  <2>1. staged' = staged \cup {p} /\ UNCHANGED <<executives, settled, ceo, drafting>>
    BY <1>8 DEF StageDecision
  <2>2. \A g \in Hands : /\ drafting'[g].kind \in {"none", "settle", "channel"}
                         /\ drafting'[g].kind = "settle" => drafting'[g].proposal \in staged'
    BY <2>1, Drafted
  <2> QED BY <1>3, <1>4, <1>5, <1>t, <2>1, <2>2 DEF TalkTypes
<1>9. ASSUME NEW h \in Hands, NEW p \in Proposals, NEW o \in {"accepted", "rejected"},
             CheckSettlement(h, p, o)
      PROVE  TalkInv'
  <2>1. PICK d : d = [kind |-> "settle", proposal |-> p, outcome |-> o]
    OBVIOUS
  <2>2. d \in Drafts /\ d.proposal = p
    BY <2>1 DEF Drafts, Dispositioned
  <2>3. /\ drafting' = [drafting EXCEPT ![h] = d] /\ p \in staged
        /\ UNCHANGED <<executives, staged, settled, ceo>>
    BY <1>9, <2>1 DEF CheckSettlement
  <2> QED BY <1>2, <1>3, <1>4, <1>5, <1>t, <2>2, <2>3 DEF TalkTypes
<1>10. ASSUME NEW h \in Hands, WriteSettlement(h) PROVE TalkInv'
  <2>1. NoFlight \in Drafts /\ NoFlight.kind = "none"
    BY DEF Drafts, NoFlight
  <2>2. PICK p \in Proposals, o \in Dispositioned :
          settled' = IF settled[p] = <<>> THEN [settled EXCEPT ![p] = Append(@, o)] ELSE settled
    BY <1>10, Drafted DEF WriteSettlement
  <2>3. drafting' = [drafting EXCEPT ![h] = NoFlight] /\ UNCHANGED <<executives, staged, ceo>>
    BY <1>10 DEF WriteSettlement
  <2>4. /\ settled' \in [Proposals -> Seq(Dispositioned)]
        /\ \A q \in Proposals : Len(settled'[q]) <= 1
        /\ \A q \in Proposals : \A i \in DOMAIN settled'[q] : settled'[q][i] \in Dispositioned
    <3>1. CASE settled[p] = <<>>
      <4>1. PICK one : one = Append(<<>>, o)
        OBVIOUS
      <4>2. one \in Seq(Dispositioned) /\ Len(one) <= 1
        BY <4>1
      <4>3. settled' = [settled EXCEPT ![p] = one]
        BY <2>2, <3>1, <4>1
      <4>4. settled' \in [Proposals -> Seq(Dispositioned)]
        BY <1>t, <4>2, <4>3 DEF TalkTypes
      <4>5. ASSUME NEW q \in Proposals PROVE Len(settled'[q]) <= 1
        <5>1. q = p => settled'[q] = one
          BY <1>t, <4>3 DEF TalkTypes
        <5>2. q # p => settled'[q] = settled[q]
          BY <1>t, <4>3 DEF TalkTypes
        <5>3. Len(settled[q]) <= 1
          BY <1>t DEF OneDisposition
        <5> QED BY <4>2, <5>1, <5>2, <5>3
      <4>6. \A q \in Proposals : \A i \in DOMAIN settled'[q] : settled'[q][i] \in Dispositioned
        BY <4>4, Placed
      <4> QED BY <4>4, <4>5, <4>6
    <3>2. CASE settled[p] # <<>>
      BY <1>4, <2>2, <3>2
    <3> QED BY <3>1, <3>2
  <2> QED BY <1>2, <1>3, <1>5, <1>t, <2>1, <2>3, <2>4 DEF TalkTypes
<1>11. ASSUME NEW x \in Targets, NEW kind \in TargetKinds, InterveneTarget(x, kind) PROVE TalkInv'
  <2>1. /\ Sequenced(x, kind) /\ Len(ceo[x]) < MaxInterventions
        /\ ceo' = [ceo EXCEPT ![x] = Append(ceo[x], kind)]
        /\ UNCHANGED <<executives, staged, settled, drafting>>
    BY <1>11 DEF InterveneTarget, Intervene
  <2>2. PICK history \in Seq(TargetKinds) : history = ceo[x]
    BY <1>t DEF TalkTypes
  <2>3. InOrder(history)
    BY <1>t, <2>2, DecidesInOrder
  <2>4. /\ kind \in {"accept", "reject"} => \A i \in DOMAIN history : history[i] \notin {"accept", "reject"}
        /\ kind = "accept_risk" => \A i \in DOMAIN history : history[i] # "accept_risk"
        /\ kind = "request" => ~RequestPending(history)
        /\ kind = "confirm" => RequestPending(history)
    BY <2>1, <2>2 DEF Sequenced
  <2>5. InOrder(Append(history, kind))
    BY <2>3, <2>4, OrderKept
  <2>6. Append(history, kind) \in Seq(TargetKinds) /\ Len(Append(history, kind)) = Len(history) + 1 /\ Len(history) \in Nat
    BY <2>2
  <2>7. PICK new : new = Append(history, kind)
    OBVIOUS
  <2>8. ceo' = [ceo EXCEPT ![x] = new] /\ new \in Seq(TargetKinds) /\ InOrder(new)
    BY <2>1, <2>2, <2>5, <2>6, <2>7
  <2>9. Len(new) <= MaxInterventions
    BY <2>1, <2>2, <2>6, <2>7, ConversationsAssumption
  <2>10. ceo' \in [Targets -> Seq(TargetKinds)]
    BY <1>t, <2>8 DEF TalkTypes
  <2>11. ASSUME NEW y \in Targets PROVE InOrder(ceo'[y]) /\ Len(ceo'[y]) <= MaxInterventions
    <3>1. CASE y = x
      <4>1. ceo'[y] = new
        BY <1>t, <2>8, <3>1 DEF TalkTypes
      <4> QED BY <2>8, <2>9, <4>1
    <3>2. CASE y # x
      <4>1. ceo'[y] = ceo[y]
        BY <1>t, <2>8, <3>2 DEF TalkTypes
      <4>2. InOrder(ceo[y]) /\ Len(ceo[y]) <= MaxInterventions
        BY <1>t, DecidesInOrder DEF ConversationsTypeOK
      <4> QED BY <4>1, <4>2
    <3> QED BY <3>1, <3>2
  <2>12. CeoDecidesOnce'
    BY <2>11 DEF CeoDecidesOnce, InOrder
  <2>13. \A g \in Hands : /\ drafting'[g].kind \in {"none", "settle", "channel"}
                          /\ drafting'[g].kind = "settle" => drafting'[g].proposal \in staged'
    BY <2>1, Drafted
  <2> QED BY <1>4, <1>5, <1>t, <2>1, <2>10, <2>11, <2>12, <2>13 DEF TalkTypes
<1>12. ASSUME ConversationsNext PROVE TalkInv'
  BY <1>1, <1>6, <1>7, <1>8, <1>9, <1>10, <1>11, <1>12 DEF ConversationsNext, TalkNext, InterveneNext
<1> QED BY <1>1, <1>12 DEF conversationVars

\* Of some numbers up to a bound one is the greatest.
LEMMA GreatestExists ==
  ASSUME NEW N \in Nat, NEW T \in SUBSET (1..N), T # {}
  PROVE  \E m \in T : \A n \in T : n <= m
<1> DEFINE Above(m) == {n \in T : n > m}
           A == {Above(m) : m \in T}
<1>1. IsFiniteSet(T)
  <2>1. IsFiniteSet(1..N)
    BY FS_Interval
  <2> QED BY <2>1, FS_Subset
<1>2. A \subseteq FiniteSubsetsOf(T) /\ A # {}
  <2>1. \A m \in T : Above(m) \in SUBSET T /\ IsFiniteSet(Above(m))
    BY <1>1, FS_Subset
  <2> QED BY <2>1 DEF FiniteSubsetsOf
<1>3. PICK x \in A : \A y \in A : <<y, x>> \notin StrictSubsetOrdering(T)
  <2> HIDE DEF A
  <2> QED BY <1>1, <1>2, FS_StrictSubsetOrderingWellFounded, WFMin
<1>4. PICK m \in T : x = Above(m)
  BY <1>3
<1>5. ASSUME NEW n \in Above(m) PROVE FALSE
  <2>1. n \in T /\ n > m /\ n \in Nat /\ m \in Nat
    OBVIOUS
  <2>2. Above(n) \subseteq Above(m) /\ Above(n) # Above(m)
    <3>1. n \in Above(m) /\ n \notin Above(n)
      BY <2>1
    <3>2. \A k \in Above(n) : k \in Above(m)
      BY <2>1
    <3> QED BY <3>1, <3>2
  <2>3. Above(n) \in A /\ Above(n) \in SUBSET T /\ Above(m) \in SUBSET T
    BY <2>1
  <2>4. <<Above(n), Above(m)>> \in StrictSubsetOrdering(T)
    <3> HIDE DEF Above
    <3> QED BY <2>2, <2>3 DEF StrictSubsetOrdering
  <2> QED BY <1>3, <1>4, <2>3, <2>4
<1>6. \A n \in T : ~(n > m)
  BY <1>5
<1> QED BY <1>6

\* No task has a control of its own after a stop.
StopInv ==
  \A t \in Work : \A i \in Own(t) : control[i].kind = "stop" => \A j \in Own(t) : j <= i

\* A control of a task keeps the order of every task's own controls and follows its own.
LEMMA ControlStep ==
  ASSUME control \in Seq(Controls), StopInv, NEW u \in Work, NEW kind \in ControlKinds,
         NEW scope \in SUBSET Work, ControlTask(u, kind, scope)
  PROVE  StopInv' /\ \A t \in Work : LastOwn(t, "stop") => LastOwn(t, "stop")'
<1>0. PICK e : e = [on |-> u, scope |-> scope, kind |-> kind]
  OBVIOUS
<1>1. PICK place \in 1..(Len(control) + 1) :
        (\A i \in Own(u) : i < place) /\ control' = InsertAt(control, place, e)
  BY <1>0 DEF ControlTask
<1>2. e \in Controls /\ e.on = u /\ e.kind = kind
  BY <1>0 DEF Controls
<1>3. /\ DOMAIN control = 1..Len(control) /\ Len(control) \in Nat /\ place \in Nat
      /\ DOMAIN control' = 1..(Len(control) + 1)
      /\ \A i \in 1..(Len(control) + 1) :
           control'[i] = IF i < place THEN control[i] ELSE IF i = place THEN e ELSE control[i - 1]
  <2>1. place \in Nat
    BY <1>1
  <2>2. control \in Seq(Controls) /\ place \in 1..(Len(control) + 1) /\ e \in Controls
    BY <1>1, <1>2
  <2>3. PICK q : q = InsertAt(control, place, e)
    OBVIOUS
  <2>4. control' = q
    BY <1>1, <2>3
  <2>5. /\ DOMAIN control = 1..Len(control) /\ Len(control) \in Nat
        /\ DOMAIN InsertAt(control, place, e) = 1..(Len(control) + 1)
        /\ \A i \in 1..(Len(control) + 1) :
             InsertAt(control, place, e)[i] =
               IF i < place THEN control[i] ELSE IF i = place THEN e ELSE control[i - 1]
    BY <2>2, Inserted
  <2> QED BY <2>1, <2>3, <2>4, <2>5
<1>4. ASSUME NEW t \in Work, NEW i \in Own(t)', i # place
      PROVE  /\ i < place => i \in Own(t) /\ control'[i] = control[i]
             /\ i > place => i - 1 \in Own(t) /\ control'[i] = control[i - 1]
  <2>1. i \in 1..(Len(control) + 1) /\ control'[i].on = t /\ i \in Nat
    BY <1>3, <1>4 DEF Own
  <2>2. CASE i < place
    <3>1. control'[i] = control[i] /\ i \in 1..Len(control)
      BY <1>3, <2>1, <2>2
    <3> QED BY <1>3, <2>1, <2>2, <3>1 DEF Own
  <2>3. CASE i > place
    <3>1. control'[i] = control[i - 1] /\ i - 1 \in 1..Len(control)
      BY <1>3, <2>1, <2>3
    <3> QED BY <1>3, <2>1, <2>3, <3>1 DEF Own
  <2> QED BY <1>3, <1>4, <2>1, <2>2, <2>3
<1>5. ~LastOwn(u, "stop") /\ \A i \in Own(u)' : i <= place
  <2>1. ASSUME NEW i \in Own(u)', i > place PROVE FALSE
    <3>1. i - 1 \in Own(u) /\ i \in Nat
      BY <1>3, <1>4, <2>1 DEF Own
    <3> QED BY <1>1, <1>3, <2>1, <3>1
  <2>2. \A i \in Own(u)' : i \in Nat
    BY <1>3 DEF Own
  <2> QED BY <1>3, <2>1, <2>2 DEF ControlTask
<1>6. ASSUME NEW t \in Work, t # u PROVE place \notin Own(t)'
  BY <1>2, <1>3, <1>6 DEF Own
<1>7. ASSUME NEW t \in Work, NEW i \in Own(t)', control'[i].kind = "stop", NEW j \in Own(t)'
      PROVE  j <= i
  <2>1. i \in Nat /\ j \in Nat
    BY <1>3 DEF Own
  <2>2. CASE t = u
    <3>1. CASE i = place
      BY <1>5, <2>2, <3>1
    <3>2. CASE i # place
      <4>1. i < place /\ i \in Own(u) /\ control[i].kind = "stop"
        BY <1>3, <1>4, <1>5, <1>7, <2>1, <2>2, <3>2
      <4> QED BY <1>5, <4>1 DEF StopInv, LastOwn
    <3> QED BY <3>1, <3>2
  <2>3. CASE t # u
    <3>0. ASSUME NEW n \in Own(t)'
          PROVE  \E a \in Own(t) : control'[n] = control[a] /\ ((n < place /\ a = n) \/ (n > place /\ a = n - 1))
      <4>1. n # place /\ n \in Nat
        BY <1>3, <1>6, <2>3 DEF Own
      <4>2. CASE n < place
        <5>1. n \in Own(t) /\ control'[n] = control[n]
          BY <1>4, <4>1, <4>2
        <5> QED BY <4>2, <5>1
      <4>3. CASE n > place
        BY <1>4, <4>1, <4>3
      <4> QED BY <1>3, <4>1, <4>2, <4>3
    <3>1. PICK a \in Own(t) : control'[i] = control[a] /\ ((i < place /\ a = i) \/ (i > place /\ a = i - 1))
      BY <3>0
    <3>2. PICK b \in Own(t) : ((j < place /\ b = j) \/ (j > place /\ b = j - 1))
      BY <3>0
    <3>3. b <= a
      BY <1>7, <3>1, <3>2 DEF StopInv
    <3> QED BY <1>3, <2>1, <3>1, <3>2, <3>3
  <2> QED BY <2>2, <2>3
<1>8. StopInv'
  BY <1>7 DEF StopInv
<1>9. ASSUME NEW t \in Work, LastOwn(t, "stop") PROVE LastOwn(t, "stop")'
  <2>1. t # u
    BY <1>5, <1>9
  <2>2. PICK i \in Own(t) : control[i].kind = "stop"
    BY <1>9 DEF LastOwn
  <2>3. PICK a \in 1..(Len(control) + 1) : control'[a] = control[i]
    <3>1. i \in 1..Len(control) /\ i \in Nat
      BY <1>3 DEF Own
    <3>2. CASE i < place
      BY <1>3, <3>1, <3>2
    <3>3. CASE ~(i < place)
      <4>1. i + 1 \in 1..(Len(control) + 1) /\ ~(i + 1 < place) /\ i + 1 # place /\ (i + 1) - 1 = i
        BY <1>3, <3>1, <3>3
      <4>2. control'[i + 1] = control[i]
        BY <1>3, <4>1
      <4> QED BY <4>1, <4>2
    <3> QED BY <3>2, <3>3
  <2>4. a \in Own(t)' /\ control'[a].kind = "stop"
    BY <1>3, <2>2, <2>3 DEF Own
  <2> QED BY <1>7, <2>4 DEF LastOwn
<1> QED BY <1>8, <1>9

\* What is stopped is held, unless a later control of another task matches it.
LEMMA StopsHold == MissionInv /\ StopInv => StopStands
<1> SUFFICES ASSUME MissionInv, StopInv, NEW t \in Work, NEW i \in Own(t), control[i].kind = "stop", Claimable(t)
             PROVE  \E j \in DOMAIN control :
                      j > i /\ control[j].kind = "resume" /\ control[j].on # t /\ t \in control[j].scope
  BY DEF StopStands, StopInv
<1>1. /\ control \in Seq(Controls) /\ DOMAIN control = 1..Len(control) /\ Len(control) \in Nat
      /\ \A j \in DOMAIN control : control[j] \in Controls
  BY Placed DEF MissionInv, MissionsTypeOK
<1>2. PICK G \in SUBSET (1..Len(control)) : G = {j \in DOMAIN control : Governs(j, t)}
  BY <1>1
<1>3. i \in G
  BY <1>2 DEF Own, Governs
<1>4. PICK m \in G : \A n \in G : n <= m
  BY <1>1, <1>3, GreatestExists
<1>5. m \in DOMAIN control /\ Governs(m, t) /\ i <= m /\ m \in Nat /\ i \in Nat
  BY <1>1, <1>2, <1>3, <1>4
<1>6. \A j \in DOMAIN control : j > m => ~Governs(j, t)
  BY <1>1, <1>2, <1>4
<1>7. control[m].kind = "resume"
  BY <1>1, <1>5, <1>6 DEF Claimable, Held, Controls, ControlKinds
<1>8. m > i /\ m \notin Own(t)
  BY <1>5, <1>7 DEF StopInv
<1> QED BY <1>5, <1>7, <1>8 DEF Own, Governs

\* No handler takes back a control or opens an answered escalation.
LEMMA DecidedStays ==
  ASSUME MissionInv, StopInv, [ConversationsNext]_conversationVars
  PROVE  /\ StopInv'
         /\ \A t \in Work : LastOwn(t, "stop") => LastOwn(t, "stop")'
         /\ \A e \in Escalations : escalated[e] = "answered" => escalated'[e] = "answered"
<1>t. control \in Seq(Controls) /\ escalated \in [Escalations -> {"none", "open", "answered"}]
  BY DEF MissionInv, MissionsTypeOK
<1>g. ASSUME UNCHANGED control
      PROVE  StopInv' /\ \A t \in Work : LastOwn(t, "stop") => LastOwn(t, "stop")'
  BY <1>g DEF StopInv, LastOwn, Own
<1>1. ASSUME MissionsNext PROVE UNCHANGED <<control, escalated>>
  <2>1. ASSUME DecideNext PROVE UNCHANGED <<control, escalated>>
    BY <2>1 DEF DecideNext, ReadMission, RecordCrew, AcceptEnvironmentPlan, RecordBrief, Transition, RecordAssignment
  <2>2. ASSUME WorkNext PROVE UNCHANGED <<control, escalated>>
    BY <2>2, ZenonT(60) DEF WorkNext, ResolvePlan, CheckCompletion, RecordCompletion, WriteBinding, ClaimRunTask, InspectClaim,
                CheckBinding, RecordRunReport, SettleRunTask, RejectReview, RecoverRun
  <2> QED BY <1>1, <2>1, <2>2 DEF MissionsNext
<1>2. ASSUME NEW e \in Escalations, OpenEscalation(e) \/ AnswerEscalation(e)
      PROVE  /\ control' = control
             /\ \A f \in Escalations : escalated[f] = "answered" => escalated'[f] = "answered"
  BY <1>2, <1>t DEF OpenEscalation, AnswerEscalation
<1>3. ASSUME NEW kind \in ControlKinds, InterveneMission(kind) PROVE UNCHANGED <<control, escalated>>
  BY <1>3 DEF InterveneMission
<1>4. ASSUME NEW kind \in ControlKinds, NEW u \in Work, NEW scope \in SUBSET Work, ControlTask(u, kind, scope)
      PROVE  /\ escalated' = escalated /\ StopInv'
             /\ \A t \in Work : LastOwn(t, "stop") => LastOwn(t, "stop")'
  BY <1>4, <1>t, ControlStep DEF ControlTask
<1>5. ASSUME TalkNext PROVE UNCHANGED <<control, escalated>>
  BY <1>5 DEF TalkNext, CheckExecutive, WriteExecutive, WriteSettlement, CheckSettlement, StageDecision,
              InterveneTarget, missionVars
<1>6. CASE UNCHANGED conversationVars
  BY <1>6, <1>g DEF conversationVars, missionVars
<1>7. CASE InterveneNext
  BY <1>2, <1>3, <1>4, <1>7, <1>g DEF InterveneNext
<1>8. CASE ConversationsNext
  BY <1>1, <1>5, <1>7, <1>8, <1>g DEF ConversationsNext
<1> QED BY <1>6, <1>8

\* What the CEO and the people in a conversation decided is decided once and stays decided
\* (conversations/repository.py: apply_intervention, record_decision, create_channel;
\* missions/execution.py: _latest_scoped_intervention), although decisions are read and
\* written in two steps by any number of threads and controls carry dates of their own.
THEOREM DecisionsAlwaysHold == WholeSpec => DecisionsHold
<1>1. ConversationsInit /\ TeamInit => TalkInv /\ StopInv
  <2>1. ConversationsInit => StopInv
    BY DEF ConversationsInit, MissionsInit, StopInv, Own
  <2> QED BY <2>1, TalkInitially
<1>2. TalkInv /\ [WholeNext]_WholeVars => TalkInv'
  BY TalkStep, WholeIsConversation
<1>3. TalkInv => ConversationsTypeOK /\ OneDisposition /\ CeoDecidesOnce
  BY DEF TalkInv
<1>4. MissionInv /\ StopInv /\ [WholeNext]_WholeVars => StopInv'
  BY DecidedStays, WholeIsConversation
<1>5. MissionInv /\ StopInv /\ [WholeNext]_WholeVars =>
        [/\ \A t \in Work : LastOwn(t, "stop") => LastOwn(t, "stop")'
         /\ \A e \in Escalations : escalated[e] = "answered" => escalated'[e] = "answered"]_conversationVars
  BY DecidedStays, WholeIsConversation
<1> QED BY <1>1, <1>2, <1>3, <1>4, <1>5, StopsHold, MissionAlways, PTL
        DEF WholeSpec, DecisionsHold, DecisionsStay
=============================================================================
