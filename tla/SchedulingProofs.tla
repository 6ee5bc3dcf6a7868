--------------------------- MODULE SchedulingProofs ---------------------------
(***************************************************************************)
(* For any schedules, commands, limits and crashes: no slot of a cron      *)
(* schedule is lost, blocking occurrences of one target exclude each       *)
(* other, an occurrence starts one run at most and a settled one stays     *)
(* settled.                                                                *)
(***************************************************************************)
EXTENDS Scheduling, TLAPS

\* The wake-up and the reconciliation in progress are records of these shapes.
DriverTypes ==
  /\ tick \in [on : BOOLEAN, at : 0..Horizon,
               due : SUBSET [s : Schedules, rev : Nat, next : Slots]]
  /\ restart \in [phase : {"claims", "tick", "done"}, claims : SUBSET Occurrences]

\* A schedule that was never created has no slots, a cron is never completed and one that
\* can fire knows its next slot.
RowsInv ==
  /\ \A s \in Schedules : schedule[s].state = "absent" =>
       \A t \in Slots : state[<<s, t>>] = "absent"
  /\ \A s \in Schedules \ OneShot :
       /\ schedule[s].state # "completed"
       /\ schedule[s].state \in {"active", "paused"} => schedule[s].next \in Slots
  /\ SlotsAccounted

\* What the attempts of o have done: an effect belongs to the attempt that is dispatching,
\* and its receipt says so.
AttemptOf(o) ==
  /\ state[o] \in {"absent", "pending"} => attempts[o] = 0 /\ effects[o] = {}
  /\ state[o] = "retry_waiting" => attempts[o] < MaxAttempts /\ effects[o] = {}
  /\ state[o] = "dispatching" =>
       /\ attempts[o] \in Attempts /\ effects[o] \subseteq {attempts[o]}
       /\ effects[o] # {} => receipt[o][attempts[o]] \in {"reserved", "accepted"}
  /\ executing[o] # "idle" => state[o] = "dispatching"
  /\ executing[o] \in {"claimed", "reserved"} => effects[o] = {}
  /\ executing[o] = "reserved" => receipt[o][attempts[o]] = "reserved"
  /\ \A a, b \in effects[o] : a = b

AttemptInv == \A o \in Occurrences : AttemptOf(o)

\* A stopped daemon executes nothing, and what reconcile() settles nobody executes.
DriverInv ==
  /\ ~up => lock = NoOne /\ restart.claims = {} /\ \A o \in Occurrences : executing[o] = "idle"
  /\ \A o \in restart.claims : state[o] = "dispatching" /\ executing[o] = "idle"

\* The overlap check stays true until the claim: only the holder of the lock claims.
OverlapInv ==
  /\ \A o \in Occurrences : runOf[o] # NoOne => run[runOf[o]] # "none"
  /\ \A o \in Occurrences : lock = o /\ o[1] \in Blocking => ~HasActiveOverlap(o)
  /\ OverlapExclusive

SchedulingInv == TypeOK /\ DriverTypes /\ RowsInv /\ AttemptInv /\ DriverInv /\ OverlapInv

-----------------------------------------------------------------------------
\* An occurrence is its schedule and its key.
LEMMA OccurrenceParts ==
  /\ \A o \in Occurrences : o = <<o[1], o[2]>> /\ o[1] \in Schedules
  /\ \A s \in Schedules, k \in Slots \cup Manuals :
       <<s, k>> \in Occurrences /\ <<s, k>>[1] = s /\ <<s, k>>[2] = k
  /\ NoOne \notin Occurrences
BY DEF Occurrences, NoOne

\* The greatest number of an interval is its end, the least its start.
LEMMA IntervalEnds ==
  ASSUME NEW lo \in Nat, NEW hi \in Nat, lo <= hi
  PROVE  Max(lo..hi) = hi /\ Min(lo..hi) = lo
<1>1. hi \in lo..hi /\ \A y \in lo..hi : hi >= y
  OBVIOUS
<1>2. lo \in lo..hi /\ \A y \in lo..hi : lo <= y
  OBVIOUS
<1>3. \A x \in lo..hi : (\A y \in lo..hi : x >= y) => x = hi
  OBVIOUS
<1>4. \A x \in lo..hi : (\A y \in lo..hi : x <= y) => x = lo
  OBVIOUS
<1> QED BY <1>1, <1>2, <1>3, <1>4 DEF Max, Min

\* The slots a cron schedule fires are an interval that starts at its next slot, and the
\* selected one is the last of those fire() makes an occurrence for.
LEMMA DueInterval ==
  ASSUME NEW s \in Schedules \ OneShot, NEW observed \in 0..Horizon, TypeOK,
         schedule[s].next \in Slots, schedule[s].next <= observed
  PROVE  /\ Selected(s, observed) \in schedule[s].next..observed
         /\ (IF Coalesce THEN DueSlots(s, observed) ELSE {Selected(s, observed)})
              = schedule[s].next..Selected(s, observed)
<1> DEFINE first == schedule[s].next
           hi == IF observed < first + CatchUp THEN observed ELSE first + CatchUp - 1
<1> USE SchedulingAssumption
<1>1. first \in Nat /\ observed \in Nat
  BY DEF Slots
<1>2. hi \in Nat /\ first <= hi /\ hi <= observed
  BY <1>1
<1>3. DueSlots(s, observed) = first..hi
  BY <1>1 DEF DueSlots
<1>4. Max(DueSlots(s, observed)) = hi /\ Min(DueSlots(s, observed)) = first
  BY <1>1, <1>2, <1>3, IntervalEnds
<1>5. CASE Coalesce
  BY <1>1, <1>2, <1>3, <1>4, <1>5 DEF Selected
<1>6. CASE ~Coalesce
  <2>1. Selected(s, observed) = first
    BY <1>4, <1>6 DEF Selected
  <2> QED BY <1>1, <1>2, <1>6, <2>1
<1> QED BY <1>5, <1>6

\* A one-shot schedule fires its only slot.
LEMMA OneShotSelected ==
  ASSUME NEW s \in OneShot, NEW observed, NEW first \in Nat, schedule[s].next = first
  PROVE  Selected(s, observed) = first
<1>1. DueSlots(s, observed) = {first}
  BY DEF DueSlots
<1>2. \A x \in {first} : x >= first /\ x <= first
  OBVIOUS
<1>3. Max({first}) = first /\ Min({first}) = first
  BY <1>2 DEF Max, Min
<1> QED BY <1>1, <1>3 DEF Selected

\* The initial state satisfies the invariant.
LEMMA SchedulingInitially == Init => SchedulingInv
<1> USE SchedulingAssumption
<1> SUFFICES ASSUME Init PROVE SchedulingInv
  OBVIOUS
<1>1. TypeOK /\ DriverTypes
  BY DEF Init, TypeOK, DriverTypes, Slots, Unset, ScheduleStates, OccurrenceStates, Attempts,
         NoTick, NoRestart
<1>2. RowsInv
  BY OccurrenceParts DEF Init, RowsInv, SlotsAccounted
<1>3. AttemptInv
  BY DEF Init, AttemptInv, AttemptOf
<1>4. DriverInv
  BY DEF Init, DriverInv, NoRestart
<1>5. OverlapInv
  <2>1. \A o \in Occurrences : ~Holds(o)
    BY DEF Init, Holds
  <2> QED BY <2>1, OccurrenceParts DEF Init, OverlapInv, OverlapExclusive, HasActiveOverlap
<1> QED BY <1>1, <1>2, <1>3, <1>4, <1>5 DEF SchedulingInv

-----------------------------------------------------------------------------
(* Types. *)

\* n more dispatch tasks stay within the cap.
LEMMA EnqueuedType ==
  ASSUME TypeOK, NEW o \in Occurrences, NEW n \in Nat
  PROVE  Enqueued(o, n) \in 0..TaskCap
BY SchedulingAssumption DEF Enqueued, TypeOK

\* Firing a due schedule keeps the types of its row and of the occurrences.
LEMMA FireTypes ==
  ASSUME TypeOK, NEW s \in Schedules, NEW observed \in 0..Horizon, Due(s, observed),
         FireSlots(s, observed)
  PROVE  /\ schedule' \in [Schedules -> [state : ScheduleStates, next : Slots \cup {Unset},
                                         rev : Nat]]
         /\ state' \in [Occurrences -> OccurrenceStates]
         /\ Selected(s, observed) \in Slots
         /\ \A o \in Occurrences : state[o] # "absent" => state'[o] = state[o]
         /\ \A o \in Occurrences :
              state'[o] # state[o] => state'[o] \in {"pending", "coalesced", "misfired"}
<1> USE SchedulingAssumption
<1> DEFINE selected == Selected(s, observed)
           made == IF Coalesce THEN DueSlots(s, observed) ELSE {selected}
           next == NextAfter(s, selected)
<1>1. schedule[s].next \in Slots /\ schedule[s].next <= observed
  BY DEF Due, TypeOK
<1>2. selected \in Slots /\ next \in Slots \cup {Unset}
  <2>1. CASE s \in OneShot
    BY <1>1, <2>1, OneShotSelected DEF NextAfter, Slots
  <2>2. CASE s \notin OneShot
    <3>1. selected \in schedule[s].next..observed
      BY <1>1, <2>2, DueInterval
    <3> QED BY <1>1, <2>2, <3>1 DEF NextAfter, Slots
  <2> QED BY <2>1, <2>2
<1>3. schedule' \in [Schedules -> [state : ScheduleStates, next : Slots \cup {Unset}, rev : Nat]]
  <2>1. schedule' = [schedule EXCEPT ![s] = [state |-> IF next = Unset THEN "completed" ELSE "active",
                                             next |-> next, rev |-> schedule[s].rev + 1]]
    BY DEF FireSlots, Update
  <2>2. schedule[s].rev + 1 \in Nat
    BY DEF TypeOK
  <2>3. (IF next = Unset THEN "completed" ELSE "active") \in ScheduleStates
    BY DEF ScheduleStates
  <2> HIDE DEF next
  <2> QED BY <1>2, <2>1, <2>2, <2>3 DEF TypeOK
<1>4. \A t, q : FireState(t, q, observed) \in {"pending", "coalesced", "misfired"}
  BY DEF FireState
<1>5. state' = [o \in Occurrences |->
                  IF o[1] = s /\ o[2] \in made /\ state[o] = "absent"
                  THEN FireState(o[2], selected, observed) ELSE state[o]]
  BY DEF FireSlots
<1>6. /\ \A o \in Occurrences : state[o] # "absent" => state'[o] = state[o]
      /\ \A o \in Occurrences : state'[o] # state[o] => state'[o] \in {"pending", "coalesced", "misfired"}
  <2> HIDE DEF made, selected
  <2> QED BY <1>4, <1>5
<1>7. state' \in [Occurrences -> OccurrenceStates]
  <2> HIDE DEF made, selected
  <2> QED BY <1>4, <1>5 DEF TypeOK, OccurrenceStates, Settled
<1> QED BY <1>2, <1>3, <1>6, <1>7

\* Schedule mutations keep the types.
LEMMA OperatorTypes ==
  ASSUME TypeOK, DriverTypes, Operator
  PROVE  TypeOK' /\ DriverTypes'
<1> USE SchedulingAssumption
<1>1. ASSUME NEW s \in Schedules, Create(s)
      PROVE  TypeOK' /\ DriverTypes'
  <2>1. PICK next \in Slots : Update(s, "active", next)
    <3>1. (IF s \in OneShot THEN (now + 1)..Horizon ELSE {now + 1}) \subseteq Slots
      BY <1>1 DEF Create, Slots, TypeOK
    <3> QED BY <1>1, <3>1 DEF Create
  <2>2. schedule' \in [Schedules -> [state : ScheduleStates, next : Slots \cup {Unset}, rev : Nat]]
    BY <2>1 DEF Update, TypeOK, ScheduleStates
  <2>3. UNCHANGED <<now, trigger, state, attempts, retryAt, runOf, receipt, effects, run, up,
                    crashes, tick, tasks, lock, executing, restart>>
    BY <1>1 DEF Create, driverVars
  <2> QED BY <2>2, <2>3 DEF TypeOK, DriverTypes
<1>2. ASSUME NEW s \in Schedules, NEW to \in {"active", "paused", "removed"}, Transition(s, to)
      PROVE  TypeOK' /\ DriverTypes'
  <2>1. schedule' \in [Schedules -> [state : ScheduleStates, next : Slots \cup {Unset}, rev : Nat]]
    BY <1>2 DEF Transition, Update, TypeOK, ScheduleStates
  <2>2. UNCHANGED <<now, trigger, state, attempts, retryAt, runOf, receipt, effects, run, up,
                    crashes, tick, tasks, lock, executing, restart>>
    BY <1>2 DEF Transition, driverVars
  <2> QED BY <2>1, <2>2 DEF TypeOK, DriverTypes
<1>3. ASSUME NEW s \in Schedules, NEW k \in Manuals, RunNow(s, k)
      PROVE  TypeOK' /\ DriverTypes'
  <2>1. schedule' \in [Schedules -> [state : ScheduleStates, next : Slots \cup {Unset}, rev : Nat]]
    BY <1>3 DEF RunNow, Update, TypeOK
  <2>2. tasks' \in [Occurrences -> 0..TaskCap]
    BY <1>3, OccurrenceParts, EnqueuedType DEF RunNow, TypeOK
  <2>3. state' \in [Occurrences -> OccurrenceStates]
    BY <1>3 DEF RunNow, TypeOK, OccurrenceStates
  <2>4. UNCHANGED <<now, trigger, attempts, retryAt, runOf, receipt, effects, run, up,
                    crashes, tick, lock, executing, restart>>
    BY <1>3 DEF RunNow
  <2> QED BY <2>1, <2>2, <2>3, <2>4 DEF TypeOK, DriverTypes
<1>4. ASSUME NEW s \in Schedules, ExternalTrigger(s)
      PROVE  TypeOK' /\ DriverTypes'
  <2>1. Due(s, now) /\ FireSlots(s, now) /\ now \in 0..Horizon
    BY <1>4 DEF ExternalTrigger, TypeOK
  <2>2. /\ schedule' \in [Schedules -> [state : ScheduleStates, next : Slots \cup {Unset}, rev : Nat]]
        /\ state' \in [Occurrences -> OccurrenceStates]
    BY <2>1, FireTypes
  <2>3. tasks' \in [Occurrences -> 0..TaskCap]
    <3>1. <<s, Selected(s, now)>> \in Occurrences
      BY <2>1, FireTypes, OccurrenceParts
    <3> QED BY <1>4, <3>1, EnqueuedType DEF ExternalTrigger, TypeOK
  <2>4. UNCHANGED <<now, trigger, attempts, retryAt, runOf, receipt, effects, run, up,
                    crashes, tick, lock, executing, restart>>
    BY <1>4 DEF ExternalTrigger
  <2> QED BY <2>2, <2>3, <2>4 DEF TypeOK, DriverTypes
<1> QED BY <1>1, <1>2, <1>3, <1>4 DEF Operator

\* What a wake-up reads is of the types.
LEMMA TickReadTypes ==
  ASSUME TypeOK, DriverTypes, TickRead
  PROVE  tick' \in [on : BOOLEAN, at : 0..Horizon, due : SUBSET [s : Schedules, rev : Nat, next : Slots]]
<1> DEFINE rows == {[s |-> s, rev |-> schedule[s].rev, next |-> schedule[s].next] :
                      s \in {p \in Schedules : Due(p, now)}}
<1>1. rows \subseteq [s : Schedules, rev : Nat, next : Slots]
  BY DEF Due, TypeOK
<1>2. PICK due \in Some(rows) : tick' = [on |-> TRUE, at |-> now, due |-> due]
  BY DEF TickRead
<1>3. due \subseteq rows
  BY <1>2 DEF Some
<1> QED BY <1>1, <1>2, <1>3 DEF TypeOK

\* The wake-up keeps the types.
LEMMA TickTypes ==
  ASSUME TypeOK, DriverTypes, Tick
  PROVE  TypeOK' /\ DriverTypes'
<1> USE SchedulingAssumption
<1> DEFINE TickT == [on : BOOLEAN, at : 0..Horizon,
                     due : SUBSET [s : Schedules, rev : Nat, next : Slots]]
<1>0. \A x \in TickT : x.on \in BOOLEAN /\ x.at \in 0..Horizon
                       /\ x.due \subseteq [s : Schedules, rev : Nat, next : Slots]
  OBVIOUS
<1>1. CASE TickBegin
  <2>1. tick' \in TickT
    BY <1>1, TickReadTypes DEF TickBegin
  <2>2. UNCHANGED <<now, durableVars, up, crashes, tasks, lock, executing, restart>>
    BY <1>1 DEF TickBegin
  <2> QED BY <1>0, <2>1, <2>2 DEF TypeOK, DriverTypes, durableVars
<1>2. ASSUME NEW d \in tick.due, TriggerAccept(d)
      PROVE  TypeOK' /\ DriverTypes'
  <2>1. d.s \in Schedules /\ d.next \in Slots /\ tick.at \in 0..Horizon
    BY DEF DriverTypes
  <2>2. Due(d.s, tick.at) /\ FireSlots(d.s, tick.at)
    BY <1>2 DEF TriggerAccept
  <2>3. /\ schedule' \in [Schedules -> [state : ScheduleStates, next : Slots \cup {Unset}, rev : Nat]]
        /\ state' \in [Occurrences -> OccurrenceStates]
        /\ Selected(d.s, tick.at) \in Slots
    BY <2>1, <2>2, FireTypes
  <2>4. tasks' \in [Occurrences -> 0..TaskCap]
    <3>1. <<d.s, Selected(d.s, tick.at)>> \in Occurrences
      BY <2>1, <2>3, OccurrenceParts
    <3> QED BY <1>2, <3>1, EnqueuedType DEF TriggerAccept, TypeOK
  <2>5. tick' \in TickT
    BY <1>2 DEF TriggerAccept, DriverTypes
  <2>6. trigger' \in [Schedules -> [Slots -> {"none", "accepted", "refused"}]]
    BY <1>2, <2>1 DEF TriggerAccept, TypeOK
  <2>7. UNCHANGED <<now, attempts, retryAt, runOf, receipt, effects, run, up, crashes, lock,
                    executing, restart>>
    BY <1>2 DEF TriggerAccept
  <2> QED BY <1>0, <2>3, <2>4, <2>5, <2>6, <2>7 DEF TypeOK, DriverTypes
<1>3. ASSUME NEW d \in tick.due, TriggerRefuse(d)
      PROVE  TypeOK' /\ DriverTypes'
  <2>1. d.s \in Schedules /\ d.next \in Slots
    BY DEF DriverTypes
  <2>2. tick' \in TickT
    BY <1>3 DEF TriggerRefuse, DriverTypes
  <2>3. trigger' \in [Schedules -> [Slots -> {"none", "accepted", "refused"}]]
    BY <1>3, <2>1 DEF TriggerRefuse, TypeOK
  <2>4. UNCHANGED <<now, schedule, state, attempts, retryAt, runOf, receipt, effects, run, up,
                    crashes, tasks, lock, executing, restart>>
    BY <1>3 DEF TriggerRefuse
  <2> QED BY <1>0, <2>2, <2>3, <2>4 DEF TypeOK, DriverTypes
<1>4. ASSUME NEW d \in tick.due, TriggerRaise(d)
      PROVE  TypeOK' /\ DriverTypes'
  <2>1. tick' \in TickT
    BY <1>4 DEF TriggerRaise, NoTick
  <2>2. UNCHANGED <<now, durableVars, up, crashes, tasks, lock, executing, restart>>
    BY <1>4 DEF TriggerRaise
  <2> QED BY <1>0, <2>1, <2>2 DEF TypeOK, DriverTypes, durableVars
<1>5. CASE TickRetries
  <2>1. tick' \in TickT
    BY <1>5 DEF TickRetries, NoTick
  <2>2. tasks' \in [Occurrences -> 0..TaskCap]
    BY <1>5, EnqueuedType DEF TickRetries, TypeOK
  <2>3. UNCHANGED <<now, durableVars, up, crashes, lock, executing, restart>>
    BY <1>5 DEF TickRetries
  <2> QED BY <1>0, <2>1, <2>2, <2>3 DEF TypeOK, DriverTypes, durableVars
<1> QED BY <1>1, <1>2, <1>3, <1>4, <1>5 DEF Tick

\* Dispatching keeps the types: an occurrence that may be dispatched has attempts left.
LEMMA DispatchTypes ==
  ASSUME TypeOK, DriverTypes, AttemptInv, NEW o \in Occurrences, Dispatch(o)
  PROVE  TypeOK' /\ DriverTypes'
<1> USE SchedulingAssumption
<1>1. CASE DispatchCheck(o)
  <2>1. state' \in [Occurrences -> OccurrenceStates]
    BY <1>1 DEF DispatchCheck, TypeOK, OccurrenceStates, Settled
  <2>2. retryAt' \in [Occurrences -> Nat]
    BY <1>1 DEF DispatchCheck, TypeOK, Unset
  <2>3. lock' \in Occurrences \cup {NoOne} /\ tasks' \in [Occurrences -> 0..TaskCap]
    BY <1>1 DEF DispatchCheck, TypeOK
  <2>4. UNCHANGED <<now, schedule, trigger, attempts, runOf, receipt, effects, run, up, crashes,
                    tick, executing, restart>>
    BY <1>1 DEF DispatchCheck
  <2> QED BY <2>1, <2>2, <2>3, <2>4 DEF TypeOK, DriverTypes
<1>2. CASE DispatchClaim(o)
  <2>1. attempts[o] < MaxAttempts /\ attempts[o] \in Nat
    BY <1>2 DEF DispatchClaim, Dispatchable, AttemptInv, AttemptOf, TypeOK
  <2>2. attempts' \in [Occurrences -> 0..MaxAttempts]
    BY <1>2, <2>1 DEF DispatchClaim, TypeOK
  <2>3. /\ state' \in [Occurrences -> OccurrenceStates] /\ retryAt' \in [Occurrences -> Nat]
        /\ executing' \in [Occurrences -> {"idle", "claimed", "reserved", "started", "answered"}]
        /\ lock' \in Occurrences \cup {NoOne}
    BY <1>2 DEF DispatchClaim, TypeOK, OccurrenceStates, Unset
  <2>4. UNCHANGED <<now, schedule, trigger, runOf, receipt, effects, run, up, crashes, tick,
                    tasks, restart>>
    BY <1>2 DEF DispatchClaim
  <2> QED BY <2>2, <2>3, <2>4 DEF TypeOK, DriverTypes
<1> QED BY <1>1, <1>2 DEF Dispatch

\* The state a receipt proves is a state an occurrence can have.
LEMMA SettledStateType ==
  ASSUME NEW o \in Occurrences
  PROVE  /\ SettledState(o) \in {"retry_waiting"} \cup Settled
         /\ SettledState(o) # "dispatching" /\ SettledState(o) # "absent"
BY DEF SettledState, Settled

\* Settling keeps the types.
LEMMA SettleTypes ==
  ASSUME TypeOK, NEW o \in Occurrences, Settle(o)
  PROVE  state' \in [Occurrences -> OccurrenceStates] /\ retryAt' \in [Occurrences -> Nat]
<1>1. state' \in [Occurrences -> OccurrenceStates]
  BY SettledStateType DEF Settle, TypeOK, OccurrenceStates
<1>2. (IF SettledState(o) = "retry_waiting" THEN now + Backoff ELSE Unset) \in Nat
  BY SchedulingAssumption DEF TypeOK, Unset
<1>3. retryAt' \in [Occurrences -> Nat]
  BY <1>2 DEF Settle, TypeOK
<1> QED BY <1>1, <1>3

\* The run command keeps the types.
LEMMA CommandTypes ==
  ASSUME TypeOK, DriverTypes, AttemptInv, NEW o \in Occurrences, Command(o) \/ RunEnd(o)
  PROVE  TypeOK' /\ DriverTypes'
<1> USE SchedulingAssumption
<1> DEFINE ReceiptT == [Occurrences ->
                          [Attempts -> {"none", "reserved", "accepted", "retryable", "refused"}]]
           Progressed == executing' \in
                           [Occurrences -> {"idle", "claimed", "reserved", "started", "answered"}]
<1>0. executing[o] # "idle" => attempts[o] \in Attempts
  BY DEF AttemptInv, AttemptOf
<1>1. CASE RunReserve(o) \/ RunAccept(o) \/ \E how \in {"retryable", "refused"} : RunRefuse(o, how)
  <2>1. PICK how \in {"reserved", "accepted", "retryable", "refused"} :
          receipt' = [receipt EXCEPT ![o][attempts[o]] = how]
    BY <1>1 DEF RunReserve, RunAccept, RunRefuse
  <2>2. PICK step \in {"reserved", "answered"} : executing' = [executing EXCEPT ![o] = step]
    BY <1>1 DEF RunReserve, RunAccept, RunRefuse
  <2>3. executing[o] # "idle"
    BY <1>1 DEF RunReserve, RunAccept, RunRefuse
  <2>4. receipt' \in ReceiptT
    BY <1>0, <2>1, <2>3 DEF TypeOK
  <2>5. Progressed
    BY <2>2 DEF TypeOK
  <2>6. UNCHANGED <<now, schedule, trigger, state, attempts, retryAt, runOf, effects, run, up,
                    crashes, tick, tasks, lock, restart>>
    BY <1>1 DEF RunReserve, RunAccept, RunRefuse
  <2> QED BY <2>4, <2>5, <2>6 DEF TypeOK, DriverTypes
<1>2. CASE RunStart(o)
  <2>1. PICK r \in Occurrences :
          /\ runOf' = [runOf EXCEPT ![o] = r]
          /\ run' = [run EXCEPT ![r] = IF @ = "none" THEN "active" ELSE @]
    BY <1>2 DEF RunStart
  <2>2. /\ runOf' \in [Occurrences -> Occurrences \cup {NoOne}]
        /\ run' \in [Occurrences -> {"none", "active", "terminal"}]
    BY <2>1 DEF TypeOK
  <2>3. effects' \in [Occurrences -> SUBSET Attempts] /\ Progressed
    BY <1>0, <1>2 DEF RunStart, TypeOK
  <2>4. UNCHANGED <<now, schedule, trigger, state, attempts, retryAt, receipt, up, crashes, tick,
                    tasks, lock, restart>>
    BY <1>2 DEF RunStart
  <2> QED BY <2>2, <2>3, <2>4 DEF TypeOK, DriverTypes
<1>3. CASE DispatchSettle(o)
  <2>1. Settle(o) /\ Progressed
    BY <1>3 DEF DispatchSettle, TypeOK
  <2>2. UNCHANGED <<now, schedule, trigger, attempts, runOf, receipt, effects, run, up, crashes,
                    tick, tasks, lock, restart>>
    BY <1>3 DEF DispatchSettle
  <2> QED BY <2>1, <2>2, SettleTypes DEF TypeOK, DriverTypes
<1>4. CASE RunEnd(o)
  BY <1>4 DEF RunEnd, TypeOK, DriverTypes, driverVars
<1> QED BY <1>1, <1>2, <1>3, <1>4 DEF Command

\* Stopping, starting and reconciling keep the types.
LEMMA DaemonTypes ==
  ASSUME TypeOK, DriverTypes, Crash \/ Start \/ Reconcile \/ ClockTick
  PROVE  TypeOK' /\ DriverTypes'
<1> USE SchedulingAssumption
<1> DEFINE RestartT == [phase : {"claims", "tick", "done"}, claims : SUBSET Occurrences]
<1>0. \A x \in RestartT : x.phase \in {"claims", "tick", "done"} /\ x.claims \subseteq Occurrences
  OBVIOUS
<1>1. CASE Crash
  <2>0. up' \in BOOLEAN /\ crashes' \in 0..MaxCrashes
    <3>1. up' = FALSE /\ crashes < MaxCrashes /\ crashes' = crashes + 1
      BY <1>1 DEF Crash
    <3>2. crashes \in 0..MaxCrashes /\ MaxCrashes \in Nat
      BY DEF TypeOK
    <3>3. crashes' \in 0..MaxCrashes
      BY <3>1, <3>2
    <3>4. up' \in BOOLEAN
      BY <3>1
    <3> QED BY <3>3, <3>4
  <2>1. /\ tick' \in [on : BOOLEAN, at : 0..Horizon,
                      due : SUBSET [s : Schedules, rev : Nat, next : Slots]]
        /\ tick'.on \in BOOLEAN /\ tick'.at \in 0..Horizon
        /\ tick'.due \subseteq [s : Schedules, rev : Nat, next : Slots]
    <3>1. tick' = NoTick
      BY <1>1 DEF Crash
    <3>2. NoTick.on = FALSE /\ NoTick.at = 0 /\ NoTick.due = {}
      BY DEF NoTick
    <3>3. NoTick \in [on : BOOLEAN, at : 0..Horizon,
                      due : SUBSET [s : Schedules, rev : Nat, next : Slots]]
      BY DEF NoTick
    <3> QED BY <3>1, <3>2, <3>3
  <2>2. /\ tasks' \in [Occurrences -> 0..TaskCap] /\ lock' \in Occurrences \cup {NoOne}
        /\ executing' \in [Occurrences -> {"idle", "claimed", "reserved", "started", "answered"}]
        /\ restart' \in RestartT
    BY <1>1 DEF Crash, NoRestart
  <2>3. UNCHANGED <<now, durableVars>>
    BY <1>1 DEF Crash
  <2> QED BY <1>0, <2>0, <2>1, <2>2, <2>3 DEF TypeOK, DriverTypes, durableVars
<1>2. CASE Start
  <2>1. restart' \in RestartT /\ up' \in BOOLEAN
    BY <1>2 DEF Start, Some
  <2>2. UNCHANGED <<now, durableVars, crashes, tick, tasks, lock, executing>>
    BY <1>2 DEF Start
  <2> QED BY <1>0, <2>1, <2>2 DEF TypeOK, DriverTypes, durableVars
<1>3. ASSUME NEW o \in Occurrences, ReconcileClaim(o)
      PROVE  TypeOK' /\ DriverTypes'
  <2>1. restart' \in RestartT /\ Settle(o)
    BY <1>3 DEF ReconcileClaim, DriverTypes
  <2>2. UNCHANGED <<now, schedule, trigger, attempts, runOf, receipt, effects, run, up, crashes,
                    tick, tasks, lock, executing>>
    BY <1>3 DEF ReconcileClaim
  <2> QED BY <1>0, <2>1, <2>2, SettleTypes DEF TypeOK, DriverTypes
<1>4. CASE ReconcilePending
  <2>1. restart' \in RestartT
    BY <1>4 DEF ReconcilePending, DriverTypes
  <2>2. tasks' \in [Occurrences -> 0..TaskCap]
    <3>1. \A p \in Occurrences : tasks[p] \in 0..TaskCap /\ Enqueued(p, 1) \in 0..TaskCap
      BY EnqueuedType DEF TypeOK
    <3> QED BY <1>4, <3>1 DEF ReconcilePending
  <2>3. UNCHANGED <<now, durableVars, up, crashes, tick, lock, executing>>
    BY <1>4 DEF ReconcilePending
  <2> QED BY <1>0, <2>1, <2>2, <2>3 DEF TypeOK, DriverTypes, durableVars
<1>5. CASE ReconcileTick
  <2>1. tick' \in [on : BOOLEAN, at : 0..Horizon,
                   due : SUBSET [s : Schedules, rev : Nat, next : Slots]]
    BY <1>5, TickReadTypes DEF ReconcileTick, DriverTypes
  <2>2. restart' \in RestartT
    BY <1>5 DEF ReconcileTick, NoRestart
  <2>3. UNCHANGED <<now, durableVars, up, crashes, tasks, lock, executing>>
    BY <1>5 DEF ReconcileTick
  <2>4. tick'.on \in BOOLEAN /\ tick'.at \in 0..Horizon
        /\ tick'.due \subseteq [s : Schedules, rev : Nat, next : Slots]
    BY <2>1
  <2> QED BY <1>0, <2>1, <2>2, <2>3, <2>4 DEF TypeOK, DriverTypes, durableVars
<1>6. CASE ClockTick
  BY <1>6 DEF ClockTick, TypeOK, DriverTypes, durableVars, driverVars
<1> QED BY <1>1, <1>2, <1>3, <1>4, <1>5, <1>6 DEF Reconcile

\* Every step keeps the types.
LEMMA TypesStep ==
  ASSUME TypeOK, DriverTypes, AttemptInv, [Next]_vars
  PROVE  TypeOK' /\ DriverTypes'
<1>1. CASE UNCHANGED vars
  BY <1>1 DEF vars, durableVars, driverVars, TypeOK, DriverTypes
<1>2. CASE \E o \in Occurrences : Dispatch(o) \/ Command(o) \/ RunEnd(o)
  BY <1>2, DispatchTypes, CommandTypes
<1> QED BY <1>1, <1>2, OperatorTypes, TickTypes, DaemonTypes DEF Next

-----------------------------------------------------------------------------
(* The slots of cron schedules. *)

\* What happens to an occurrence once it is made concerns no slot.
LEMMA RowsStay ==
  ASSUME RowsInv, UNCHANGED schedule,
         \A o \in Occurrences : state'[o] = "absent" <=> state[o] = "absent"
  PROVE  RowsInv'
<1>1. \A s \in Schedules, t \in Slots : state'[<<s, t>>] = "absent" <=> state[<<s, t>>] = "absent"
  BY OccurrenceParts
<1>2. SlotsAccounted'
  BY <1>1 DEF RowsInv, SlotsAccounted, Slots
<1>3. \A s \in Schedules : schedule'[s].state = "absent" =>
        \A t \in Slots : state'[<<s, t>>] = "absent"
  BY <1>1 DEF RowsInv
<1> QED BY <1>2, <1>3 DEF RowsInv, Slots

\* Firing a due cron schedule extends its slots without a gap, and moves next_fire_at
\* just behind them; other schedules keep theirs.
LEMMA FireRows ==
  ASSUME TypeOK, RowsInv, NEW s \in Schedules, NEW observed \in 0..Horizon, Due(s, observed),
         FireSlots(s, observed)
  PROVE  RowsInv'
<1> USE SchedulingAssumption
<1> DEFINE first == schedule[s].next
           selected == Selected(s, observed)
           made == IF Coalesce THEN DueSlots(s, observed) ELSE {selected}
           next == NextAfter(s, selected)
<1>1. first \in Slots /\ first <= observed /\ schedule[s].state = "active"
  BY DEF Due, TypeOK
<1>2. /\ schedule'[s].state = IF next = Unset THEN "completed" ELSE "active"
      /\ schedule'[s].next = next
      /\ \A p \in Schedules : p # s => schedule'[p] = schedule[p]
  BY DEF FireSlots, Update, TypeOK
<1>3. state' = [o \in Occurrences |->
                  IF o[1] = s /\ o[2] \in made /\ state[o] = "absent"
                  THEN FireState(o[2], selected, observed) ELSE state[o]]
  BY DEF FireSlots
<1>4. \A t, q : FireState(t, q, observed) # "absent"
  BY DEF FireState
<1>5. \A p \in Schedules, t \in Slots :
        state'[<<p, t>>] # "absent" <=> state[<<p, t>>] # "absent" \/ (p = s /\ t \in made)
  <2> SUFFICES ASSUME NEW p \in Schedules, NEW t \in Slots
               PROVE  state'[<<p, t>>] # "absent"
                        <=> state[<<p, t>>] # "absent" \/ (p = s /\ t \in made)
    OBVIOUS
  <2>1. <<p, t>> \in Occurrences /\ <<p, t>>[1] = p /\ <<p, t>>[2] = t
    BY OccurrenceParts
  <2> HIDE DEF made, selected
  <2> QED BY <2>1, <1>3, <1>4
<1>6. \A p \in Schedules : schedule'[p].state = "absent" =>
        \A t \in Slots : state'[<<p, t>>] = "absent"
  BY <1>2, <1>5 DEF RowsInv
<1>7. ASSUME NEW p \in Schedules \ OneShot, p # s
      PROVE  /\ schedule'[p].state # "completed"
             /\ schedule'[p].state \in {"active", "paused"} =>
                  /\ schedule'[p].next \in Slots
                  /\ \A t \in Slots : state'[<<p, t>>] # "absent" => t < schedule'[p].next
                  /\ \A t, u \in Slots :
                       state'[<<p, t>>] # "absent" /\ t < u /\ u < schedule'[p].next
                         => state'[<<p, u>>] # "absent"
  BY <1>2, <1>5, <1>7 DEF RowsInv, SlotsAccounted
<1>8. ASSUME s \notin OneShot
      PROVE  /\ schedule'[s].state # "completed"
             /\ schedule'[s].next \in Slots
             /\ \A t \in Slots : state'[<<s, t>>] # "absent" => t < schedule'[s].next
             /\ \A t, u \in Slots :
                  state'[<<s, t>>] # "absent" /\ t < u /\ u < schedule'[s].next
                    => state'[<<s, u>>] # "absent"
  <2>1. selected \in first..observed /\ made = first..selected
    BY <1>1, <1>8, DueInterval
  <2>2. next = selected + 1
    BY <1>8 DEF NextAfter
  <2> HIDE DEF made, selected, next
  <2>3. first \in Nat /\ observed \in Nat /\ selected \in Nat /\ next \in Slots /\ next # Unset
    BY <1>1, <2>1, <2>2 DEF Slots, Unset
  <2>4. /\ \A t \in Slots : state[<<s, t>>] # "absent" => t < first
        /\ \A t, u \in Slots :
             state[<<s, t>>] # "absent" /\ t < u /\ u < first => state[<<s, u>>] # "absent"
    BY <1>1, <1>8 DEF RowsInv, SlotsAccounted
  <2>5. \A t \in Slots : state'[<<s, t>>] # "absent" <=>
                           state[<<s, t>>] # "absent" \/ t \in first..selected
    BY <1>5, <2>1
  <2>6. \A t \in Slots : state'[<<s, t>>] # "absent" => t < next
    BY <2>2, <2>3, <2>4, <2>5, <2>1 DEF Slots
  <2>7. ASSUME NEW t \in Slots, NEW u \in Slots, state'[<<s, t>>] # "absent", t < u, u < next
        PROVE  state'[<<s, u>>] # "absent"
    <3>1. CASE u < first
      <4>1. t \notin first..selected
        BY <2>7, <3>1, <2>3 DEF Slots
      <4> QED BY <2>4, <2>5, <2>7, <3>1, <4>1
    <3>2. CASE ~(u < first)
      <4>1. u \in first..selected
        BY <2>7, <3>2, <2>2, <2>3 DEF Slots
      <4> QED BY <2>5, <4>1
    <3> QED BY <3>1, <3>2
  <2> QED BY <1>2, <2>3, <2>6, <2>7
<1>9. SlotsAccounted'
  <2> SUFFICES ASSUME NEW p \in Schedules \ OneShot,
                      schedule'[p].state \in {"active", "paused"}
               PROVE  /\ \A t \in Slots : state'[<<p, t>>] # "absent" => t < schedule'[p].next
                      /\ \A t, u \in Slots :
                           state'[<<p, t>>] # "absent" /\ t < u /\ u < schedule'[p].next
                             => state'[<<p, u>>] # "absent"
    BY DEF SlotsAccounted, Slots
  <2>1. CASE p = s
    BY <2>1, <1>8
  <2>2. CASE p # s
    BY <2>2, <1>7
  <2> QED BY <2>1, <2>2
<1>10. \A p \in Schedules \ OneShot :
         /\ schedule'[p].state # "completed"
         /\ schedule'[p].state \in {"active", "paused"} => schedule'[p].next \in Slots
  BY <1>7, <1>8
<1> QED BY <1>6, <1>9, <1>10 DEF RowsInv, Slots

\* Schedule mutations that make no slot keep the slots.
LEMMA OperatorRows ==
  ASSUME TypeOK, RowsInv, Operator
  PROVE  RowsInv'
<1> USE SchedulingAssumption
<1>1. ASSUME NEW s \in Schedules, NEW st, NEW next, Update(s, st, next),
             \A p \in Schedules, t \in Slots : state'[<<p, t>>] = state[<<p, t>>],
             st # "absent",
             s \notin OneShot => /\ st # "completed"
                                 /\ st \in {"active", "paused"} => next \in Slots,
             st \in {"active", "paused"} /\ s \notin OneShot =>
               \/ \A t \in Slots : state[<<s, t>>] = "absent"
               \/ schedule[s].state \in {"active", "paused"} /\ next = schedule[s].next
      PROVE  RowsInv'
  <2>1. /\ schedule'[s].state = st /\ schedule'[s].next = next
        /\ \A p \in Schedules : p # s => schedule'[p] = schedule[p]
    BY <1>1 DEF Update, TypeOK
  <2>2. \A p \in Schedules : schedule'[p].state = "absent" =>
          \A t \in Slots : state'[<<p, t>>] = "absent"
    BY <2>1, <1>1 DEF RowsInv
  <2>3. \A p \in Schedules \ OneShot :
          /\ schedule'[p].state # "completed"
          /\ schedule'[p].state \in {"active", "paused"} => schedule'[p].next \in Slots
    BY <2>1, <1>1 DEF RowsInv
  <2>4. SlotsAccounted'
    <3> SUFFICES ASSUME NEW p \in Schedules \ OneShot,
                        schedule'[p].state \in {"active", "paused"}
                 PROVE  /\ \A t \in Slots : state'[<<p, t>>] # "absent" => t < schedule'[p].next
                        /\ \A t, u \in Slots :
                             state'[<<p, t>>] # "absent" /\ t < u /\ u < schedule'[p].next
                               => state'[<<p, u>>] # "absent"
      BY DEF SlotsAccounted, Slots
    <3>1. CASE p # s
      BY <3>1, <2>1, <1>1 DEF RowsInv, SlotsAccounted
    <3>2. CASE p = s
      BY <3>2, <2>1, <1>1 DEF RowsInv, SlotsAccounted
    <3> QED BY <3>1, <3>2
  <2> QED BY <2>2, <2>3, <2>4 DEF RowsInv, Slots
<1>2. ASSUME NEW s \in Schedules, Create(s)
      PROVE  RowsInv'
  <2>1. PICK next \in Slots : Update(s, "active", next)
    <3>1. (IF s \in OneShot THEN (now + 1)..Horizon ELSE {now + 1}) \subseteq Slots
      BY <1>2 DEF Create, Slots, TypeOK
    <3> QED BY <1>2, <3>1 DEF Create
  <2>2. \A t \in Slots : state[<<s, t>>] = "absent"
    BY <1>2 DEF Create, RowsInv
  <2>3. UNCHANGED state
    BY <1>2 DEF Create
  <2> QED BY <1>1, <2>1, <2>2, <2>3
<1>3. ASSUME NEW s \in Schedules, NEW to \in {"active", "paused", "removed"}, Transition(s, to)
      PROVE  RowsInv'
  <2>1. /\ Update(s, to, IF to = "removed" THEN Unset ELSE schedule[s].next)
        /\ UNCHANGED state /\ schedule[s].state \notin {"absent", "removed"}
    BY <1>3 DEF Transition
  <2>2. s \notin OneShot => schedule[s].state \in {"active", "paused"} /\ schedule[s].next \in Slots
    BY <2>1 DEF TypeOK, ScheduleStates, RowsInv
  <2> QED BY <1>1, <2>1, <2>2
<1>4. ASSUME NEW s \in Schedules, NEW k \in Manuals, RunNow(s, k)
      PROVE  RowsInv'
  <2>1. /\ Update(s, schedule[s].state, schedule[s].next)
        /\ schedule[s].state \notin {"absent", "removed"}
        /\ state' = [state EXCEPT ![<<s, k>>] = "pending"]
    BY <1>4 DEF RunNow
  <2>2. \A p \in Schedules, t \in Slots : state'[<<p, t>>] = state[<<p, t>>]
    <3> SUFFICES ASSUME NEW p \in Schedules, NEW t \in Slots
                 PROVE  state'[<<p, t>>] = state[<<p, t>>]
      OBVIOUS
    <3>1. k # t
      BY DEF Slots
    <3>2. <<p, t>> # <<s, k>> /\ <<p, t>> \in Occurrences
      BY <3>1, OccurrenceParts
    <3> QED BY <2>1, <3>2 DEF TypeOK
  <2>3. s \notin OneShot => schedule[s].state \in {"active", "paused"} /\ schedule[s].next \in Slots
    BY <2>1 DEF TypeOK, ScheduleStates, RowsInv
  <2> QED BY <1>1, <2>1, <2>2, <2>3
<1>5. ASSUME NEW s \in Schedules, ExternalTrigger(s)
      PROVE  RowsInv'
  <2>1. Due(s, now) /\ FireSlots(s, now) /\ now \in 0..Horizon
    BY <1>5 DEF ExternalTrigger, TypeOK
  <2> QED BY <2>1, FireRows
<1> QED BY <1>2, <1>3, <1>4, <1>5 DEF Operator

\* Every step keeps the slots of cron schedules.
LEMMA RowsStep ==
  ASSUME TypeOK, DriverTypes, RowsInv, [Next]_vars
  PROVE  RowsInv'
<1>s. ASSUME UNCHANGED <<schedule, state>> PROVE RowsInv'
  BY <1>s, RowsStay
<1>c. ASSUME NEW o \in Occurrences, UNCHANGED schedule, state[o] # "absent",
             NEW to, to # "absent", state' = [state EXCEPT ![o] = to]
      PROVE  RowsInv'
  BY <1>c, RowsStay DEF TypeOK
<1>f. ASSUME NEW o \in Occurrences, Settle(o), UNCHANGED schedule
      PROVE  RowsInv'
  BY <1>f, <1>c, SettledStateType DEF Settle
<1>1. CASE UNCHANGED vars
  BY <1>1, <1>s DEF vars, durableVars
<1>2. CASE Tick
  <2>1. ASSUME NEW d \in tick.due, TriggerAccept(d) PROVE RowsInv'
    <3>1. d.s \in Schedules /\ tick.at \in 0..Horizon
      BY DEF DriverTypes
    <3>2. Due(d.s, tick.at) /\ FireSlots(d.s, tick.at)
      BY <2>1 DEF TriggerAccept
    <3> QED BY <3>1, <3>2, FireRows
  <2>2. CASE TickBegin \/ TickRetries \/ \E d \in tick.due : TriggerRefuse(d) \/ TriggerRaise(d)
    BY <2>2, <1>s DEF TickBegin, TickRetries, TriggerRefuse, TriggerRaise, durableVars
  <2> QED BY <1>2, <2>1, <2>2 DEF Tick
<1>3. ASSUME NEW o \in Occurrences, Dispatch(o) PROVE RowsInv'
  <2>1. UNCHANGED schedule
    BY <1>3 DEF Dispatch, DispatchCheck, DispatchClaim
  <2>2. CASE UNCHANGED state
    BY <2>1, <2>2, <1>s
  <2>3. CASE ~UNCHANGED state
    <3>1. PICK to \in {"overlap_blocked", "dispatching"} : state' = [state EXCEPT ![o] = to]
      BY <1>3, <2>3 DEF Dispatch, DispatchCheck, DispatchClaim
    <3>2. state[o] # "absent"
      BY <1>3, <2>3 DEF Dispatch, DispatchCheck, DispatchClaim, Dispatchable
    <3> QED BY <2>1, <3>1, <3>2, <1>c
  <2> QED BY <2>2, <2>3
<1>4. ASSUME NEW o \in Occurrences, Command(o) \/ RunEnd(o) PROVE RowsInv'
  <2>1. CASE DispatchSettle(o)
    BY <2>1, <1>f DEF DispatchSettle
  <2>2. CASE ~DispatchSettle(o)
    BY <1>4, <2>2, <1>s DEF Command, RunReserve, RunStart, RunAccept, RunRefuse, RunEnd
  <2> QED BY <2>1, <2>2
<1>5. CASE Crash \/ Start \/ ClockTick
  BY <1>5, <1>s DEF Crash, Start, ClockTick, durableVars
<1>6. CASE Reconcile
  <2>1. ASSUME NEW o \in Occurrences, ReconcileClaim(o) PROVE RowsInv'
    BY <2>1, <1>f DEF ReconcileClaim
  <2>2. CASE ReconcilePending \/ ReconcileTick
    BY <2>2, <1>s DEF ReconcilePending, ReconcileTick, durableVars
  <2> QED BY <1>6, <2>1, <2>2 DEF Reconcile
<1> QED BY <1>1, <1>2, <1>3, <1>4, <1>5, <1>6, OperatorRows DEF Next

-----------------------------------------------------------------------------
(* The attempts of an occurrence, its claims and the restart. *)

\* An occurrence nobody works on keeps its record, or is made or settled without an effect.
LEMMA AttemptStays ==
  ASSUME NEW o \in Occurrences, AttemptOf(o),
         attempts'[o] = attempts[o], effects'[o] = effects[o], receipt'[o] = receipt[o],
         executing'[o] = executing[o],
         \/ state'[o] = state[o]
         \/ state[o] = "absent" /\ state'[o] \in {"pending", "coalesced", "misfired"}
         \/ state[o] \in Dispatchable /\ state'[o] = "overlap_blocked"
  PROVE  AttemptOf(o)'
<1>1. CASE state'[o] = state[o]
  BY <1>1 DEF AttemptOf
<1>2. CASE state[o] = "absent" /\ state'[o] \in {"pending", "coalesced", "misfired"}
  BY <1>2 DEF AttemptOf
<1>3. CASE state[o] \in Dispatchable /\ state'[o] = "overlap_blocked"
  BY <1>3 DEF AttemptOf, Dispatchable
<1> QED BY <1>1, <1>2, <1>3

\* The claim starts an attempt that has had no effect.
LEMMA ClaimAttempts ==
  ASSUME TypeOK, NEW o \in Occurrences, AttemptOf(o), DispatchClaim(o)
  PROVE  AttemptOf(o)'
<1>1. /\ state'[o] = "dispatching" /\ attempts'[o] = attempts[o] + 1 /\ executing'[o] = "claimed"
      /\ effects'[o] = effects[o]
  BY DEF DispatchClaim, TypeOK
<1>2. effects[o] = {} /\ attempts[o] < MaxAttempts /\ attempts[o] \in Nat
  BY SchedulingAssumption DEF DispatchClaim, Dispatchable, AttemptOf, TypeOK
<1>3. attempts'[o] \in Attempts
  BY <1>1, <1>2, SchedulingAssumption DEF Attempts
<1>4. effects'[o] = {}
  BY <1>1, <1>2
<1> QED BY <1>1, <1>3, <1>4 DEF AttemptOf

\* The run command records its effect with the receipt of its attempt.
LEMMA CommandAttempts ==
  ASSUME TypeOK, NEW o \in Occurrences, AttemptOf(o),
         RunReserve(o) \/ RunStart(o) \/ RunAccept(o)
           \/ \E how \in {"retryable", "refused"} : RunRefuse(o, how)
  PROVE  AttemptOf(o)'
<1>t. /\ state[o] = "dispatching" /\ state'[o] = "dispatching" /\ attempts'[o] = attempts[o]
      /\ attempts[o] \in Attempts /\ effects[o] \in SUBSET Attempts
      /\ effects[o] \subseteq {attempts[o]}
      /\ effects[o] # {} => receipt[o][attempts[o]] \in {"reserved", "accepted"}
  BY DEF TypeOK, AttemptOf, RunReserve, RunStart, RunAccept, RunRefuse
<1>1. CASE RunReserve(o)
  <2>1. /\ effects'[o] = {} /\ executing'[o] = "reserved" /\ receipt'[o][attempts[o]] = "reserved"
    BY <1>1, <1>t DEF RunReserve, AttemptOf, TypeOK
  <2> QED BY <2>1, <1>t DEF AttemptOf
<1>2. CASE RunStart(o)
  <2>1. effects[o] = {} /\ receipt[o][attempts[o]] = "reserved"
    BY <1>2 DEF RunStart, AttemptOf
  <2>2. effects'[o] = {attempts[o]}
    BY <1>2, <2>1 DEF RunStart, TypeOK
  <2>3. executing'[o] = "started" /\ receipt'[o][attempts[o]] = "reserved"
    BY <1>2, <2>1 DEF RunStart, TypeOK
  <2> QED BY <2>2, <2>3, <1>t DEF AttemptOf
<1>3. CASE RunAccept(o)
  <2>1. effects'[o] = effects[o] /\ executing'[o] = "answered"
        /\ receipt'[o][attempts[o]] = "accepted"
    BY <1>3, <1>t DEF RunAccept, TypeOK
  <2> QED BY <2>1, <1>t DEF AttemptOf
<1>4. CASE \E how \in {"retryable", "refused"} : RunRefuse(o, how)
  <2>1. effects'[o] = {} /\ executing'[o] = "answered"
    BY <1>4 DEF RunRefuse, AttemptOf, TypeOK
  <2> QED BY <2>1, <1>t DEF AttemptOf
<1> QED BY <1>1, <1>2, <1>3, <1>4

\* Settling retries only an attempt without an effect.
LEMMA SettleAttempts ==
  ASSUME TypeOK, NEW o \in Occurrences, AttemptOf(o), Settle(o), executing'[o] = "idle",
         UNCHANGED <<attempts, effects, receipt>>
  PROVE  AttemptOf(o)'
<1>1. state[o] = "dispatching" /\ state'[o] = SettledState(o)
  BY DEF Settle, TypeOK
<1>2. attempts[o] \in Attempts /\ effects[o] \subseteq {attempts[o]}
      /\ (effects[o] # {} => receipt[o][attempts[o]] \in {"reserved", "accepted"})
  BY <1>1 DEF AttemptOf
<1>3. SettledState(o) = "retry_waiting" => attempts[o] < MaxAttempts /\ effects[o] = {}
  BY <1>2 DEF SettledState
<1>4. SettledState(o) \notin {"absent", "pending", "dispatching"}
  BY DEF SettledState
<1> QED BY <1>1, <1>2, <1>3, <1>4 DEF AttemptOf

\* Every step keeps the record of every occurrence.
LEMMA AttemptStep ==
  ASSUME TypeOK, DriverTypes, AttemptInv, DriverInv, [Next]_vars
  PROVE  AttemptInv'
<1> SUFFICES ASSUME NEW o \in Occurrences PROVE AttemptOf(o)'
  BY DEF AttemptInv
<1>t. AttemptOf(o)
  BY DEF AttemptInv
<1>s. ASSUME UNCHANGED <<state, attempts, effects, receipt, executing>> PROVE AttemptOf(o)'
  BY <1>s, <1>t, AttemptStays
<1>f. ASSUME NEW s \in Schedules, NEW observed \in 0..Horizon, Due(s, observed),
             FireSlots(s, observed), UNCHANGED <<attempts, effects, receipt, executing>>
      PROVE  AttemptOf(o)'
  BY <1>f, <1>t, FireTypes, AttemptStays
<1>1. CASE UNCHANGED vars
  BY <1>1, <1>s DEF vars, durableVars, driverVars
<1>2. CASE Operator
  <2>1. ASSUME NEW s \in Schedules, ExternalTrigger(s) PROVE AttemptOf(o)'
    BY <2>1, <1>f DEF ExternalTrigger, TypeOK
  <2>2. ASSUME NEW s \in Schedules, NEW k \in Manuals, RunNow(s, k) PROVE AttemptOf(o)'
    <3>1. /\ state' = [state EXCEPT ![<<s, k>>] = "pending"] /\ state[<<s, k>>] = "absent"
          /\ UNCHANGED <<attempts, effects, receipt, executing>>
      BY <2>2 DEF RunNow
    <3>2. state'[o] = state[o] \/ (state[o] = "absent" /\ state'[o] = "pending")
      BY <3>1 DEF TypeOK
    <3> QED BY <3>1, <3>2, <1>t, AttemptStays
  <2>3. CASE (\E s \in Schedules : Create(s))
             \/ \E s \in Schedules, to \in {"active", "paused", "removed"} : Transition(s, to)
    BY <2>3, <1>s DEF Create, Transition, driverVars
  <2> QED BY <1>2, <2>1, <2>2, <2>3 DEF Operator
<1>3. CASE Tick
  <2>1. ASSUME NEW d \in tick.due, TriggerAccept(d) PROVE AttemptOf(o)'
    <3>1. d.s \in Schedules /\ tick.at \in 0..Horizon
      BY DEF DriverTypes
    <3> QED BY <2>1, <3>1, <1>f DEF TriggerAccept
  <2>2. CASE TickBegin \/ TickRetries \/ \E d \in tick.due : TriggerRefuse(d) \/ TriggerRaise(d)
    BY <2>2, <1>s DEF TickBegin, TickRetries, TriggerRefuse, TriggerRaise, durableVars
  <2> QED BY <1>3, <2>1, <2>2 DEF Tick
<1>4. ASSUME NEW p \in Occurrences, Dispatch(p) PROVE AttemptOf(o)'
  <2>1. CASE DispatchCheck(p)
    <3>1. UNCHANGED <<attempts, effects, receipt, executing>>
      BY <2>1 DEF DispatchCheck
    <3>2. \/ state'[o] = state[o]
          \/ state[o] \in Dispatchable /\ state'[o] = "overlap_blocked"
      BY <2>1 DEF DispatchCheck, TypeOK
    <3> QED BY <3>1, <3>2, <1>t, AttemptStays
  <2>2. CASE DispatchClaim(p) /\ p = o
    BY <2>2, <1>t, ClaimAttempts
  <2>3. CASE DispatchClaim(p) /\ p # o
    <3>1. /\ state'[o] = state[o] /\ attempts'[o] = attempts[o] /\ executing'[o] = executing[o]
          /\ effects'[o] = effects[o] /\ receipt'[o] = receipt[o]
      BY <2>3 DEF DispatchClaim, TypeOK
    <3> QED BY <3>1, <1>t, AttemptStays
  <2> QED BY <1>4, <2>1, <2>2, <2>3 DEF Dispatch
<1>5. ASSUME NEW p \in Occurrences, Command(p) PROVE AttemptOf(o)'
  <2>1. CASE p # o
    <3>1. /\ state'[o] = state[o] /\ attempts'[o] = attempts[o] /\ executing'[o] = executing[o]
      BY <1>5, <2>1 DEF Command, RunReserve, RunStart, RunAccept, RunRefuse, DispatchSettle, Settle,
                        TypeOK
    <3>2. effects'[o] = effects[o] /\ receipt'[o] = receipt[o]
      BY <1>5, <2>1 DEF Command, RunReserve, RunStart, RunAccept, RunRefuse, DispatchSettle, TypeOK
    <3> QED BY <3>1, <3>2, <1>t, AttemptStays
  <2>2. CASE p = o /\ DispatchSettle(p)
    <3>1. Settle(o) /\ executing'[o] = "idle" /\ UNCHANGED <<attempts, effects, receipt>>
      BY <2>2 DEF DispatchSettle, TypeOK
    <3> QED BY <3>1, <1>t, SettleAttempts
  <2>3. CASE p = o /\ ~DispatchSettle(p)
    BY <1>5, <2>3, <1>t, CommandAttempts DEF Command
  <2> QED BY <2>1, <2>2, <2>3
<1>6. ASSUME NEW p \in Occurrences, RunEnd(p) PROVE AttemptOf(o)'
  BY <1>6, <1>s DEF RunEnd, driverVars
<1>7. CASE Crash
  <2>1. executing'[o] = "idle" /\ UNCHANGED <<state, attempts, effects, receipt>>
    BY <1>7 DEF Crash, durableVars
  <2> QED BY <2>1, <1>t DEF AttemptOf
<1>8. CASE Start \/ ClockTick
  BY <1>8, <1>s DEF Start, ClockTick, durableVars, driverVars
<1>9. CASE Reconcile
  <2>1. ASSUME NEW p \in Occurrences, ReconcileClaim(p) PROVE AttemptOf(o)'
    <3>1. UNCHANGED <<attempts, effects, receipt, executing>> /\ p \in restart.claims /\ Settle(p)
      BY <2>1 DEF ReconcileClaim
    <3>2. CASE p = o
      BY <3>1, <3>2, <1>t, SettleAttempts DEF DriverInv
    <3>3. CASE p # o
      <4>1. state'[o] = state[o]
        BY <3>1, <3>3 DEF Settle, TypeOK
      <4> QED BY <3>1, <4>1, <1>t, AttemptStays
    <3> QED BY <3>2, <3>3
  <2>2. CASE ReconcilePending \/ ReconcileTick
    BY <2>2, <1>s DEF ReconcilePending, ReconcileTick, durableVars
  <2> QED BY <1>9, <2>1, <2>2 DEF Reconcile
<1> QED BY <1>1, <1>2, <1>3, <1>4, <1>5, <1>6, <1>7, <1>8, <1>9 DEF Next

\* A stopped daemon works on nothing, and a claim that waits for reconcile() stays one.
LEMMA DriverStep ==
  ASSUME TypeOK, DriverTypes, AttemptInv, DriverInv, [Next]_vars
  PROVE  DriverInv'
<1> DEFINE Resting(o) == state[o] = "dispatching" /\ executing[o] = "idle"
<1>s. ASSUME up' = up, lock' = lock, UNCHANGED <<executing, restart, state>>
      PROVE  DriverInv'
  BY <1>s DEF DriverInv
<1>w. ASSUME up, up' = up, restart'.claims \subseteq restart.claims,
             \A o \in restart'.claims : Resting(o) => Resting(o)'
      PROVE  DriverInv'
  BY <1>w DEF DriverInv
<1>f. ASSUME NEW s \in Schedules, NEW observed \in 0..Horizon, Due(s, observed),
             FireSlots(s, observed), up, UNCHANGED <<up, executing, restart>>
      PROVE  DriverInv'
  <2>1. \A o \in Occurrences : state[o] # "absent" => state'[o] = state[o]
    BY <1>f, FireTypes
  <2> QED BY <2>1, <1>f, <1>w DEF DriverTypes
<1>1. CASE UNCHANGED vars
  BY <1>1, <1>s DEF vars, durableVars, driverVars
<1>2. CASE Operator
  <2>1. ASSUME NEW s \in Schedules, ExternalTrigger(s) PROVE DriverInv'
    BY <2>1, <1>f DEF ExternalTrigger, TypeOK
  <2>2. ASSUME NEW s \in Schedules, NEW k \in Manuals, RunNow(s, k) PROVE DriverInv'
    <3>1. /\ state' = [state EXCEPT ![<<s, k>>] = "pending"] /\ state[<<s, k>>] = "absent"
          /\ up /\ UNCHANGED <<up, executing, restart>>
      BY <2>2 DEF RunNow
    <3>2. \A o \in Occurrences : Resting(o) => Resting(o)'
      BY <3>1 DEF TypeOK
    <3> QED BY <3>1, <3>2, <1>w DEF DriverTypes
  <2>3. CASE (\E s \in Schedules : Create(s))
             \/ \E s \in Schedules, to \in {"active", "paused", "removed"} : Transition(s, to)
    BY <2>3, <1>s DEF Create, Transition, driverVars
  <2> QED BY <1>2, <2>1, <2>2, <2>3 DEF Operator
<1>3. CASE Tick
  <2>1. ASSUME NEW d \in tick.due, TriggerAccept(d) PROVE DriverInv'
    <3>1. d.s \in Schedules /\ tick.at \in 0..Horizon
      BY DEF DriverTypes
    <3> QED BY <2>1, <3>1, <1>f DEF TriggerAccept
  <2>2. CASE TickBegin \/ TickRetries \/ \E d \in tick.due : TriggerRefuse(d) \/ TriggerRaise(d)
    BY <2>2, <1>s DEF TickBegin, TickRetries, TriggerRefuse, TriggerRaise, durableVars
  <2> QED BY <1>3, <2>1, <2>2 DEF Tick
<1>4. ASSUME NEW p \in Occurrences, Dispatch(p) PROVE DriverInv'
  <2>1. up /\ UNCHANGED <<up, restart>>
    BY <1>4 DEF Dispatch, DispatchCheck, DispatchClaim
  <2>2. \A o \in Occurrences : Resting(o) => Resting(o)'
    BY <1>4 DEF Dispatch, DispatchCheck, DispatchClaim, Dispatchable, TypeOK
  <2> QED BY <2>1, <2>2, <1>w DEF DriverTypes
<1>5. ASSUME NEW p \in Occurrences, Command(p) PROVE DriverInv'
  <2>1. up /\ UNCHANGED <<up, restart>> /\ executing[p] # "idle"
    BY <1>5 DEF Command, RunReserve, RunStart, RunAccept, RunRefuse, DispatchSettle
  <2>2. \A o \in Occurrences : o # p => state'[o] = state[o] /\ executing'[o] = executing[o]
    BY <1>5 DEF Command, RunReserve, RunStart, RunAccept, RunRefuse, DispatchSettle, Settle, TypeOK
  <2>3. \A o \in Occurrences : Resting(o) => Resting(o)'
    BY <2>1, <2>2
  <2> QED BY <2>1, <2>3, <1>w DEF DriverTypes
<1>6. ASSUME NEW p \in Occurrences, RunEnd(p) PROVE DriverInv'
  BY <1>6, <1>s DEF RunEnd, driverVars
<1>7. CASE Crash
  BY <1>7 DEF Crash, DriverInv, NoRestart
<1>8. CASE Start
  <2>1. PICK claims \in Some({o \in Occurrences : state[o] = "dispatching"}) :
          restart' = [phase |-> "claims", claims |-> claims]
    BY <1>8 DEF Start
  <2>2. \A o \in restart'.claims : o \in Occurrences /\ state[o] = "dispatching"
    BY <2>1 DEF Some
  <2>3. up' = TRUE /\ UNCHANGED <<state, executing>> /\ \A o \in Occurrences : executing[o] = "idle"
    BY <1>8 DEF Start, DriverInv, durableVars
  <2> QED BY <2>2, <2>3 DEF DriverInv
<1>9. CASE ClockTick
  BY <1>9, <1>s DEF ClockTick, durableVars, driverVars
<1>10. CASE Reconcile
  <2>1. ASSUME NEW p \in Occurrences, ReconcileClaim(p) PROVE DriverInv'
    <3>1. up /\ UNCHANGED <<up, executing>> /\ restart' = [restart EXCEPT !.claims = @ \ {p}]
      BY <2>1 DEF ReconcileClaim
    <3>2. restart'.claims = restart.claims \ {p}
      BY <3>1 DEF DriverTypes
    <3>3. \A o \in Occurrences : o # p => state'[o] = state[o]
      BY <2>1 DEF ReconcileClaim, Settle, TypeOK
    <3>4. \A o \in restart'.claims : Resting(o) => Resting(o)'
      BY <3>1, <3>2, <3>3 DEF DriverTypes
    <3> QED BY <3>1, <3>2, <3>4, <1>w
  <2>2. CASE ReconcilePending \/ ReconcileTick
    <3>1. up /\ UNCHANGED <<up, executing, state>> /\ restart'.claims \subseteq restart.claims
      BY <2>2 DEF ReconcilePending, ReconcileTick, NoRestart, durableVars, DriverTypes
    <3> QED BY <3>1, <1>w
  <2> QED BY <1>10, <2>1, <2>2 DEF Reconcile
<1> QED BY <1>1, <1>2, <1>3, <1>4, <1>5, <1>6, <1>7, <1>8, <1>9, <1>10 DEF Next

-----------------------------------------------------------------------------
(* Overlap. *)

\* An occurrence comes to hold its target by a claim alone.
LEMMA HoldersGrow ==
  ASSUME TypeOK, DriverTypes, AttemptInv, OverlapInv, [Next]_vars,
         NEW o \in Occurrences, Holds(o)'
  PROVE  Holds(o) \/ DispatchClaim(o)
<1>s. ASSUME UNCHANGED <<state, runOf, run>> PROVE Holds(o)
  BY <1>s DEF Holds
<1>c. ASSUME UNCHANGED <<runOf, run>>,
             state'[o] = state[o] \/ state'[o] \notin {"dispatching", "accepted"}
                                  \/ state[o] = "dispatching"
      PROVE  Holds(o)
  BY <1>c DEF Holds
<1>f. ASSUME NEW s \in Schedules, NEW observed \in 0..Horizon, Due(s, observed),
             FireSlots(s, observed), UNCHANGED <<runOf, run>>
      PROVE  Holds(o)
  BY <1>f, <1>c, FireTypes
<1>1. CASE UNCHANGED vars
  BY <1>1, <1>s DEF vars, durableVars
<1>2. CASE Operator
  <2>1. ASSUME NEW s \in Schedules, ExternalTrigger(s) PROVE Holds(o)
    BY <2>1, <1>f DEF ExternalTrigger, TypeOK
  <2>2. ASSUME NEW s \in Schedules, NEW k \in Manuals, RunNow(s, k) PROVE Holds(o)
    <3>1. state' = [state EXCEPT ![<<s, k>>] = "pending"] /\ UNCHANGED <<runOf, run>>
      BY <2>2 DEF RunNow
    <3>2. state'[o] = state[o] \/ state'[o] = "pending"
      BY <3>1 DEF TypeOK
    <3> QED BY <3>1, <3>2, <1>c
  <2>3. CASE (\E s \in Schedules : Create(s))
             \/ \E s \in Schedules, to \in {"active", "paused", "removed"} : Transition(s, to)
    BY <2>3, <1>s DEF Create, Transition
  <2> QED BY <1>2, <2>1, <2>2, <2>3 DEF Operator
<1>3. CASE Tick
  <2>1. ASSUME NEW d \in tick.due, TriggerAccept(d) PROVE Holds(o)
    <3>1. d.s \in Schedules /\ tick.at \in 0..Horizon
      BY DEF DriverTypes
    <3> QED BY <2>1, <3>1, <1>f DEF TriggerAccept
  <2>2. CASE TickBegin \/ TickRetries \/ \E d \in tick.due : TriggerRefuse(d) \/ TriggerRaise(d)
    BY <2>2, <1>s DEF TickBegin, TickRetries, TriggerRefuse, TriggerRaise, durableVars
  <2> QED BY <1>3, <2>1, <2>2 DEF Tick
<1>4. ASSUME NEW p \in Occurrences, Dispatch(p) PROVE Holds(o) \/ DispatchClaim(o)
  <2>1. UNCHANGED <<runOf, run>>
    BY <1>4 DEF Dispatch, DispatchCheck, DispatchClaim
  <2>2. CASE DispatchCheck(p)
    <3>1. state'[o] = state[o] \/ state'[o] = "overlap_blocked"
      BY <2>2 DEF DispatchCheck, TypeOK
    <3> QED BY <2>1, <3>1, <1>c
  <2>3. CASE DispatchClaim(p) /\ p # o
    <3>1. state'[o] = state[o]
      BY <2>3 DEF DispatchClaim, TypeOK
    <3> QED BY <2>1, <3>1, <1>c
  <2> QED BY <1>4, <2>2, <2>3 DEF Dispatch
<1>5. ASSUME NEW p \in Occurrences, Command(p) PROVE Holds(o)
  <2>1. CASE p = o
    BY <1>5, <2>1
       DEF Command, RunReserve, RunStart, RunAccept, RunRefuse, DispatchSettle, AttemptInv,
           AttemptOf, Holds
  <2>2. CASE p # o
    <3>1. state'[o] = state[o] /\ runOf'[o] = runOf[o]
      BY <1>5, <2>2 DEF Command, RunReserve, RunStart, RunAccept, RunRefuse, DispatchSettle,
                        Settle, TypeOK
    <3>2. \A r \in Occurrences : run[r] # "none" => run'[r] = run[r]
      BY <1>5 DEF Command, RunReserve, RunStart, RunAccept, RunRefuse, DispatchSettle, TypeOK
    <3>3. runOf[o] # NoOne => runOf[o] \in Occurrences /\ run[runOf[o]] # "none"
      BY DEF OverlapInv, TypeOK
    <3> QED BY <3>1, <3>2, <3>3 DEF Holds
  <2> QED BY <2>1, <2>2
<1>6. ASSUME NEW p \in Occurrences, RunEnd(p) PROVE Holds(o)
  <2>1. UNCHANGED <<state, runOf>>
    BY <1>6 DEF RunEnd
  <2>2. \A r \in Occurrences : run'[r] = "active" => run[r] = "active"
    BY <1>6 DEF RunEnd, TypeOK
  <2> QED BY <2>1, <2>2 DEF Holds, TypeOK
<1>7. CASE Crash \/ Start \/ ClockTick
  BY <1>7, <1>s DEF Crash, Start, ClockTick, durableVars
<1>8. CASE Reconcile
  <2>1. ASSUME NEW p \in Occurrences, ReconcileClaim(p) PROVE Holds(o)
    <3>1. state'[o] = state[o] \/ state[o] = "dispatching"
      BY <2>1 DEF ReconcileClaim, Settle, TypeOK
    <3> QED BY <2>1, <3>1, <1>c DEF ReconcileClaim
  <2>2. CASE ReconcilePending \/ ReconcileTick
    BY <2>2, <1>s DEF ReconcilePending, ReconcileTick, durableVars
  <2> QED BY <1>8, <2>1, <2>2 DEF Reconcile
<1> QED BY <1>1, <1>2, <1>3, <1>4, <1>5, <1>6, <1>7, <1>8 DEF Next

\* The dispatch lock is taken by a check that found no overlap.
LEMMA LockTaken ==
  ASSUME [Next]_vars, NEW o \in Occurrences, lock' = o, lock # o
  PROVE  ~(o[1] \in Blocking /\ HasActiveOverlap(o))
<1>1. CASE \E p \in Occurrences : DispatchCheck(p)
  <2>1. PICK p \in Occurrences : DispatchCheck(p)
    BY <1>1
  <2>2. p = o /\ ~(p[1] \in Blocking /\ HasActiveOverlap(p))
    BY <2>1 DEF DispatchCheck
  <2> QED BY <2>2
<1>2. CASE ~\E p \in Occurrences : DispatchCheck(p)
  <2>1. lock' = lock \/ lock' = NoOne
    <3>1. CASE UNCHANGED vars
      BY <3>1 DEF vars, driverVars
    <3>2. CASE Operator
      BY <3>2 DEF Operator, Create, Transition, RunNow, ExternalTrigger, driverVars
    <3>3. CASE Tick
      BY <3>3 DEF Tick, TickBegin, TriggerAccept, TriggerRefuse, TriggerRaise, TickRetries
    <3>4. ASSUME NEW p \in Occurrences, Dispatch(p) \/ Command(p) \/ RunEnd(p)
          PROVE  lock' = lock \/ lock' = NoOne
      BY <1>2, <3>4 DEF Dispatch, DispatchClaim, Command, RunReserve, RunStart, RunAccept,
                        RunRefuse, DispatchSettle, RunEnd, driverVars
    <3>5. CASE Crash \/ Start \/ Reconcile \/ ClockTick
      BY <3>5 DEF Crash, Start, Reconcile, ReconcileClaim, ReconcilePending, ReconcileTick,
                  ClockTick, driverVars
    <3> QED BY <3>1, <3>2, <3>3, <3>4, <3>5 DEF Next
  <2> QED BY <2>1, OccurrenceParts
<1> QED BY <1>1, <1>2

\* A run an occurrence names was created.
LEMMA RunsStep ==
  ASSUME TypeOK, OverlapInv, [Next]_vars
  PROVE  \A o \in Occurrences : runOf'[o] # NoOne => run'[runOf'[o]] # "none"
<1>s. ASSUME UNCHANGED <<runOf, run>>
      PROVE  \A o \in Occurrences : runOf'[o] # NoOne => run'[runOf'[o]] # "none"
  BY <1>s DEF OverlapInv
<1>1. ASSUME NEW p \in Occurrences, RunStart(p) \/ RunEnd(p)
      PROVE  \A o \in Occurrences : runOf'[o] # NoOne => run'[runOf'[o]] # "none"
  <2>1. \A r \in Occurrences : run[r] # "none" => run'[r] # "none"
    BY <1>1 DEF RunStart, RunEnd, TypeOK
  <2>2. \A o \in Occurrences : runOf'[o] = runOf[o] \/ run'[runOf'[o]] # "none"
    BY <1>1 DEF RunStart, RunEnd, TypeOK
  <2> QED BY <2>1, <2>2 DEF OverlapInv, TypeOK
<1>2. CASE UNCHANGED vars
  BY <1>2, <1>s DEF vars, durableVars
<1>3. CASE Operator
  BY <1>3, <1>s DEF Operator, Create, Transition, RunNow, ExternalTrigger
<1>4. CASE Tick
  BY <1>4, <1>s DEF Tick, TickBegin, TriggerAccept, TriggerRefuse, TriggerRaise, TickRetries,
                    durableVars
<1>5. ASSUME NEW p \in Occurrences, Dispatch(p) \/ Command(p) \/ RunEnd(p)
      PROVE  \A o \in Occurrences : runOf'[o] # NoOne => run'[runOf'[o]] # "none"
  BY <1>1, <1>5, <1>s DEF Dispatch, DispatchCheck, DispatchClaim, Command, RunReserve, RunAccept,
                          RunRefuse, DispatchSettle
<1>6. CASE Crash \/ Start \/ Reconcile \/ ClockTick
  BY <1>6, <1>s DEF Crash, Start, Reconcile, ReconcileClaim, ReconcilePending, ReconcileTick,
                    ClockTick, durableVars
<1> QED BY <1>2, <1>3, <1>4, <1>5, <1>6 DEF Next

\* The check and the claim are two steps under one lock: what the check found stays true.
LEMMA OverlapStep ==
  ASSUME TypeOK, DriverTypes, AttemptInv, OverlapInv, [Next]_vars
  PROVE  OverlapInv'
<1>1. ASSUME NEW o \in Occurrences, lock' = o, o[1] \in Blocking
      PROVE  ~HasActiveOverlap(o)'
  <2> SUFFICES ASSUME NEW p \in Occurrences \ {o}, Target[p[1]] = Target[o[1]], Holds(p)'
               PROVE  FALSE
    BY DEF HasActiveOverlap
  <2>1. ~DispatchClaim(p)
    BY <1>1, OccurrenceParts DEF DispatchClaim
  <2>2. HasActiveOverlap(o)
    BY <2>1, HoldersGrow DEF HasActiveOverlap
  <2>3. CASE lock = o
    BY <1>1, <2>2, <2>3 DEF OverlapInv
  <2>4. CASE lock # o
    BY <1>1, <2>2, <2>4, LockTaken
  <2> QED BY <2>3, <2>4
<1>2. OverlapExclusive'
  <2> SUFFICES ASSUME NEW o \in Occurrences, NEW p \in Occurrences, o # p, o[1] \in Blocking,
                      p[1] \in Blocking, Target[o[1]] = Target[p[1]], Holds(o)', Holds(p)'
               PROVE  FALSE
    BY DEF OverlapExclusive
  <2>1. /\ Holds(o) \/ DispatchClaim(o)
        /\ Holds(p) \/ DispatchClaim(p)
    BY HoldersGrow
  <2>2. DispatchClaim(o) => ~Holds(p)
    BY DEF DispatchClaim, OverlapInv, HasActiveOverlap
  <2>3. DispatchClaim(p) => ~Holds(o)
    BY DEF DispatchClaim, OverlapInv, HasActiveOverlap
  <2>4. ~(DispatchClaim(o) /\ DispatchClaim(p))
    BY DEF DispatchClaim
  <2>5. ~(Holds(o) /\ Holds(p))
    BY DEF OverlapInv, OverlapExclusive
  <2> QED BY <2>1, <2>2, <2>3, <2>4, <2>5
<1> QED BY <1>1, <1>2, RunsStep DEF OverlapInv

-----------------------------------------------------------------------------
(* Theorems *)

\* The invariant holds in every reachable state.
THEOREM SchedulingInvHolds == Spec => []SchedulingInv
<1>1. SchedulingInv /\ [Next]_vars => SchedulingInv'
  BY TypesStep, RowsStep, AttemptStep, DriverStep, OverlapStep DEF SchedulingInv
<1> QED BY <1>1, SchedulingInitially, PTL DEF Spec

\* The rows are well formed, and no slot of a cron schedule is lost or made early, whatever
\* wake-ups, external triggers, operator commands and crashes interleave.
THEOREM ScheduleRowsHold == Spec => []ScheduleRows
<1>1. SchedulingInv => ScheduleRows
  BY DEF SchedulingInv, RowsInv, ScheduleRows
<1> QED BY <1>1, SchedulingInvHolds, PTL

\* Two blocking occurrences of one target are never dispatching or running together.
THEOREM OverlapExcluded == Spec => []OverlapExclusive
<1>1. SchedulingInv => OverlapExclusive
  BY DEF SchedulingInv, OverlapInv
<1> QED BY <1>1, SchedulingInvHolds, PTL

\* One attempt of an occurrence at most reaches a run, and no later step dispatches the
\* occurrence again: neither a retry nor the reconciliation after a crash.
THEOREM EffectsSingle == Spec => []SingleEffect
<1>1. SchedulingInv => SingleEffect
  BY DEF SchedulingInv, AttemptInv, AttemptOf, SingleEffect, Dispatchable
<1> QED BY <1>1, SchedulingInvHolds, PTL

\* A settled occurrence is never reopened.
THEOREM OccurrencesStaySettled == Spec => OccurrencesFinal
<1>1. SchedulingInv /\ [Next]_vars =>
        [\A o \in Occurrences : state[o] \in Settled => state'[o] = state[o]]_vars
  <2> SUFFICES ASSUME SchedulingInv, Next, NEW o \in Occurrences, state[o] \in Settled
               PROVE  state'[o] = state[o]
    BY DEF vars
  <2>t. TypeOK /\ DriverTypes
    BY DEF SchedulingInv
  <2>f. ASSUME NEW s \in Schedules, NEW observed \in 0..Horizon, Due(s, observed),
               FireSlots(s, observed)
        PROVE  state'[o] = state[o]
    BY <2>f, <2>t, FireTypes DEF Settled
  <2>1. CASE Operator
    <3>1. ASSUME NEW s \in Schedules, NEW k \in Manuals, RunNow(s, k) PROVE state'[o] = state[o]
      BY <3>1, <2>t DEF RunNow, Settled, TypeOK
    <3>2. ASSUME NEW s \in Schedules, ExternalTrigger(s) PROVE state'[o] = state[o]
      BY <3>2, <2>t, <2>f DEF ExternalTrigger, TypeOK
    <3> QED BY <2>1, <3>1, <3>2 DEF Operator, Create, Transition
  <2>2. CASE Tick
    <3>1. ASSUME NEW d \in tick.due, TriggerAccept(d) PROVE state'[o] = state[o]
      <4>1. d.s \in Schedules /\ tick.at \in 0..Horizon
        BY <2>t DEF DriverTypes
      <4> QED BY <3>1, <4>1, <2>f DEF TriggerAccept
    <3> QED BY <2>2, <3>1
        DEF Tick, TickBegin, TriggerRefuse, TriggerRaise, TickRetries, durableVars
  <2>3. ASSUME NEW p \in Occurrences, Dispatch(p) \/ Command(p) \/ RunEnd(p)
        PROVE  state'[o] = state[o]
    <3>1. CASE p = o
      BY <2>3, <3>1, <2>t DEF Dispatch, DispatchCheck, DispatchClaim, Command, RunReserve,
         RunStart, RunAccept, RunRefuse, DispatchSettle, Settle, RunEnd, Settled, Dispatchable
    <3>2. CASE p # o
      BY <2>3, <3>2, <2>t DEF Dispatch, DispatchCheck, DispatchClaim, Command, RunReserve,
         RunStart, RunAccept, RunRefuse, DispatchSettle, Settle, RunEnd, TypeOK
    <3> QED BY <3>1, <3>2
  <2>4. CASE Crash \/ Start \/ ClockTick
    BY <2>4 DEF Crash, Start, ClockTick, durableVars
  <2>5. CASE Reconcile
    BY <2>5, <2>t DEF Reconcile, ReconcileClaim, ReconcilePending, ReconcileTick, Settle, Settled,
                      durableVars, TypeOK
  <2> QED BY <2>1, <2>2, <2>3, <2>4, <2>5 DEF Next
<1> QED BY <1>1, SchedulingInvHolds, PTL DEF Spec, OccurrencesFinal
=============================================================================
