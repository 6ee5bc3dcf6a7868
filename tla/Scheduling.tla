------------------------------ MODULE Scheduling ------------------------------
(***************************************************************************)
(* Durable schedules and their occurrences: the schedule mutations applied *)
(* inside the application command transaction, the daemon-local driver     *)
(* that wakes up, fires due schedules and dispatches one run command per   *)
(* occurrence, and the reconciliation after a daemon restart.              *)
(*                                                                         *)
(* Instants are naturals.  A cron schedule has a slot at every instant, a  *)
(* one-shot schedule exactly one.  An occurrence is named by its schedule  *)
(* and its unique key: the slot, or the run_now command that asked for it. *)
(***************************************************************************)
EXTENDS Naturals, FiniteSets, FiniteSetsExt

CONSTANTS
  Schedules,      \* schedule identities
  Target,         \* Target[s]: the overlap key derived from s's mission
  Blocking,       \* the schedules whose overlap_mode is BLOCK
  OneShot,        \* the schedules with a date trigger, the others have a cron
  Manuals,        \* run_now command identities
  Coalesce,       \* scheduling.coalesce
  Grace,          \* scheduling.misfire_grace_seconds
  CatchUp,        \* scheduling.max_catch_up_occurrences
  MaxAttempts,    \* scheduling.max_attempts
  Backoff,        \* delay before a retried attempt
  Horizon,        \* bound: the last instant
  MaxRevision,    \* bound: operator commands per schedule
  MaxCrashes,     \* bound: daemon crashes
  TaskCap         \* bound: dispatch tasks waiting for one occurrence

ASSUME SchedulingAssumption ==
  /\ Blocking \subseteq Schedules /\ OneShot \subseteq Schedules
  /\ Coalesce \in BOOLEAN
  /\ Grace \in Nat /\ Horizon \in Nat /\ MaxRevision \in Nat /\ MaxCrashes \in Nat
  /\ CatchUp \in Nat \ {0} /\ MaxAttempts \in Nat \ {0} /\ Backoff \in Nat \ {0}
  /\ TaskCap \in Nat \ {0}
  /\ Manuals \cap (1..(Horizon + 1)) = {}   \* a command identity is no instant

Slots == 1..(Horizon + 1)
Occurrences == Schedules \X (Slots \cup Manuals)
Attempts == 1..MaxAttempts
Unset == 0      \* a null next_fire_at or next_attempt_at
NoOne == <<>>   \* the dispatch lock is free, an occurrence has no run

VARIABLES
  now,         \* the daemon's clock
  schedule,    \* schedule[s]: state, next_fire_at and revision of its row
  trigger,     \* trigger[s][t]: receipt of the driver's trigger command for slot t
  state,       \* state[o]: OccurrenceState of o's row, or absent
  attempts,    \* attempts[o]: attempt_count
  retryAt,     \* retryAt[o]: next_attempt_at
  runOf,       \* runOf[o]: the run o's command started, the row's run_id once accepted
  receipt,     \* receipt[o][a]: receipt of o's run command of attempt a
  effects,     \* effects[o]: the attempts that reached start_or_resume
  run,         \* run[r]: status of the run first created for occurrence r
  up,          \* the daemon is running
  crashes,     \* crashes so far
  tick,        \* the wake-up in progress: its observed instant and its due list
  tasks,       \* tasks[o]: dispatch tasks waiting for the dispatch lock
  lock,        \* the occurrence whose dispatch holds the lock after its check
  executing,   \* executing[o]: how far o's run command has come
  restart      \* progress of reconcile(): interrupted claims still to settle

durableVars == <<schedule, trigger, state, attempts, retryAt, runOf, receipt, effects, run>>
driverVars == <<tick, tasks, lock, executing, restart>>
vars == <<now, durableVars, up, crashes, driverVars>>

ScheduleStates == {"absent", "active", "paused", "completed", "removed"}
Settled == {"accepted", "misfired", "coalesced", "overlap_blocked", "failed", "uncertain"}
OccurrenceStates == {"absent", "pending", "dispatching", "retry_waiting"} \cup Settled

Dispatchable == {"pending", "retry_waiting"}

NoTick == [on |-> FALSE, at |-> 0, due |-> {}]
NoRestart == [phase |-> "done", claims |-> {}]

TypeOK ==
  /\ now \in 0..Horizon
  /\ schedule \in [Schedules -> [state : ScheduleStates, next : Slots \cup {Unset}, rev : Nat]]
  /\ trigger \in [Schedules -> [Slots -> {"none", "accepted", "refused"}]]
  /\ state \in [Occurrences -> OccurrenceStates]
  /\ attempts \in [Occurrences -> 0..MaxAttempts]
  /\ retryAt \in [Occurrences -> Nat]
  /\ runOf \in [Occurrences -> Occurrences \cup {NoOne}]
  /\ receipt \in [Occurrences -> [Attempts -> {"none", "reserved", "accepted", "retryable", "refused"}]]
  /\ effects \in [Occurrences -> SUBSET Attempts]
  /\ run \in [Occurrences -> {"none", "active", "terminal"}]
  /\ up \in BOOLEAN /\ crashes \in 0..MaxCrashes
  /\ tick.on \in BOOLEAN /\ tick.at \in 0..Horizon
  /\ tick.due \subseteq [s : Schedules, rev : Nat, next : Slots]
  /\ tasks \in [Occurrences -> 0..TaskCap]
  /\ lock \in Occurrences \cup {NoOne}
  /\ executing \in [Occurrences -> {"idle", "claimed", "reserved", "started", "answered"}]
  /\ restart.phase \in {"claims", "tick", "done"}
  /\ restart.claims \subseteq Occurrences

Init ==
  /\ now = 0
  /\ schedule = [s \in Schedules |-> [state |-> "absent", next |-> Unset, rev |-> 0]]
  /\ trigger = [s \in Schedules |-> [t \in Slots |-> "none"]]
  /\ state = [o \in Occurrences |-> "absent"]
  /\ attempts = [o \in Occurrences |-> 0]
  /\ retryAt = [o \in Occurrences |-> Unset]
  /\ runOf = [o \in Occurrences |-> NoOne]
  /\ receipt = [o \in Occurrences |-> [a \in Attempts |-> "none"]]
  /\ effects = [o \in Occurrences |-> {}]
  /\ run = [o \in Occurrences |-> "none"]
  /\ up = TRUE /\ crashes = 0
  /\ tick = NoTick
  /\ tasks = [o \in Occurrences |-> 0]
  /\ lock = NoOne
  /\ executing = [o \in Occurrences |-> "idle"]
  /\ restart = NoRestart

-----------------------------------------------------------------------------
(* Schedule mutations: one application command, one transaction.  A command *)
(* that expects a stale revision is refused and changes nothing here.       *)

Update(s, st, next) ==
  schedule' = [schedule EXCEPT ![s] = [state |-> st, next |-> next, rev |-> @.rev + 1]]

Create(s) ==
  /\ up /\ schedule[s].state = "absent" /\ now < Horizon
  /\ \E next \in IF s \in OneShot THEN (now + 1)..Horizon ELSE {now + 1} :
       Update(s, "active", next)
  /\ UNCHANGED <<now, trigger, state, attempts, retryAt, runOf, receipt, effects, run, up,
                 crashes, driverVars>>

Transition(s, to) ==
  /\ up /\ schedule[s].state \notin {"absent", "removed"}
  /\ schedule[s].rev < MaxRevision
  /\ ~(to = "active" /\ schedule[s].state = "completed")
  /\ Update(s, to, IF to = "removed" THEN Unset ELSE schedule[s].next)
  /\ UNCHANGED <<now, trigger, state, attempts, retryAt, runOf, receipt, effects, run, up,
                 crashes, driverVars>>

\* enqueue(): n more dispatch tasks for o.
Enqueued(o, n) == IF tasks[o] + n > TaskCap THEN TaskCap ELSE tasks[o] + n

RunNow(s, k) ==
  /\ up /\ schedule[s].state \notin {"absent", "removed"}
  /\ schedule[s].rev < MaxRevision
  /\ \A p \in Schedules : state[<<p, k>>] = "absent"
  /\ state' = [state EXCEPT ![<<s, k>>] = "pending"]
  /\ Update(s, schedule[s].state, schedule[s].next)
  /\ tasks' = [tasks EXCEPT ![<<s, k>>] = Enqueued(<<s, k>>, 1)]
  /\ UNCHANGED <<now, trigger, attempts, retryAt, runOf, receipt, effects, run, up, crashes,
                 tick, lock, executing, restart>>

\* next_after(): the slot after t, null for a one-shot trigger.
NextAfter(s, t) == IF s \in OneShot THEN Unset ELSE t + 1

\* _due_slots(): at most CatchUp slots, from the next one to the observed instant.
DueSlots(s, observed) ==
  LET first == schedule[s].next
  IN  IF s \in OneShot THEN {first}
      ELSE {t \in first..observed : t < first + CatchUp}

Selected(s, observed) ==
  IF Coalesce THEN Max(DueSlots(s, observed)) ELSE Min(DueSlots(s, observed))

FireState(t, selected, observed) ==
  IF t # selected THEN "coalesced" ELSE IF observed - t > Grace THEN "misfired" ELSE "pending"

Due(s, observed) ==
  schedule[s].state = "active" /\ schedule[s].next # Unset /\ schedule[s].next <= observed

\* due_retries(): the backoff of a refused attempt is over.
RetryDue(o, at) == state[o] = "retry_waiting" /\ retryAt[o] # Unset /\ retryAt[o] <= at

\* Mutant: the slots skipped by coalescing leave no occurrence.
FireSelectedOnly(s, observed) ==
  LET selected == Selected(s, observed)
      next == NextAfter(s, selected)
  IN  /\ state' = [state EXCEPT ![<<s, selected>>] = FireState(selected, selected, observed)]
      /\ Update(s, IF next = Unset THEN "completed" ELSE "active", next)

\* fire(): create_occurrence_in_session keeps an occurrence that already has the key.
FireSlots(s, observed) ==
  LET selected == Selected(s, observed)
      made == IF Coalesce THEN DueSlots(s, observed) ELSE {selected}
      next == NextAfter(s, selected)
  IN  /\ state' = [o \in Occurrences |->
                     IF o[1] = s /\ o[2] \in made /\ state[o] = "absent"
                     THEN FireState(o[2], selected, observed) ELSE state[o]]
      /\ Update(s, IF next = Unset THEN "completed" ELSE "active", next)

\* schedule.trigger from an operating-system scheduler, under its own command identity.
ExternalTrigger(s) ==
  /\ up /\ Due(s, now)
  /\ FireSlots(s, now)
  /\ LET o == <<s, Selected(s, now)>>
     IN  tasks' = [tasks EXCEPT ![o] = IF state'[o] = "pending" THEN Enqueued(o, 1) ELSE @]
  /\ UNCHANGED <<now, trigger, attempts, retryAt, runOf, receipt, effects, run, up, crashes,
                 tick, lock, executing, restart>>

-----------------------------------------------------------------------------
(* The driver's wake-up: tick() reads the due schedules, triggers each under *)
(* a command identity derived from the schedule and its next_fire_at, then   *)
(* spawns the due retries.                                                   *)

\* A query's limit: CatchUp of the rows that match, or all of them when they are fewer.
Some(rows) ==
  {x \in SUBSET rows :
     Cardinality(x) = IF Cardinality(rows) < CatchUp THEN Cardinality(rows) ELSE CatchUp}

\* due_schedules(): the earliest ones, each with the revision it had when it was read.
TickRead ==
  LET rows == {[s |-> s, rev |-> schedule[s].rev, next |-> schedule[s].next] :
                 s \in {p \in Schedules : Due(p, now)}}
  IN  \E due \in Some(rows) :
        /\ \A d \in due, e \in rows \ due : d.next <= e.next
        /\ tick' = [on |-> TRUE, at |-> now, due |-> due]

\* A wake-up that finds nothing due changes nothing and is not a step.
TickBegin ==
  /\ up /\ ~tick.on
  /\ (\E s \in Schedules : Due(s, now)) \/ (\E o \in Occurrences : RetryDue(o, now))
  /\ TickRead
  /\ UNCHANGED <<now, durableVars, up, crashes, tasks, lock, executing, restart>>

IsHead(d) == d \in tick.due /\ \A e \in tick.due : d.next <= e.next

\* The trigger commits: its receipt and the mutation in one transaction.  The
\* command handler and _trigger() both enqueue the new occurrence.
TriggerAccept(d) ==
  /\ up /\ tick.on /\ IsHead(d)
  /\ trigger[d.s][d.next] = "none"
  /\ schedule[d.s].rev = d.rev /\ Due(d.s, tick.at)
  /\ trigger' = [trigger EXCEPT ![d.s][d.next] = "accepted"]
  /\ FireSlots(d.s, tick.at)
  /\ LET o == <<d.s, Selected(d.s, tick.at)>>
     IN  tasks' = [tasks EXCEPT ![o] = IF state'[o] = "pending" THEN Enqueued(o, 2) ELSE @]
  /\ tick' = [tick EXCEPT !.due = @ \ {d}]
  /\ UNCHANGED <<now, attempts, retryAt, runOf, receipt, effects, run, up, crashes, lock,
                 executing, restart>>

\* The schedule changed since it was read: the refusal is stored under the identity.
TriggerRefuse(d) ==
  /\ up /\ tick.on /\ IsHead(d)
  /\ trigger[d.s][d.next] = "none"
  /\ schedule[d.s].rev # d.rev
  /\ trigger' = [trigger EXCEPT ![d.s][d.next] = "refused"]
  /\ tick' = [tick EXCEPT !.due = @ \ {d}]
  /\ UNCHANGED <<now, schedule, state, attempts, retryAt, runOf, receipt, effects, run, up,
                 crashes, tasks, lock, executing, restart>>

\* replay() finds the identity used with another observed_at and raises: tick() ends.
TriggerRaise(d) ==
  /\ up /\ tick.on /\ IsHead(d)
  /\ trigger[d.s][d.next] # "none"
  /\ tick' = NoTick
  /\ UNCHANGED <<now, durableVars, up, crashes, tasks, lock, executing, restart>>

TickRetries ==
  /\ up /\ tick.on /\ tick.due = {}
  /\ LET rows == {o \in Occurrences : RetryDue(o, tick.at)}
     IN  \E some \in Some(rows) :
           /\ \A o \in some, p \in rows \ some : retryAt[o] <= retryAt[p]
           /\ tasks' = [o \in Occurrences |-> IF o \in some THEN Enqueued(o, 1) ELSE tasks[o]]
  /\ tick' = NoTick
  /\ UNCHANGED <<now, durableVars, up, crashes, lock, executing, restart>>

-----------------------------------------------------------------------------
(* dispatch(): the overlap check and the claim under the dispatch lock, then *)
(* the run command outside it.                                               *)

\* An occurrence that holds its target: claimed, or accepted with a live run.
Holds(o) ==
  \/ state[o] = "dispatching"
  \/ state[o] = "accepted" /\ runOf[o] # NoOne /\ run[runOf[o]] = "active"

\* Mutant: only accepted runs are looked at, not claims in flight.
AcceptedOverlap(o) ==
  \E p \in Occurrences \ {o} :
    Target[p[1]] = Target[o[1]] /\ state[p] = "accepted" /\ Holds(p)

HasActiveOverlap(o) ==
  \E p \in Occurrences \ {o} : Target[p[1]] = Target[o[1]] /\ Holds(p)

DispatchCheck(o) ==
  /\ up /\ lock = NoOne /\ tasks[o] > 0
  /\ tasks' = [tasks EXCEPT ![o] = @ - 1]
  /\ \/ /\ state[o] \notin Dispatchable
        /\ UNCHANGED <<state, retryAt, lock>>
     \/ /\ state[o] \in Dispatchable
        /\ o[1] \in Blocking /\ HasActiveOverlap(o)
        /\ state' = [state EXCEPT ![o] = "overlap_blocked"]
        /\ retryAt' = [retryAt EXCEPT ![o] = Unset]
        /\ UNCHANGED lock
     \/ /\ state[o] \in Dispatchable
        /\ ~(o[1] \in Blocking /\ HasActiveOverlap(o))
        /\ lock' = o
        /\ UNCHANGED <<state, retryAt>>
  /\ UNCHANGED <<now, schedule, trigger, attempts, runOf, receipt, effects, run, up, crashes,
                 tick, executing, restart>>

DispatchClaim(o) ==
  /\ up /\ lock = o
  /\ state[o] \in Dispatchable
  /\ state' = [state EXCEPT ![o] = "dispatching"]
  /\ attempts' = [attempts EXCEPT ![o] = @ + 1]
  /\ retryAt' = [retryAt EXCEPT ![o] = Unset]
  /\ executing' = [executing EXCEPT ![o] = "claimed"]
  /\ lock' = NoOne
  /\ UNCHANGED <<now, schedule, trigger, runOf, receipt, effects, run, up, crashes, tick, tasks,
                 restart>>

\* reserve(): the receipt of an effectful command before its effect.
RunReserve(o) ==
  /\ up /\ executing[o] = "claimed"
  /\ receipt[o][attempts[o]] = "none"
  /\ receipt' = [receipt EXCEPT ![o][attempts[o]] = "reserved"]
  /\ executing' = [executing EXCEPT ![o] = "reserved"]
  /\ UNCHANGED <<now, schedule, trigger, state, attempts, retryAt, runOf, effects, run, up,
                 crashes, tick, tasks, lock, restart>>

\* A refusal before any effect, by policy or by the handler.
RunRefuse(o, how) ==
  /\ up /\ executing[o] \in {"claimed", "reserved"}
  /\ receipt' = [receipt EXCEPT ![o][attempts[o]] = how]
  /\ executing' = [executing EXCEPT ![o] = "answered"]
  /\ UNCHANGED <<now, schedule, trigger, state, attempts, retryAt, runOf, effects, run, up,
                 crashes, tick, tasks, lock, restart>>

\* start_or_resume(): a new run, or the run of the same objective and repository state.
RunStart(o) ==
  /\ up /\ executing[o] = "reserved"
  /\ \E r \in {o} \cup {p \in Occurrences : p[1] = o[1] /\ run[p] # "none"} :
       /\ runOf' = [runOf EXCEPT ![o] = r]
       /\ run' = [run EXCEPT ![r] = IF @ = "none" THEN "active" ELSE @]
  /\ effects' = [effects EXCEPT ![o] = @ \cup {attempts[o]}]
  /\ executing' = [executing EXCEPT ![o] = "started"]
  /\ UNCHANGED <<now, schedule, trigger, state, attempts, retryAt, receipt, up, crashes, tick,
                 tasks, lock, restart>>

\* complete_reserved(): the receipt names the run.
RunAccept(o) ==
  /\ up /\ executing[o] = "started"
  /\ receipt' = [receipt EXCEPT ![o][attempts[o]] = "accepted"]
  /\ executing' = [executing EXCEPT ![o] = "answered"]
  /\ UNCHANGED <<now, schedule, trigger, state, attempts, retryAt, runOf, effects, run, up,
                 crashes, tick, tasks, lock, restart>>

RunEnd(r) ==
  /\ run[r] = "active"
  /\ run' = [run EXCEPT ![r] = "terminal"]
  /\ UNCHANGED <<now, schedule, trigger, state, attempts, retryAt, runOf, receipt, effects, up,
                 crashes, driverVars>>

\* Mutant: an absent or interrupted receipt is retried.
RetryUnproved(o) ==
  CASE receipt[o][attempts[o]] = "accepted" -> "accepted"
    [] receipt[o][attempts[o]] \in {"none", "reserved", "retryable"}
         /\ attempts[o] < MaxAttempts -> "retry_waiting"
    [] OTHER -> "failed"

\* _settle_result() and _reconcile_claim(): the state the receipt proves.
SettledState(o) ==
  CASE receipt[o][attempts[o]] = "accepted" -> "accepted"
    [] receipt[o][attempts[o]] = "retryable" /\ attempts[o] < MaxAttempts -> "retry_waiting"
    [] receipt[o][attempts[o]] \in {"none", "reserved"} -> "uncertain"
    [] OTHER -> "failed"

Settle(o) ==
  /\ state[o] = "dispatching"
  /\ state' = [state EXCEPT ![o] = SettledState(o)]
  /\ retryAt' = [retryAt EXCEPT ![o] =
                   IF SettledState(o) = "retry_waiting" THEN now + Backoff ELSE Unset]

\* The command returned, or raised before it answered.
DispatchSettle(o) ==
  /\ up /\ executing[o] # "idle"
  /\ Settle(o)
  /\ executing' = [executing EXCEPT ![o] = "idle"]
  /\ UNCHANGED <<now, schedule, trigger, attempts, runOf, receipt, effects, run, up, crashes,
                 tick, tasks, lock, restart>>

-----------------------------------------------------------------------------
(* Crash, restart and reconcile(). *)

Crash ==
  /\ up /\ crashes < MaxCrashes
  /\ up' = FALSE /\ crashes' = crashes + 1
  /\ tick' = NoTick
  /\ tasks' = [o \in Occurrences |-> 0]
  /\ lock' = NoOne
  /\ executing' = [o \in Occurrences |-> "idle"]
  /\ restart' = NoRestart
  /\ UNCHANGED <<now, durableVars>>

Start ==
  /\ ~up
  /\ up' = TRUE
  /\ \E claims \in Some({o \in Occurrences : state[o] = "dispatching"}) :
       restart' = [phase |-> "claims", claims |-> claims]
  /\ UNCHANGED <<now, durableVars, crashes, tick, tasks, lock, executing>>

ReconcileClaim(o) ==
  /\ up /\ restart.phase = "claims" /\ o \in restart.claims
  /\ Settle(o)
  /\ restart' = [restart EXCEPT !.claims = @ \ {o}]
  /\ UNCHANGED <<now, schedule, trigger, attempts, runOf, receipt, effects, run, up, crashes,
                 tick, tasks, lock, executing>>

\* Mutant: pending occurrences are not enqueued after a restart.
ReconcileClaimsOnly ==
  /\ up /\ restart.phase = "claims" /\ restart.claims = {}
  /\ restart' = [restart EXCEPT !.phase = "tick"]
  /\ UNCHANGED <<now, durableVars, up, crashes, tick, tasks, lock, executing>>

ReconcilePending ==
  /\ up /\ restart.phase = "claims" /\ restart.claims = {}
  /\ \E some \in Some({o \in Occurrences : state[o] = "pending"}) :
       tasks' = [o \in Occurrences |-> IF o \in some THEN Enqueued(o, 1) ELSE tasks[o]]
  /\ restart' = [restart EXCEPT !.phase = "tick"]
  /\ UNCHANGED <<now, durableVars, up, crashes, tick, lock, executing>>

\* The last step of reconcile() is a tick, skipped while another one runs.
ReconcileTick ==
  /\ up /\ restart.phase = "tick"
  /\ IF tick.on THEN UNCHANGED tick ELSE TickRead
  /\ restart' = NoRestart
  /\ UNCHANGED <<now, durableVars, up, crashes, tasks, lock, executing>>

ClockTick ==
  /\ now < Horizon
  /\ now' = now + 1
  /\ UNCHANGED <<durableVars, up, crashes, driverVars>>

-----------------------------------------------------------------------------
Operator ==
  \/ \E s \in Schedules : Create(s)
  \/ \E s \in Schedules, to \in {"active", "paused", "removed"} : Transition(s, to)
  \/ \E s \in Schedules, k \in Manuals : RunNow(s, k)
  \/ \E s \in Schedules : ExternalTrigger(s)

Tick ==
  \/ TickBegin
  \/ \E d \in tick.due : TriggerAccept(d) \/ TriggerRefuse(d) \/ TriggerRaise(d)
  \/ TickRetries

Dispatch(o) == DispatchCheck(o) \/ DispatchClaim(o)

Command(o) ==
  \/ RunReserve(o) \/ RunStart(o) \/ RunAccept(o)
  \/ \E how \in {"retryable", "refused"} : RunRefuse(o, how)
  \/ DispatchSettle(o)

Reconcile == (\E o \in Occurrences : ReconcileClaim(o)) \/ ReconcilePending \/ ReconcileTick

Next ==
  \/ Operator \/ Tick
  \/ \E o \in Occurrences : Dispatch(o) \/ Command(o) \/ RunEnd(o)
  \/ Crash \/ Start \/ Reconcile \/ ClockTick

Spec == Init /\ [][Next]_vars

\* The wake-up interval, the restart of the daemon and the event loop keep going; the
\* dispatch lock is handed over in the order the tasks asked for it.
Fairness ==
  /\ WF_vars(Tick) /\ WF_vars(Start) /\ WF_vars(Reconcile)
  /\ \A o \in Occurrences :
       SF_vars(DispatchCheck(o)) /\ WF_vars(DispatchClaim(o)) /\ WF_vars(Command(o))

FairSpec == Spec /\ Fairness

-----------------------------------------------------------------------------
(* Properties *)

\* No slot is lost: of a cron schedule that is still active or paused, every slot between
\* its first occurrence and next_fire_at has an occurrence, pending, coalesced or misfired,
\* and no later slot has one.  fire() and the catch-up limit must agree on this.
SlotsAccounted ==
  \A s \in Schedules \ OneShot : schedule[s].state \in {"active", "paused"} =>
    /\ \A t \in Slots : state[<<s, t>>] # "absent" => t < schedule[s].next
    /\ \A t, u \in Slots :
         state[<<s, t>>] # "absent" /\ t < u /\ u < schedule[s].next => state[<<s, u>>] # "absent"

\* The rows of schedules, occurrences and receipts are well formed and no slot is missing.
ScheduleRows ==
  /\ TypeOK
  /\ SlotsAccounted

\* Of two blocking occurrences with one overlap key at most one is dispatching or has
\* a live run it was accepted for, whatever dispatch tasks interleave and crash.
OverlapExclusive ==
  \A o, p \in Occurrences :
    o # p /\ o[1] \in Blocking /\ p[1] \in Blocking /\ Target[o[1]] = Target[p[1]]
    => ~(Holds(o) /\ Holds(p))

\* At most one attempt of an occurrence ever reaches its run, and one that did is never
\* left in a state from which the driver dispatches it again.
SingleEffect ==
  \A o \in Occurrences :
    /\ \A a, b \in effects[o] : a = b
    /\ effects[o] # {} => state[o] \notin Dispatchable

\* A settled occurrence keeps its state: no late task, retry or reconciliation reopens it.
OccurrencesFinal ==
  [][\A o \in Occurrences : state[o] \in Settled => state'[o] = state[o]]_vars

\* A due schedule is fired by the driver, or stops being due.
DueScheduleFires == \A s \in Schedules : Due(s, now) ~> ~Due(s, now)

=============================================================================
