----------------------------- MODULE EventOutbox -----------------------------
(* The event outbox of persistence/application.py and the SSE stream that      *)
(* reads it (daemon/api.py).  Every committed mutation appends one event under *)
(* the next cursor; operators put holds on evidence, plan retention over a     *)
(* bounded set of old events and apply the plan later; readers follow the      *)
(* stream page by page from the last cursor they received, and start again     *)
(* from a snapshot when the stream answers cursor_gap.                         *)
EXTENDS Naturals, FiniteSets

CONSTANTS
  Runs,       \* the runs events may belong to
  NoRun,      \* run_id NULL: an event of no run
  Holds,      \* identifiers create_event_hold may draw
  Plans,      \* identifiers plan_event_retention may draw
  Readers,    \* subscriptions of /v1/events/stream
  Follows,    \* the run_id filter of a reader, NoRun for an unfiltered one
  BatchSize,  \* EventRetentionPolicy.batch_size
  PageLimit,  \* daemon.event_page_limit
  MaxCursor,  \* bound: events ever written
  MaxClock    \* bound: instants at which events are written

ASSUME OutboxAssumption ==
  /\ NoRun \notin Runs
  /\ Follows \in [Readers -> Runs \cup {NoRun}]
  /\ BatchSize \in Nat \ {0} /\ PageLimit \in Nat \ {0}
  /\ MaxCursor \in Nat /\ MaxClock \in Nat

VARIABLES
  outbox,      \* the retained rows
  lastCursor,  \* the AUTOINCREMENT counter, never reused
  clock,
  runStatus,   \* what the retention rule reads of RunRow
  hold,        \* EventHoldRow by id
  plan,        \* EventRetentionPlanRow by id
  reader       \* a client of the stream and what it has learnt

outboxVars == <<outbox, lastCursor, clock, runStatus, hold, plan, reader>>

Event == [cursor : 1..MaxCursor, run : Runs \cup {NoRun}, at : 0..MaxClock]

\* What a hold covers: everything, one run, or one event by its cursor.
HoldScope == {<<"all", 0>>} \cup ({"run"} \X Runs) \cup ({"event"} \X (1..MaxCursor))

HoldRow == [scope : HoldScope, state : {"free", "active", "released"}]

PlanRow == [cutoff : 0..MaxClock, candidates : SUBSET Event,
            state : {"free", "planned", "applied"}]

\* `known` is history: the cursors the client was sent, or a snapshot covered.
ReaderRow == [at : 0..MaxCursor, known : SUBSET (1..MaxCursor),
              state : {"off", "on", "gap"}]

OutboxTypeOK ==
  /\ outbox \subseteq Event
  /\ lastCursor \in 0..MaxCursor
  /\ clock \in 0..MaxClock
  /\ runStatus \in [Runs -> {"none", "active", "terminal"}]
  /\ hold \in [Holds -> HoldRow]
  /\ plan \in [Plans -> PlanRow]
  /\ reader \in [Readers -> ReaderRow]

OutboxInit ==
  /\ outbox = {} /\ lastCursor = 0 /\ clock = 0
  /\ runStatus = [r \in Runs |-> "none"]
  /\ hold = [h \in Holds |-> [scope |-> <<"all", 0>>, state |-> "free"]]
  /\ plan = [p \in Plans |-> [cutoff |-> 0, candidates |-> {}, state |-> "free"]]
  /\ reader = [s \in Readers |-> [at |-> 0, known |-> {}, state |-> "off"]]

-----------------------------------------------------------------------------
(* Writing events.                                                            *)

AppendEvent(r) ==
  /\ lastCursor < MaxCursor
  /\ lastCursor' = lastCursor + 1
  /\ outbox' = outbox \cup {[cursor |-> lastCursor + 1, run |-> r, at |-> clock]}

\* A mutation commits together with its event; the run may start or end in it.
WriteEvent(r, status) ==
  /\ AppendEvent(r)
  /\ \/ r = NoRun /\ status = "none" /\ UNCHANGED runStatus
     \/ /\ r \in Runs
        /\ runStatus[r] # "terminal" \/ status = "terminal"
        /\ status # "none"
        /\ runStatus' = [runStatus EXCEPT ![r] = status]
  /\ UNCHANGED <<clock, hold, plan, reader>>

TickOutbox ==
  /\ clock < MaxClock
  /\ clock' = clock + 1
  /\ UNCHANGED <<outbox, lastCursor, runStatus, hold, plan, reader>>

-----------------------------------------------------------------------------
(* Holds and retention.                                                       *)

CreateEventHold(h, scope) ==
  /\ hold[h].state = "free"
  /\ scope[1] = "run" => runStatus[scope[2]] # "none"
  /\ scope[1] = "event" => \E e \in outbox : e.cursor = scope[2]
  /\ hold' = [hold EXCEPT ![h] = [scope |-> scope, state |-> "active"]]
  /\ UNCHANGED <<outbox, lastCursor, clock, runStatus, plan, reader>>

ReleaseEventHold(h) ==
  /\ hold[h].state = "active"
  /\ hold' = [hold EXCEPT ![h].state = "released"]
  /\ UNCHANGED <<outbox, lastCursor, clock, runStatus, plan, reader>>

ActiveScopes == {hold[h].scope : h \in {g \in Holds : hold[g].state = "active"}}

Incomplete == {r \in Runs : runStatus[r] = "active"}

\* An event some active hold or an incomplete run protects.
ProtectedEvent(e) ==
  \/ <<"all", 0>> \in ActiveScopes
  \/ <<"run", e.run>> \in ActiveScopes
  \/ <<"event", e.cursor>> \in ActiveScopes
  \/ e.run \in Incomplete

\* The `limit` rows of S with the lowest cursors.
Oldest(S, limit) ==
  {e \in S : Cardinality({f \in S : f.cursor < e.cursor}) < limit}

EligibleRetentionRows(rows, cutoff) ==
  Oldest({e \in rows : e.at < cutoff /\ ~ProtectedEvent(e)}, BatchSize)

PlanEventRetention(p, cutoff) ==
  /\ plan[p].state = "free"
  /\ cutoff <= clock
  /\ plan' = [plan EXCEPT ![p] =
       [cutoff |-> cutoff, state |-> "planned",
        candidates |-> EligibleRetentionRows(outbox, cutoff)]]
  /\ UNCHANGED <<outbox, lastCursor, clock, runStatus, hold, reader>>

\* Mutant: the plan is applied as it was made.
PlannedCandidates(p) == outbox \cap plan[p].candidates

\* Candidates are checked again: runs and holds may have changed since.
StillEligible(p) ==
  EligibleRetentionRows(outbox \cap plan[p].candidates, plan[p].cutoff)

ApplyEventRetention(p) ==
  /\ plan[p].state = "planned"
  /\ outbox' = outbox \ StillEligible(p)
  /\ plan' = [plan EXCEPT ![p].state = "applied"]
  /\ UNCHANGED <<lastCursor, clock, runStatus, hold, reader>>

-----------------------------------------------------------------------------
(* Readers.                                                                   *)

Cursors(rows) == {e.cursor : e \in rows}

MaxRetained == IF outbox = {} THEN 0
               ELSE CHOOSE c \in Cursors(outbox) : \A d \in Cursors(outbox) : d <= c

\* The snapshot is one transaction: projections and the highest retained cursor.
ReadSnapshot(s) ==
  /\ reader[s].state # "on"
  /\ reader' = [reader EXCEPT ![s] =
       [at |-> MaxRetained, known |-> 1..lastCursor, state |-> "on"]]
  /\ UNCHANGED <<outbox, lastCursor, clock, runStatus, hold, plan>>

Wanted(s, e) == Follows[s] = NoRun \/ e.run = Follows[s]

\* Mutant: a page starts after the event that follows the reader's cursor.
PageSkipsOne(s) ==
  Oldest({e \in outbox : e.cursor > reader[s].at + 1 /\ Wanted(s, e)}, PageLimit)

Page(s) == Oldest({e \in outbox : e.cursor > reader[s].at /\ Wanted(s, e)}, PageLimit)

CursorGap(s) ==
  /\ outbox # {} /\ reader[s].at # 0
  /\ \A e \in outbox : reader[s].at + 1 < e.cursor

GapReported(s) ==
  /\ reader[s].state = "on"
  /\ CursorGap(s)
  /\ reader' = [reader EXCEPT ![s].state = "gap"]
  /\ UNCHANGED <<outbox, lastCursor, clock, runStatus, hold, plan>>

\* The client receives the page, or a prefix of it when the connection drops;
\* it resumes with the identifier of the last event it received.
StreamPage(s) ==
  /\ reader[s].state = "on"
  /\ ~CursorGap(s)
  /\ \E last \in Cursors(Page(s)) :
       reader' = [reader EXCEPT ![s].at = last,
                    ![s].known = @ \cup {c \in Cursors(Page(s)) : c <= last}]
  /\ UNCHANGED <<outbox, lastCursor, clock, runStatus, hold, plan>>

OutboxNext ==
  \/ \E r \in Runs \cup {NoRun}, status \in {"none", "active", "terminal"} :
       WriteEvent(r, status)
  \/ TickOutbox
  \/ \E h \in Holds : (\E scope \in HoldScope : CreateEventHold(h, scope)) \/ ReleaseEventHold(h)
  \/ \E p \in Plans : \/ \E cutoff \in 1..MaxClock : PlanEventRetention(p, cutoff)
                      \/ ApplyEventRetention(p)
  \/ \E s \in Readers : ReadSnapshot(s) \/ GapReported(s) \/ StreamPage(s)

\* The stream polls forever while the client is connected.
OutboxFairness == \A s \in Readers : WF_outboxVars(GapReported(s) \/ StreamPage(s))

OutboxSpec == OutboxInit /\ [][OutboxNext]_outboxVars /\ OutboxFairness

-----------------------------------------------------------------------------
(* Properties.                                                                *)

\* Retention never removes evidence that is protected when it is removed: a
\* hold created between planning and applying still counts.
EvidenceKept == [][\A e \in outbox : ProtectedEvent(e) => e \in outbox']_outboxVars

\* One application of a plan removes at most a batch, and only events that were
\* already old when the plan was made and were listed by it.
RetentionBounded ==
  [][outbox \subseteq outbox' \/
       \E p \in Plans : /\ plan[p].state = "planned" /\ plan'[p].state = "applied"
                        /\ (outbox \ outbox') \subseteq plan[p].candidates
                        /\ Cardinality(outbox \ outbox') <= BatchSize
                        /\ \A e \in outbox \ outbox' : e.at < plan[p].cutoff]_outboxVars

\* A reader never skips an event that is still retained: whatever lies at or
\* below its cursor and matches its filter was sent or covered by a snapshot.
RetainedDelivered ==
  \A s \in Readers : reader[s].state # "off" =>
    \A e \in outbox : e.cursor <= reader[s].at /\ Wanted(s, e) => e.cursor \in reader[s].known

\* A connected reader is brought up to date with the retained stream, or told
\* that its cursor is too old, again and again.
ReaderCatchesUp ==
  \A s \in Readers : []<>(reader[s].state = "on" => Page(s) = {})

\* What a reader may rely on: the rows are well formed and nothing retained is skipped.
StreamSafe ==
  /\ OutboxTypeOK
  /\ RetainedDelivered

\* What retention and the stream owe each other over time: protected evidence stays, a
\* plan removes only what it listed, and every connected reader is brought up to date.
StreamKept ==
  /\ EvidenceKept
  /\ RetentionBounded
  /\ ReaderCatchesUp
=============================================================================
