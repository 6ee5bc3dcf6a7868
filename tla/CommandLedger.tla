---------------------------- MODULE CommandLedger ----------------------------
(***************************************************************************)
(* The daemon's application command path, execute_command(), over the      *)
(* durable ledger: replay of known identities, refusals, mutations that    *)
(* commit with their receipt, effectful commands that are reserved before  *)
(* and settled after their effect, joining a command in flight, optimistic *)
(* aggregate revisions and a daemon crash.                                 *)
(*                                                                         *)
(* execute_command() does not suspend between its first look at the active *)
(* commands and the receipt or the task it ends in, so a submission is one *)
(* step.                                                                   *)
(***************************************************************************)
EXTENDS Naturals, FiniteSets

CONSTANTS
  Commands,      \* command identities
  Contents,      \* fingerprints a client may submit under one identity
  Expected,      \* Expected[k]: expected_revision of content k, or AnyRevision
  Requests,      \* client requests; one command may be submitted by several
  Targets, TargetOf,
  Mutations,     \* schedule., worker. and registry.entry. commands
  RunCommands,   \* run.initialize
  MaxCrashes     \* bound: daemon crashes

AnyRevision == Cardinality(Commands) + 1
NoContent == <<>>
Free == <<>>           \* nobody holds the lock of a target

ASSUME LedgerAssumption ==
  /\ NoContent \notin Contents /\ Free \notin Commands /\ IsFiniteSet(Commands)
  /\ Mutations \subseteq Commands /\ RunCommands \subseteq Commands
  /\ Mutations \cap RunCommands = {}
  /\ TargetOf \in [Commands -> Targets]
  /\ \A m \in Mutations, c \in Commands \ Mutations : TargetOf[m] # TargetOf[c]
  /\ Expected \in [Contents -> Nat]
  /\ MaxCrashes \in Nat

VARIABLES
  receipt,     \* receipt[c]: status and fingerprint of c's CommandRow
  revision,    \* revision[t]: aggregate revision of target t
  performed,   \* performed[c]: how often c's effect happened
  task,        \* task[c]: c's task in this daemon, its content and progress
  held,        \* held[t]: the command that holds t's effect lock
  request,     \* request[r]: the command a client waits for and its answer
  answers,     \* answers[c]: every answer given for c, with its content
  crashes

ledgerVars == <<receipt, revision, performed>>
daemonVars == <<task, held>>
clientVars == <<request, answers>>
vars == <<ledgerVars, daemonVars, clientVars, crashes>>

Idle == [phase |-> "none", content |-> NoContent]
Phases == {"none", "waiting", "locked", "verified", "performed", "running"}
Statuses == {"accepted", "refused", "interrupted"}   \* answers that come from a receipt
Replies == Statuses \cup {"duplicate", "stale", "error", "lost"}

LedgerTypeOK ==
  /\ receipt \in [Commands -> [status : {"none", "reserved", "accepted", "refused"},
                               content : Contents \cup {NoContent}]]
  /\ revision \in [Targets -> Nat]
  /\ performed \in [Commands -> Nat]
  /\ task \in [Commands -> [phase : Phases, content : Contents \cup {NoContent}]]
  /\ held \in [Targets -> Commands \cup {Free}]
  /\ request \in [Requests -> {"idle", "answered"} \cup Commands]
  /\ answers \in [Commands -> SUBSET (Contents \X Replies)]
  /\ crashes \in 0..MaxCrashes

Init ==
  /\ receipt = [c \in Commands |-> [status |-> "none", content |-> NoContent]]
  /\ revision = [t \in Targets |-> 0]
  /\ performed = [c \in Commands |-> 0]
  /\ task = [c \in Commands |-> Idle]
  /\ held = [t \in Targets |-> Free]
  /\ request = [r \in Requests |-> "idle"]
  /\ answers = [c \in Commands |-> {}]
  /\ crashes = 0

Current(c, k) == Expected[k] = AnyRevision \/ Expected[k] = revision[TargetOf[c]]

Active(c) == task[c].phase # "none"

\* Mutant: a reservation left by a crash is taken for no receipt.
KnownSettled(c) == receipt[c].status \in {"accepted", "refused"}

Known(c) == receipt[c].status # "none"

Settled(c, status, k) ==
  receipt' = [receipt EXCEPT ![c] = [status |-> status, content |-> k]]

Advance(c) == revision' = [revision EXCEPT ![TargetOf[c]] = @ + 1]

Reply(r, c, k, reply) ==
  /\ request' = [request EXCEPT ![r] = "answered"]
  /\ answers' = [answers EXCEPT ![c] = @ \cup {<<k, reply>>}]

\* CommandResult of a stored receipt; a reservation reads as RUN_INTERRUPTED.
Stored(c) == IF receipt[c].status = "reserved" THEN "interrupted" ELSE receipt[c].status

-----------------------------------------------------------------------------
(* execute_command(): one of these for every submission of content k. *)

\* The command is in flight in this daemon: wait for its task.
Join(r, c, k) ==
  /\ Active(c) /\ task[c].content = k
  /\ request' = [request EXCEPT ![r] = c]
  /\ UNCHANGED <<ledgerVars, daemonVars, answers, crashes>>

Duplicate(r, c, k) ==
  /\ \/ Active(c) /\ task[c].content # k
     \/ ~Active(c) /\ Known(c) /\ receipt[c].content # k
  /\ Reply(r, c, k, "duplicate")
  /\ UNCHANGED <<ledgerVars, daemonVars, crashes>>

Replay(r, c, k) ==
  /\ ~Active(c) /\ Known(c) /\ receipt[c].content = k
  /\ Reply(r, c, k, Stored(c))
  /\ UNCHANGED <<ledgerVars, daemonVars, crashes>>

\* Policy does not allow the command, or a mutation raises: the refusal is stored.
RefuseNew(r, c, k) ==
  /\ ~Active(c) /\ ~Known(c)
  /\ Settled(c, "refused", k)
  /\ Reply(r, c, k, "refused")
  /\ UNCHANGED <<revision, performed, daemonVars, crashes>>

\* accept_with_mutation(): mutation, revision, event and receipt in one transaction.
MutateNew(r, c, k) ==
  /\ ~Active(c) /\ ~Known(c) /\ c \in Mutations /\ Current(c, k)
  /\ Settled(c, "accepted", k)
  /\ Advance(c)
  /\ performed' = [performed EXCEPT ![c] = @ + 1]
  /\ Reply(r, c, k, "accepted")
  /\ UNCHANGED <<daemonVars, crashes>>

\* reserve() raises on a stale revision and leaves no receipt.
StaleNew(r, c, k) ==
  /\ ~Active(c) /\ ~Known(c) /\ c \notin Mutations /\ ~Current(c, k)
  /\ Reply(r, c, k, "stale")
  /\ UNCHANGED <<ledgerVars, daemonVars, crashes>>

ReserveNew(r, c, k) ==
  /\ ~Active(c) /\ ~Known(c) /\ c \notin Mutations /\ Current(c, k)
  /\ Settled(c, "reserved", k)
  /\ task' = [task EXCEPT ![c] = [phase |-> "waiting", content |-> k]]
  /\ request' = [request EXCEPT ![r] = c]
  /\ UNCHANGED <<revision, performed, held, answers, crashes>>

Submit(r, c, k) ==
  /\ request[r] = "idle"
  /\ \/ Join(r, c, k) \/ Duplicate(r, c, k) \/ Replay(r, c, k) \/ RefuseNew(r, c, k)
     \/ MutateNew(r, c, k) \/ StaleNew(r, c, k) \/ ReserveNew(r, c, k)

-----------------------------------------------------------------------------
(* execute_effect() and execute_run(): the task of a reserved command. *)

Waiting(c) == {r \in Requests : request[r] = c}

\* Mutant: the lock of the target is not freed.
FinishHolding(c, reply) ==
  /\ task' = [task EXCEPT ![c] = Idle]
  /\ request' = [r \in Requests |-> IF r \in Waiting(c) THEN "answered" ELSE request[r]]
  /\ answers' = IF Waiting(c) = {} THEN answers
                ELSE [answers EXCEPT ![c] = @ \cup {<<task[c].content, reply>>}]
  /\ UNCHANGED held

\* The task ends: its lock is free and everyone who joined it is answered.
Finish(c, reply) ==
  /\ task' = [task EXCEPT ![c] = Idle]
  /\ held' = [t \in Targets |-> IF held[t] = c THEN Free ELSE held[t]]
  /\ request' = [r \in Requests |-> IF r \in Waiting(c) THEN "answered" ELSE request[r]]
  /\ answers' = IF Waiting(c) = {} THEN answers
                ELSE [answers EXCEPT ![c] = @ \cup {<<task[c].content, reply>>}]

Progress(c, phase) == task' = [task EXCEPT ![c].phase = phase]

TakeLock(c) ==
  /\ task[c].phase = "waiting" /\ c \notin RunCommands
  /\ held[TargetOf[c]] = Free
  /\ held' = [held EXCEPT ![TargetOf[c]] = c]
  /\ Progress(c, "locked")
  /\ UNCHANGED <<ledgerVars, clientVars, crashes>>

\* Mutant: the expected revision is not looked at again under the lock.
VerifyNothing(c) ==
  /\ task[c].phase = "locked"
  /\ Progress(c, "verified")
  /\ UNCHANGED <<ledgerVars, held, clientVars, crashes>>

\* verify_reserved_precondition(), under the target's lock.
Verify(c) ==
  /\ task[c].phase = "locked"
  /\ Current(c, task[c].content)
  /\ Progress(c, "verified")
  /\ UNCHANGED <<ledgerVars, held, clientVars, crashes>>

VerifyFails(c) ==
  /\ task[c].phase = "locked"
  /\ ~Current(c, task[c].content)
  /\ Settled(c, "refused", task[c].content)
  /\ Finish(c, "refused")
  /\ UNCHANGED <<revision, performed, crashes>>

\* run_execution_lock: one run.initialize at a time.
RunLockFree == \A d \in RunCommands : task[d].phase \notin {"performed", "running"}

\* _dispatch() performs the effect; start_or_resume() for a run.
PerformEffect(c) ==
  /\ \/ c \notin RunCommands /\ task[c].phase = "verified"
     \/ c \in RunCommands /\ task[c].phase = "waiting" /\ RunLockFree
  /\ performed' = [performed EXCEPT ![c] = @ + 1]
  /\ Progress(c, "performed")
  /\ UNCHANGED <<receipt, revision, held, clientVars, crashes>>

\* Mutant: the failure is answered and not stored.
DispatchFailsUnsaved(c) ==
  /\ c \notin RunCommands /\ task[c].phase \in {"verified", "performed"}
  /\ Finish(c, "refused")
  /\ UNCHANGED <<ledgerVars, crashes>>

\* fail_reserved(): _dispatch() raised, before or after its effect.
DispatchFails(c) ==
  /\ c \notin RunCommands /\ task[c].phase \in {"verified", "performed"}
  /\ Settled(c, "refused", task[c].content)
  /\ Finish(c, "refused")
  /\ UNCHANGED <<revision, performed, crashes>>

\* complete_reserved(): receipt and revision in one transaction.
Complete(c) ==
  /\ c \notin RunCommands /\ task[c].phase = "performed"
  /\ Current(c, task[c].content)
  /\ Settled(c, "accepted", task[c].content)
  /\ Advance(c)
  /\ Finish(c, "accepted")
  /\ UNCHANGED <<performed, crashes>>

\* An exception that execute_effect() does not turn into a refusal (a store or file error,
\* or complete_reserved() finding that the revision moved on), or any failure of a run: the
\* receipt stays as it is.
TaskRaises(c) ==
  /\ \/ c \notin RunCommands /\ task[c].phase \in {"locked", "verified", "performed"}
     \/ c \in RunCommands /\ task[c].phase = "waiting" /\ RunLockFree
     \/ c \in RunCommands /\ task[c].phase \in {"performed", "running"}
  /\ Finish(c, "error")
  /\ UNCHANGED <<ledgerVars, crashes>>

\* accept_run(): the receipt of a run is complete while the run goes on.
AcceptRun(c) ==
  /\ c \in RunCommands /\ task[c].phase = "performed"
  /\ Current(c, task[c].content)
  /\ Settled(c, "accepted", task[c].content)
  /\ Advance(c)
  /\ Progress(c, "running")
  /\ UNCHANGED <<performed, held, clientVars, crashes>>

RunReturns(c) ==
  /\ task[c].phase = "running"
  /\ Finish(c, "accepted")
  /\ UNCHANGED <<ledgerVars, crashes>>

\* The daemon stops: tasks, locks and waiting requests are gone, the ledger stays.
Crash ==
  /\ crashes < MaxCrashes
  /\ crashes' = crashes + 1
  /\ task' = [c \in Commands |-> Idle]
  /\ held' = [t \in Targets |-> Free]
  /\ request' = [r \in Requests |-> IF request[r] \in Commands THEN "answered" ELSE request[r]]
  /\ UNCHANGED <<ledgerVars, answers>>

Step(c) ==
  \/ Verify(c) \/ VerifyFails(c) \/ PerformEffect(c) \/ DispatchFails(c)
  \/ Complete(c) \/ TaskRaises(c) \/ AcceptRun(c) \/ RunReturns(c)

Next ==
  \/ \E r \in Requests, c \in Commands, k \in Contents : Submit(r, c, k)
  \/ \E c \in Commands : TakeLock(c) \/ Step(c)
  \/ Crash

Spec == Init /\ [][Next]_vars

\* Effects and runs return, and asyncio hands a lock to the tasks in arrival order.
FairSpec == Spec /\ \A c \in Commands : WF_vars(Step(c)) /\ SF_vars(TakeLock(c))

-----------------------------------------------------------------------------
(* Properties *)

\* No command performs its effect twice, whatever requests repeat it and whenever the
\* daemon stops between reservation, effect and receipt.
EffectOnce == \A c \in Commands : performed[c] <= 1

\* The revision of a target counts the accepted commands on it: no acceptance is lost,
\* and no refusal moves it.
RevisionCountsAccepted ==
  \A t \in Targets :
    revision[t] = Cardinality({c \in Commands : TargetOf[c] = t /\ receipt[c].status = "accepted"})

\* Two commands that expected one revision of a target are never both accepted.
AcceptedExclusive ==
  \A c, d \in Commands :
    /\ c # d /\ TargetOf[c] = TargetOf[d]
    /\ receipt[c].status = "accepted" /\ receipt[d].status = "accepted"
    /\ Expected[receipt[c].content] # AnyRevision
    => Expected[receipt[c].content] # Expected[receipt[d].content]

\* Answers read from receipts agree: a client that saw one content of a command settled,
\* or interrupted, never sees another outcome for it.
AnswersAgree ==
  \A c \in Commands : \A x, y \in answers[c] :
    x[2] \in Statuses /\ y[2] \in Statuses => x = y

\* Receipts, revisions, effects and the answers given from them tell one story.
LedgerConsistent ==
  /\ LedgerTypeOK
  /\ EffectOnce
  /\ RevisionCountsAccepted
  /\ AcceptedExclusive
  /\ AnswersAgree

\* The commands that look at their revision again under a lock that covers their target.
\* execute_run() takes another lock and does not look again, so run.initialize, and a
\* command that shares its target with one, may start on a revision that has moved.
Guarded == {c \in Commands \ RunCommands : \A d \in RunCommands : TargetOf[c] # TargetOf[d]}

\* An effect starts from the revision its command expects: the second look under the
\* target's lock still holds when the effect happens.
EffectOnExpectedRevision ==
  [][\A c \in Guarded : performed'[c] # performed[c] => Current(c, receipt'[c].content)]_vars

\* Whoever waits for a command is answered: every end of its task frees the lock.
RequestsAnswered ==
  \A r \in Requests : request[r] \in Commands ~> request[r] = "answered"

Promise == INSTANCE CommandPromise WITH
  outcome <- [c \in Commands |-> receipt[c].status], performed <- performed

\* The ledger implements what CommandPromise says of every identity.
KeepsPromise == Promise!PromiseSpec
=============================================================================
