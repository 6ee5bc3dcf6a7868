----------------------------- MODULE Supervisor ------------------------------
(* One execution session of SessionSupervisor (execution/supervisor.py): the   *)
(* start protocol with its durable release gate, the monitor, cancellation     *)
(* with its signals, settlement with workspace evidence, and reconciliation    *)
(* after the daemon died.  Sessions do not share state, so one is enough; the  *)
(* threads that act on it do: the thread that starts it (after a restart, the  *)
(* one that reconciles it), its monitor and a client's request.  Settlement    *)
(* and cancellation hold the session lock; status and the readiness update do  *)
(* not.                                                                        *)
EXTENDS Naturals

CONSTANTS
  Requests,      \* what may be requested: a job or a PTY, with or without readiness,
                 \* declaring no effects, filesystem effects on paths, or others
  Kills,         \* the last of the profile's cancellation_signals is SIGKILL
  MaxCrashes     \* bound: deaths of the daemon

ASSUME SupervisorAssumption ==
  /\ Requests \subseteq [mode : {"job", "pty"}, readiness : BOOLEAN,
                         declares : {"none", "paths", "other"}]
  /\ Kills \in BOOLEAN
  /\ MaxCrashes \in Nat

VARIABLES
  request,   \* SessionRequest as stored in the row
  session,   \* ExecutionSessionRow
  proc,      \* the operating system's process
  exitOk,    \* whether its exit code is an expected one
  changed,   \* whether it has changed the workspace
  handle,    \* this daemon holds the Popen object
  startAt,   \* progress of start, or of the reconciliation after a restart
  doing,     \* the operation each thread has decided on
  lock,      \* holder of the session lock
  seen,      \* what the settling thread read before it gathered evidence
  monitored, \* the monitor thread is alive
  overdue,   \* the deadline passed, or a resource or output limit is exceeded
  hasty,     \* history: a client has acted on a launch not yet recorded, or settled a live
             \* process this daemon does not hold
  crashes

supervisorVars == <<request, session, proc, exitOk, changed, handle, startAt, doing, lock, seen,
                    monitored, overdue, hasty, crashes>>

Threads == {"starter", "monitor", "client"}
ActiveStates == {"starting", "running", "ready", "cancelling"}
SessionStates == ActiveStates \cup {"none", "settled", "failed", "lost", "uncertain"}

SupervisorTypeOK ==
  /\ request \in [mode : {"job", "pty"}, readiness : BOOLEAN,
                  declares : {"none", "paths", "other"}]
  /\ session \in [state : SessionStates, identity : BOOLEAN, cancelled : BOOLEAN,
                  finished : BOOLEAN, retryable : BOOLEAN,
                  effect : {"unknown", "absent", "completed", "uncertain"}]
  /\ proc \in {"none", "paused", "running", "exited"}
  /\ exitOk \in BOOLEAN /\ changed \in BOOLEAN /\ handle \in BOOLEAN
  /\ startAt \in {"idle", "prepared", "spawned", "recorded", "released", "ready", "observe",
                  "returned"}
  /\ doing \in [Threads -> {"idle", "interrupt", "lose", "doubt", "cancel", "signal",
                            "settle", "settling"}]
  /\ lock \in Threads \cup {"free"}
  /\ seen \in [state : SessionStates, cancelled : BOOLEAN, changed : BOOLEAN,
               declares : {"none", "paths", "other"}]
  /\ monitored \in BOOLEAN /\ overdue \in BOOLEAN /\ hasty \in BOOLEAN
  /\ crashes \in 0..MaxCrashes

SupervisorInit ==
  /\ request \in Requests
  /\ session = [state |-> "none", identity |-> FALSE, cancelled |-> FALSE, finished |-> FALSE,
                retryable |-> FALSE, effect |-> "unknown"]
  /\ proc = "none" /\ exitOk = FALSE /\ changed = FALSE /\ handle = FALSE
  /\ startAt = "idle"
  /\ doing = [t \in Threads |-> "idle"]
  /\ lock = "free"
  /\ seen = [state |-> "none", cancelled |-> FALSE, changed |-> FALSE, declares |-> "none"]
  /\ monitored = FALSE /\ overdue = FALSE /\ hasty = FALSE
  /\ crashes = 0

Alive == proc \in {"paused", "running"}

\* The recorded pid, group and creation time name a process that still runs.
IdentityMatches == session.identity /\ Alive

Does(t, op) == doing' = [doing EXCEPT ![t] = op]

-----------------------------------------------------------------------------
(* start: durable row, paused launcher, durable identity, release.            *)

StartPrepare ==
  /\ startAt = "idle"
  /\ session' = [session EXCEPT !.state = "starting"]
  /\ startAt' = "prepared"
  /\ UNCHANGED <<request, proc, exitOk, changed, handle, doing, lock, seen, monitored, overdue, hasty, crashes>>

StartSpawn ==
  /\ startAt = "prepared"
  /\ proc' = "paused" /\ handle' = TRUE
  /\ startAt' = "spawned"
  /\ UNCHANGED <<request, session, exitOk, changed, doing, lock, seen, monitored, overdue, hasty, crashes>>

StartRecord ==
  /\ startAt = "spawned"
  /\ session' = [session EXCEPT !.state = "running", !.identity = TRUE]
  /\ startAt' = "recorded"
  /\ UNCHANGED <<request, proc, exitOk, changed, handle, doing, lock, seen, monitored, overdue, hasty, crashes>>

\* _abort_start: the launcher never passes the gate and the row is settled.
StartAborts ==
  /\ startAt \in {"prepared", "spawned"} /\ doing["starter"] = "idle"
  /\ proc' = IF proc = "paused" THEN "exited" ELSE proc
  /\ Does("starter", "interrupt")
  /\ startAt' = "returned"
  /\ UNCHANGED <<request, session, exitOk, changed, handle, lock, seen, monitored, overdue, hasty, crashes>>

\* The release byte; a launcher that was killed meanwhile makes the write fail.
StartRelease ==
  /\ startAt = "recorded"
  /\ \/ proc = "paused" /\ proc' = "running"
        /\ startAt' = IF request.mode = "job" /\ request.readiness THEN "released" ELSE "observe"
     \/ proc = "exited" /\ startAt' = "returned" /\ UNCHANGED proc
  /\ UNCHANGED <<request, session, exitOk, changed, handle, doing, lock, seen, monitored, overdue, hasty, crashes>>

\* _await_readiness: an exited process is settled, a ready one is about to be
\* marked, and one that is not ready in time is cancelled.
AwaitReadiness ==
  /\ startAt = "released" /\ doing["starter"] = "idle"
  /\ \/ ~Alive /\ Does("starter", "settle") /\ startAt' = "observe"
     \/ Alive /\ startAt' = "ready" /\ UNCHANGED doing
     \/ Alive /\ Does("starter", "cancel") /\ startAt' = "observe"
  /\ UNCHANGED <<request, session, proc, exitOk, changed, handle, lock, seen, monitored, overdue, hasty, crashes>>

\* _update_state writes READY whatever the row says by then.
MarkReady ==
  /\ startAt = "ready"
  /\ session' = [session EXCEPT !.state = "ready"]
  /\ startAt' = "observe"
  /\ UNCHANGED <<request, proc, exitOk, changed, handle, doing, lock, seen, monitored, overdue, hasty, crashes>>

-----------------------------------------------------------------------------
(* status: what it decides from the row, the handle and the process.          *)

\* Mutant: limits are only enforced for inherited sessions.
DecideWithoutLimits ==
  IF Alive THEN "idle" ELSE IF session.state \notin {"settled", "failed"} THEN "settle" ELSE "idle"

\* With the handle: limits cancel a live process, an exited one is settled.
DecideOwned ==
  IF Alive THEN IF overdue /\ ~session.cancelled THEN "cancel" ELSE "idle"
  ELSE IF session.state \notin {"settled", "failed"} THEN "settle" ELSE "idle"

\* Without it, after a restart, only the row and the recorded identity remain.
DecideInherited ==
  CASE session.state \notin ActiveStates -> "idle"
    [] session.state = "starting" -> "interrupt"
    [] session.state \in ActiveStates \ {"starting"} /\ (session.cancelled \/ overdue) -> "cancel"
    [] OTHER -> IF request.mode = "pty" THEN "lose" ELSE IF IdentityMatches THEN "idle" ELSE "doubt"

StatusBy(t) ==
  /\ doing[t] = "idle"
  /\ Does(t, IF handle THEN DecideOwned ELSE DecideInherited)
  /\ UNCHANGED <<request, session, proc, exitOk, changed, handle, lock, seen, overdue, crashes>>

\* start ends, and reconcile_all works, with a status and a monitor for a live
\* session.
Observe ==
  /\ startAt = "observe"
  /\ StatusBy("starter")
  /\ startAt' = "returned"
  /\ monitored' = (session.state \in {"running", "ready"} \/ monitored)
  /\ UNCHANGED hasty

MonitorPolls ==
  /\ monitored
  /\ IF session.state \in {"running", "ready"} THEN StatusBy("monitor") /\ UNCHANGED <<monitored, hasty>>
     ELSE /\ doing["monitor"] = "idle" /\ monitored' = FALSE
          /\ UNCHANGED <<request, session, proc, exitOk, changed, handle, doing, lock, seen, overdue, hasty, crashes>>
  /\ UNCHANGED startAt

\* The row is there, the handle is not: a status takes the launch for an interrupted one.
ClientStatus ==
  /\ startAt # "idle"
  /\ StatusBy("client")
  /\ hasty' = (hasty \/ startAt = "prepared")
  /\ UNCHANGED <<startAt, monitored>>

ClientCancels ==
  /\ startAt # "idle" /\ doing["client"] = "idle" /\ ~session.finished
  /\ Does("client", "cancel")
  /\ UNCHANGED <<request, session, proc, exitOk, changed, handle, startAt, lock, seen, monitored, overdue,
                 hasty, crashes>>

\* session.settle, the client's own request to settle.
ClientSettles ==
  /\ startAt # "idle" /\ doing["client"] = "idle" /\ ~session.finished
  /\ Does("client", "settle")
  /\ hasty' = (hasty \/ startAt = "prepared" \/ (Alive /\ ~handle))
  /\ UNCHANGED <<request, session, proc, exitOk, changed, handle, startAt, lock, seen, monitored, overdue,
                 crashes>>

\* write: input to a live PTY, with the effects the caller declares for it.
PtyWrite(declares) ==
  /\ request.mode = "pty" /\ handle /\ IdentityMatches
  /\ request.declares = "none" /\ declares # "none"
  /\ request' = [request EXCEPT !.declares = declares]
  /\ UNCHANGED <<session, proc, exitOk, changed, handle, startAt, doing, lock, seen, monitored,
                 overdue, hasty, crashes>>

-----------------------------------------------------------------------------
(* The operations a thread has decided on.                                    *)

\* _mark_start_interrupted, outside the lock, unless the session is finished.
MarkInterrupted(t) ==
  /\ doing[t] = "interrupt"
  /\ session' = IF session.finished THEN session ELSE [session EXCEPT !.state = "failed"]
  /\ Does(t, "settle")
  /\ UNCHANGED <<request, proc, exitOk, changed, handle, startAt, lock, seen, monitored, overdue, hasty, crashes>>

\* A PTY cannot be taken over, and a pid may belong to somebody else.
MarkLost(t) ==
  /\ doing[t] \in {"lose", "doubt"}
  /\ session' = [session EXCEPT !.state = IF doing[t] = "lose" THEN "lost" ELSE "uncertain"]
  /\ Does(t, "settle")
  /\ UNCHANGED <<request, proc, exitOk, changed, handle, startAt, lock, seen, monitored, overdue, hasty, crashes>>

CancelBegins(t) ==
  /\ doing[t] = "cancel" /\ lock = "free"
  /\ IF session.finished THEN Does(t, "idle") /\ UNCHANGED <<session, lock, hasty>>
     ELSE /\ session' = [session EXCEPT !.state = "cancelling", !.cancelled = TRUE]
          /\ lock' = t
          /\ Does(t, "signal")
          /\ hasty' = (hasty \/ startAt \in {"prepared", "spawned"})
  /\ UNCHANGED <<request, proc, exitOk, changed, handle, startAt, seen, monitored, overdue, crashes>>

\* Each configured signal in turn, to a group whose identity still matches.
Signals(t) ==
  /\ doing[t] = "signal"
  /\ \/ IdentityMatches /\ proc' = "exited" /\ exitOk' \in BOOLEAN
     \/ (~IdentityMatches \/ ~Kills) /\ UNCHANGED <<proc, exitOk>>
  /\ Does(t, "settle")
  /\ UNCHANGED <<request, session, changed, handle, startAt, lock, seen, monitored, overdue, hasty, crashes>>

\* _settle_locked reads the row and the workspace; nothing to do for a finished
\* session, nor while a process this daemon holds is alive.
SettleBegins(t) ==
  /\ doing[t] = "settle" /\ lock \in {"free", t}
  /\ IF session.finished \/ (handle /\ Alive)
     THEN Does(t, "idle") /\ lock' = "free" /\ UNCHANGED seen
     ELSE /\ Does(t, "settling") /\ lock' = t
          /\ seen' = [state |-> session.state, cancelled |-> session.cancelled, changed |-> changed,
                      declares |-> request.declares]
  /\ UNCHANGED <<request, session, proc, exitOk, changed, handle, startAt, monitored, overdue, hasty, crashes>>

\* _effect_settlement of a complete observation within the declared scope.
EffectSettlement(observed) ==
  CASE seen.declares = "none"  -> IF observed THEN "uncertain" ELSE "absent"
    [] seen.declares = "paths" -> IF observed THEN "completed" ELSE "absent"
    [] OTHER                   -> "uncertain"

Overridden == seen.state \in {"lost", "uncertain"}

\* Only a process this daemon holds has an exit code to compare.
ExitExpected == handle /\ exitOk

TerminalState(effect) ==
  CASE Overridden -> seen.state
    [] ~Overridden /\ effect = "uncertain" -> "uncertain"
    [] ~Overridden /\ effect # "uncertain" ->
         IF seen.cancelled \/ ExitExpected THEN "settled" ELSE "failed"

SettledEffect(effect) ==
  IF seen.state = "uncertain" \/ (seen.state = "lost" /\ seen.declares # "none") THEN "uncertain"
  ELSE effect

\* `observable` is FALSE when the spool or the workspace cannot be observed.
SettleWrites(t) ==
  /\ doing[t] = "settling"
  /\ \E observable \in BOOLEAN :
       LET effect == IF observable THEN EffectSettlement(seen.changed) ELSE "uncertain"
           state == TerminalState(effect)
       IN session' = [session EXCEPT !.state = state, !.finished = TRUE,
                        !.effect = SettledEffect(effect),
                        !.retryable = (~Overridden /\ state = "failed" /\ effect = "absent")]
  /\ Does(t, "idle") /\ lock' = "free"
  /\ UNCHANGED <<request, proc, exitOk, changed, handle, startAt, seen, monitored, overdue, hasty, crashes>>

-----------------------------------------------------------------------------
(* The process, the clock and the daemon's death.                             *)

ProcessWrites ==
  /\ proc = "running" /\ ~changed
  /\ changed' = TRUE
  /\ UNCHANGED <<request, session, proc, exitOk, handle, startAt, doing, lock, seen, monitored, overdue, hasty,
                 crashes>>

ProcessExits ==
  /\ proc = "running" /\ proc' = "exited" /\ exitOk' \in BOOLEAN
  /\ UNCHANGED <<request, session, changed, handle, startAt, doing, lock, seen, monitored, overdue, hasty, crashes>>

BecomesOverdue ==
  /\ session.state # "none" /\ ~overdue /\ overdue' = TRUE
  /\ UNCHANGED <<request, session, proc, exitOk, changed, handle, startAt, doing, lock, seen, monitored,
                 hasty, crashes>>

\* A launcher waiting at the gate sees its pipe close and exits; the target of
\* an open gate lives on.  The next daemon reconciles the active rows.
DaemonDies ==
  /\ crashes < MaxCrashes /\ startAt # "idle"
  /\ crashes' = crashes + 1
  /\ proc' = IF proc = "paused" THEN "exited" ELSE proc
  /\ handle' = FALSE /\ monitored' = FALSE /\ lock' = "free"
  /\ doing' = [t \in Threads |-> "idle"]
  /\ startAt' = IF session.state \in ActiveStates THEN "observe" ELSE "returned"
  /\ UNCHANGED <<request, session, exitOk, changed, seen, overdue, hasty>>

ThreadStep(t) ==
  MarkInterrupted(t) \/ MarkLost(t) \/ CancelBegins(t) \/ Signals(t) \/ SettleBegins(t)
    \/ SettleWrites(t)

StarterStep ==
  \/ StartSpawn \/ StartRecord \/ StartAborts \/ StartRelease \/ AwaitReadiness \/ MarkReady
  \/ Observe

SupervisorNext ==
  \/ StartPrepare \/ StarterStep
  \/ MonitorPolls \/ ClientStatus \/ ClientCancels \/ ClientSettles
  \/ \E declares \in {"paths", "other"} : PtyWrite(declares)
  \/ \E t \in Threads : ThreadStep(t)
  \/ ProcessWrites \/ ProcessExits \/ BecomesOverdue \/ DaemonDies

\* Threads of a live daemon run; nothing obliges the process, the clock, a client
\* or a crash to do anything.
SupervisorFairness ==
  /\ WF_supervisorVars(StarterStep) /\ WF_supervisorVars(MonitorPolls)
  /\ \A t \in Threads : WF_supervisorVars(ThreadStep(t))

SupervisorSpec == SupervisorInit /\ [][SupervisorNext]_supervisorVars /\ SupervisorFairness

-----------------------------------------------------------------------------
(* Properties.                                                                *)

\* A session is offered for retry only if nothing ran and nothing will: its process is gone
\* and the workspace is untouched.  This is what the gate is for, as long as no client meddles
\* with a launch that has not been recorded, or settles what a dead daemon left running.
RetryableSafe == session.retryable /\ ~hasty => ~Alive /\ ~changed

\* A session counts as completed only when this daemon saw the process end with
\* an expected exit code; what it inherits it never reports as a success.
CompletedWitnessed ==
  session.state = "settled" /\ ~session.cancelled => proc = "exited" /\ exitOk

\* Settlement happens once: later statuses, cancellations and settlements of other
\* threads leave the recorded effect, the retry decision and the request as they are.
SettledOnce ==
  [][session.finished =>
       /\ session'.finished /\ session'.effect = session.effect
       /\ session'.retryable = session.retryable
       /\ session'.cancelled = session.cancelled]_supervisorVars

\* A session whose process ended or went over a limit leaves the active states, or
\* is settled, across a restart of the daemon, as long as no cancellation overtakes the launch.
SessionSettles ==
  (session.state \in ActiveStates /\ (proc = "exited" \/ overdue))
    ~> (session.finished \/ session.state \notin ActiveStates \/ hasty)

\* A session settles, once, and what the settlement says of its process and of the
\* workspace is true.
SessionsSettle ==
  /\ [](SupervisorTypeOK /\ RetryableSafe /\ CompletedWitnessed)
  /\ SettledOnce
  /\ SessionSettles
=============================================================================
