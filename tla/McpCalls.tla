------------------------------ MODULE McpCalls -------------------------------
(* Outbound MCP calls: McpService and McpServiceRunner (mcp/service.py,        *)
(* mcp/runner.py), the call journal (mcp/repository.py) and the client's task  *)
(* protocol (mcp/sdk.py).  The runner has one worker thread, so one connect,   *)
(* call, resume or cancellation runs at a time; what interrupts it are its     *)
(* cancellation signal, the transport, the server and the daemon's death.      *)
EXTENDS Naturals, FiniteSets

CONSTANTS
  Calls,         \* call requests, each under its own idempotency key
  Repeatable,    \* those declared read-only or idempotent
  RemoteCalls,   \* those that allow a remote task
  Schemas,       \* what the server's discovery may describe
  MaxProgress,   \* max_progress_events_per_call
  MaxMcpFaults,  \* bound: transport losses and daemon deaths
  MaxConnects    \* bound: connection revisions

ASSUME McpAssumption ==
  /\ Repeatable \subseteq Calls /\ RemoteCalls \subseteq Calls
  /\ "unbound" \notin Schemas
  /\ MaxProgress \in Nat \ {0} /\ MaxMcpFaults \in Nat /\ MaxConnects \in Nat

VARIABLES
  connection, \* McpConnectionRow with the bound schema fingerprint
  offered,    \* the schema the server would describe now
  call,       \* McpCallRow: state, bound remote task, schema, whether it has a result
  progress,   \* progress events recorded per call
  remote,     \* the server's task for the call
  received,   \* how often the server received the call
  worker,     \* what the runner's thread does
  mcpSpent

mcpVars == <<connection, offered, call, progress, remote, received, worker, mcpSpent>>

FinalStates == {"completed", "failed", "cancelled", "lost", "uncertain"}
CallStates == {"none", "reserved", "dispatching", "running", "cancel_requested"} \cup FinalStates

\* _CALL_TRANSITIONS.
Transitions ==
  [s \in CallStates |->
     CASE s = "reserved" -> {"dispatching", "cancel_requested", "cancelled", "failed"}
       [] s = "dispatching" -> {"running", "cancel_requested", "completed", "failed", "lost", "uncertain"}
       [] s = "running" -> {"cancel_requested", "completed", "failed", "lost", "uncertain"}
       [] s = "cancel_requested" -> FinalStates
       [] OTHER -> {}]

Unoccupied == [at |-> "idle", call |-> "none", resumed |-> FALSE]

McpTypeOK ==
  /\ connection \in [state : {"none", "starting", "reconnecting", "ready", "degraded", "failed"},
                     schema : Schemas \cup {"unbound"}, revision : 0..MaxConnects]
  /\ offered \in Schemas
  /\ call \in [Calls -> [state : CallStates, task : BOOLEAN, schema : Schemas \cup {"unbound"}]]
  /\ progress \in [Calls -> 0..MaxProgress]
  /\ remote \in [Calls -> {"none", "working", "completed", "failed", "cancelled"}]
  /\ received \in [Calls -> 0..2]
  /\ worker.at \in {"idle", "connecting", "discovered", "reserved", "dispatching", "running", "sent",
                    "answered", "polling", "confirming"}
  /\ worker.call \in Calls \cup {"none"} /\ worker.resumed \in BOOLEAN
  /\ mcpSpent \in 0..MaxMcpFaults

McpInit ==
  /\ connection = [state |-> "none", schema |-> "unbound", revision |-> 0]
  /\ offered \in Schemas
  /\ call = [c \in Calls |-> [state |-> "none", task |-> FALSE, schema |-> "unbound"]]
  /\ progress = [c \in Calls |-> 0]
  /\ remote = [c \in Calls |-> "none"]
  /\ received = [c \in Calls |-> 0]
  /\ worker = Unoccupied
  /\ mcpSpent = 0

McpFault == mcpSpent < MaxMcpFaults /\ mcpSpent' = mcpSpent + 1
At(phase) == worker.at = phase
Move(phase) == worker' = [worker EXCEPT !.at = phase]
Current == worker.call

-----------------------------------------------------------------------------
(* connect: discovery against the schema bound first.                         *)

ConnectBegins ==
  /\ At("idle") /\ connection.revision < MaxConnects
  /\ connection' = [connection EXCEPT
       !.state = IF @ = "none" THEN "starting" ELSE "reconnecting", !.revision = @ + 1]
  /\ Move("connecting")
  /\ UNCHANGED <<offered, call, progress, remote, received, mcpSpent>>

\* replace_discovery: the fingerprint of the first discovery binds all later ones.
AcceptsDiscovery(schema) == connection.schema \in {"unbound", schema}

Discover ==
  /\ At("connecting")
  /\ IF AcceptsDiscovery(offered)
     THEN /\ connection' = [connection EXCEPT !.schema = offered]
          /\ Move("discovered")
     ELSE /\ connection' = [connection EXCEPT !.state = "degraded"]
          /\ worker' = Unoccupied
  /\ UNCHANGED <<offered, call, progress, remote, received, mcpSpent>>

ConnectFails ==
  /\ At("connecting") /\ McpFault
  /\ connection' = [connection EXCEPT
       !.state = IF connection.schema = "unbound" THEN "failed" ELSE "degraded"]
  /\ worker' = Unoccupied
  /\ UNCHANGED <<offered, call, progress, remote, received>>

ConnectEnds ==
  /\ At("discovered")
  /\ connection' = [connection EXCEPT !.state = "ready"]
  /\ worker' = Unoccupied
  /\ UNCHANGED <<offered, call, progress, remote, received, mcpSpent>>

ServerUpgrades ==
  /\ \E s \in Schemas \ {offered} : offered' = s
  /\ UNCHANGED <<connection, call, progress, remote, received, worker, mcpSpent>>

-----------------------------------------------------------------------------
(* The journal.                                                               *)

\* reserve_call: an idempotency key is reserved once; later requests get the
\* stored result, or are told that the call is in progress.
Fresh(c) == call[c].state = "none"

\* complete_call for the state the caller has in mind: refused when the
\* transition is not in the table.
Complete(c, state) ==
  IF state \in Transitions[call[c].state]
  THEN call' = [call EXCEPT ![c].state = state]
  ELSE UNCHANGED call

\* Mutant: an interrupted call is lost, whatever it does.
InterruptedLost(c, cancelled) == IF cancelled THEN "cancelled" ELSE "lost"

\* _complete_interrupted: a call whose repetition could do harm is uncertain.
Interrupted(c, cancelled) ==
  IF c \notin Repeatable THEN "uncertain" ELSE IF cancelled THEN "cancelled" ELSE "lost"

Reserve(c) ==
  /\ At("idle") /\ connection.state = "ready" /\ Fresh(c)
  /\ call' = [call EXCEPT ![c] = [state |-> "reserved", task |-> FALSE, schema |-> connection.schema]]
  /\ worker' = [at |-> "reserved", call |-> c, resumed |-> FALSE]
  /\ UNCHANGED <<connection, offered, progress, remote, received, mcpSpent>>

DeadlineExpired ==
  /\ At("reserved")
  /\ Complete(Current, "failed")
  /\ worker' = Unoccupied
  /\ UNCHANGED <<connection, offered, progress, remote, received, mcpSpent>>

\* set_call_state DISPATCHING, then RUNNING; a cancellation recorded meanwhile
\* makes either a refused transition, which ends the call as interrupted.
Advance(from, to) ==
  /\ At(from)
  /\ IF to \in Transitions[call[Current].state]
     THEN call' = [call EXCEPT ![Current].state = to] /\ Move(to)
     ELSE Complete(Current, Interrupted(Current, FALSE)) /\ worker' = Unoccupied
  /\ UNCHANGED <<connection, offered, progress, remote, received, mcpSpent>>

-----------------------------------------------------------------------------
(* The call on the wire.                                                      *)

\* The server receives the request; a remote call starts a task there.
Send ==
  /\ At("running")
  /\ received' = [received EXCEPT ![Current] = @ + 1]
  /\ remote' = IF Current \in RemoteCalls THEN [remote EXCEPT ![Current] = "working"] ELSE remote
  /\ Move("sent")
  /\ UNCHANGED <<connection, offered, call, progress, mcpSpent>>

\* An immediate result, valid or not; validation failures are failures of the call.
Answer ==
  /\ At("sent") /\ Current \notin RemoteCalls
  /\ Complete(Current, "completed") \/ Complete(Current, "failed")
  /\ worker' = Unoccupied
  /\ UNCHANGED <<connection, offered, progress, remote, received, mcpSpent>>

\* CreateTaskResult arrives and its identity is bound to the call.
AttachTask ==
  /\ At("sent") /\ Current \in RemoteCalls
  /\ call' = [call EXCEPT ![Current].task = TRUE]
  /\ Move("polling")
  /\ UNCHANGED <<connection, offered, progress, remote, received, mcpSpent>>

\* append_progress refuses the event past max_progress_events_per_call.
ProgressRoom == progress[Current] < MaxProgress

\* One status: recorded as progress while the bound allows; past it the call ends
\* in an error and stays as it is.
Poll ==
  /\ At("polling")
  /\ IF ProgressRoom
     THEN /\ progress' = [progress EXCEPT ![Current] = @ + 1]
          /\ IF remote[Current] = "working" THEN UNCHANGED <<call, worker>>
             ELSE Complete(Current, remote[Current]) /\ worker' = Unoccupied
     ELSE worker' = Unoccupied /\ UNCHANGED <<call, progress>>
  /\ UNCHANGED <<connection, offered, remote, received, mcpSpent>>

\* The completed result, or a status message, fails validation or inspection.
ResultRejected ==
  /\ At("polling")
  /\ Complete(Current, "failed")
  /\ worker' = Unoccupied
  /\ UNCHANGED <<connection, offered, progress, remote, received, mcpSpent>>

TaskEnds(c) ==
  /\ remote[c] = "working"
  /\ \E s \in {"completed", "failed"} : remote' = [remote EXCEPT ![c] = s]
  /\ UNCHANGED <<connection, offered, call, progress, received, worker, mcpSpent>>

\* The transport ends: a bound remote task stays recoverable, any other call is
\* interrupted, even if the server had received it.
TransportLost ==
  /\ worker.at \in {"running", "sent", "polling", "confirming"} /\ McpFault
  /\ IF call[Current].task THEN UNCHANGED call ELSE Complete(Current, Interrupted(Current, FALSE))
  /\ worker' = Unoccupied
  /\ UNCHANGED <<connection, offered, progress, remote, received>>

-----------------------------------------------------------------------------
(* Cancellation and resumption.                                               *)

\* The monitor sees the signal: CANCEL_REQUESTED, then the task is cancelled.  With
\* a remote task the server is asked; without, the call is interrupted.
CancelSignal ==
  /\ worker.at \in {"reserved", "dispatching", "running", "sent", "polling"} /\ ~worker.resumed
  /\ "cancel_requested" \in Transitions[call[Current].state]
  /\ IF At("polling")
     THEN call' = [call EXCEPT ![Current].state = "cancel_requested"] /\ Move("confirming")
     ELSE call' = [call EXCEPT ![Current].state = Interrupted(Current, TRUE)] /\ worker' = Unoccupied
  /\ UNCHANGED <<connection, offered, progress, remote, received, mcpSpent>>

\* tasks/cancel: confirmed for a working task, refused for one that has ended.
ConfirmCancel ==
  /\ At("confirming")
  /\ \/ remote[Current] = "working" /\ remote' = [remote EXCEPT ![Current] = "cancelled"]
        /\ Complete(Current, "cancelled")
     \/ UNCHANGED <<remote, call>>
  /\ worker' = Unoccupied
  /\ UNCHANGED <<connection, offered, progress, received, mcpSpent>>

Recoverable(c) == call[c].task /\ call[c].state \notin FinalStates

Resume(c) ==
  /\ At("idle") /\ connection.state = "ready" /\ Recoverable(c)
  /\ worker' = [at |-> "polling", call |-> c, resumed |-> TRUE]
  /\ UNCHANGED <<connection, offered, call, progress, remote, received, mcpSpent>>

\* cancel_remote_task, a request of its own; a second one is a refused transition.
CancelRemote(c) ==
  /\ At("idle") /\ connection.state = "ready" /\ Recoverable(c)
  /\ "cancel_requested" \in Transitions[call[c].state]
  /\ call' = [call EXCEPT ![c].state = "cancel_requested"]
  /\ worker' = [at |-> "confirming", call |-> c, resumed |-> TRUE]
  /\ UNCHANGED <<connection, offered, progress, remote, received, mcpSpent>>

\* The daemon dies; reconcile_incomplete settles what was dispatched and has no
\* remote task.
DaemonRestart ==
  /\ McpFault
  /\ call' = [c \in Calls |->
       IF call[c].state \in {"dispatching", "running", "cancel_requested"} /\ ~call[c].task
       THEN [call[c] EXCEPT !.state = Interrupted(c, FALSE)] ELSE call[c]]
  /\ worker' = Unoccupied
  /\ UNCHANGED <<connection, offered, progress, remote, received>>

McpNext ==
  \/ ConnectBegins \/ Discover \/ ConnectFails \/ ConnectEnds \/ ServerUpgrades
  \/ \E c \in Calls : Reserve(c) \/ TaskEnds(c) \/ Resume(c) \/ CancelRemote(c)
  \/ DeadlineExpired \/ Advance("reserved", "dispatching") \/ Advance("dispatching", "running")
  \/ Send \/ Answer \/ AttachTask \/ Poll \/ ResultRejected \/ TransportLost
  \/ CancelSignal \/ ConfirmCancel \/ DaemonRestart

McpSpec == McpInit /\ [][McpNext]_mcpVars

-----------------------------------------------------------------------------
(* Properties.                                                                *)

\* Retries, resumptions and restarts never send a call to the server a second time.
SentOnce == \A c \in Calls : received[c] <= 1

\* A call that could do harm when repeated is reported lost or cancelled only if the
\* server never received it, or confirmed that its task was cancelled.
LostIsHarmless ==
  \A c \in Calls \ Repeatable :
    call[c].state \in {"lost", "cancelled"} => received[c] = 0 \/ remote[c] = "cancelled"

\* While the server works on a task bound to a call, the call stays recoverable:
\* nothing but a rejected message settles it.
TaskNotForgotten ==
  \A c \in Calls :
    call[c].task /\ remote[c] = "working" => Recoverable(c) \/ call[c].state = "failed"

\* Across reconnections, upgrades of the server and interrupted discoveries, every
\* call is made under the schema that was bound first.
SchemaPinned ==
  \A c, d \in Calls : call[c].state # "none" /\ call[d].state # "none" => call[c].schema = call[d].schema

\* A call reaches the server at most once, under the schema bound first, and is given up
\* only when nothing is left to be found out.
CallsSettled ==
  /\ McpTypeOK
  /\ SentOnce
  /\ LostIsHarmless
  /\ TaskNotForgotten
  /\ SchemaPinned
=============================================================================
