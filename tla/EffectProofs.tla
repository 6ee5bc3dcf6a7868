---------------------------- MODULE EffectProofs -----------------------------
(***************************************************************************)
(* What acts outside the daemon, for any calls, servers, sessions and      *)
(* actions: an MCP call reaches its server at most once, under the schema  *)
(* bound first, and is given up only when nothing is left to be found out; *)
(* a page is acted on at most once per key and observation; a worker and   *)
(* the daemon agree on one identity through every interrupted rotation; a  *)
(* worker's completion reports what was uploaded by the one run it names;  *)
(* a session settles once and what its settlement says is true.            *)
(***************************************************************************)
EXTENDS Supervisor, McpCalls, BrowserSessions, WorkerIdentity, WorkerDelivery,
        FiniteSetTheorems, TLAPS

-----------------------------------------------------------------------------
(* Outbound MCP calls. *)

WorkerPhases ==
  {"idle", "connecting", "discovered", "reserved", "dispatching", "running", "sent", "answered",
   "polling", "confirming"}

CallRow == [state : CallStates, task : BOOLEAN, schema : Schemas \cup {"unbound"}]

McpTypes ==
  /\ connection \in [state : {"none", "starting", "reconnecting", "ready", "degraded", "failed"},
                     schema : Schemas \cup {"unbound"}, revision : 0..MaxConnects]
  /\ offered \in Schemas
  /\ call \in [Calls -> CallRow]
  /\ progress \in [Calls -> 0..MaxProgress]
  /\ remote \in [Calls -> {"none", "working", "completed", "failed", "cancelled"}]
  /\ received \in [Calls -> 0..1]
  /\ worker \in [at : WorkerPhases, call : Calls \cup {"none"}, resumed : BOOLEAN]
  /\ mcpSpent \in 0..MaxMcpFaults

\* What the journal, the server and the bound schema agree on for a call.
CallAgrees(c) ==
  /\ call[c].state = "none" => received[c] = 0 /\ ~call[c].task
  /\ c \notin Repeatable /\ call[c].state \in {"lost", "cancelled"}
       => received[c] = 0 \/ remote[c] = "cancelled"
  /\ call[c].task /\ remote[c] = "working" => call[c].state \notin FinalStates \ {"failed"}
  /\ call[c].state # "none" => call[c].schema = connection.schema /\ connection.schema # "unbound"

\* The row of the call the worker is about is where the worker is.
WorkerAgrees ==
  /\ worker.at \in {"reserved", "dispatching", "running", "sent"} =>
       /\ worker.call \in Calls
       /\ call[worker.call].state = IF worker.at = "sent" THEN "running" ELSE worker.at
       /\ ~call[worker.call].task
       /\ worker.at # "sent" => received[worker.call] = 0
  /\ worker.at \in {"polling", "confirming"} =>
       worker.call \in Calls /\ call[worker.call].task /\ call[worker.call].state # "none"
  /\ connection.state = "ready" \/ worker.at = "discovered" => connection.schema # "unbound"

McpInv ==
  /\ McpTypes
  /\ \A c \in Calls : CallAgrees(c)
  /\ WorkerAgrees

\* Where the journal may take a call: never back to where it was not reserved.
LEMMA TransitionsLead ==
  ASSUME NEW s \in CallStates
  PROVE  /\ Transitions[s] \subseteq CallStates \ {"none", "reserved"}
         /\ s = "none" => Transitions[s] = {}
BY DEF Transitions, CallStates, FinalStates

\* The states of an interrupted call.
LEMMA InterruptedStates ==
  ASSUME NEW c \in Calls, NEW cancelled \in BOOLEAN
  PROVE  /\ Interrupted(c, cancelled) \in {"uncertain", "cancelled", "lost"}
         /\ c \notin Repeatable => Interrupted(c, cancelled) = "uncertain"
BY DEF Interrupted

\* What the completion of a call does to its row.
LEMMA CompleteDoes ==
  ASSUME McpTypes, NEW c \in Calls, NEW s, Complete(c, s)
  PROVE  \/ UNCHANGED call
         \/ /\ call' = [call EXCEPT ![c].state = s] /\ s \in CallStates \ {"none", "reserved"}
            /\ call[c].state # "none"
<1>1. call[c].state \in CallStates
  BY DEF McpTypes, CallRow
<1> QED BY <1>1, TransitionsLead DEF Complete

\* Nothing is connected and nothing was called at first.
LEMMA McpInitially == McpInit => McpInv
<1> USE McpAssumption
<1> SUFFICES ASSUME McpInit PROVE McpInv
  OBVIOUS
<1>1. McpTypes
  BY DEF McpInit, McpTypes, CallRow, CallStates, FinalStates, Unoccupied, WorkerPhases
<1>2. \A c \in Calls : CallAgrees(c)
  BY DEF McpInit, CallAgrees
<1>3. WorkerAgrees
  BY DEF McpInit, WorkerAgrees, Unoccupied
<1> QED BY <1>1, <1>2, <1>3 DEF McpInv

\* Connections, calls, cancellations, lost transports and restarts keep the invariant.
LEMMA McpStep == McpInv /\ [McpNext]_mcpVars => McpInv'
<1> USE McpAssumption
<1> SUFFICES ASSUME McpInv, [McpNext]_mcpVars PROVE McpInv'
  OBVIOUS
<1>t. /\ connection \in [state : {"none", "starting", "reconnecting", "ready", "degraded", "failed"},
                         schema : Schemas \cup {"unbound"}, revision : 0..MaxConnects]
      /\ offered \in Schemas /\ call \in [Calls -> CallRow]
      /\ progress \in [Calls -> 0..MaxProgress]
      /\ remote \in [Calls -> {"none", "working", "completed", "failed", "cancelled"}]
      /\ received \in [Calls -> 0..1]
      /\ worker \in [at : WorkerPhases, call : Calls \cup {"none"}, resumed : BOOLEAN]
      /\ mcpSpent \in 0..MaxMcpFaults /\ McpTypes
  BY DEF McpInv, McpTypes
<1>i. (\A c \in Calls : CallAgrees(c)) /\ WorkerAgrees
  BY DEF McpInv
<1>f. McpFault => mcpSpent' \in 0..MaxMcpFaults
  BY <1>t DEF McpFault
<1>z. Unoccupied \in [at : WorkerPhases, call : Calls \cup {"none"}, resumed : BOOLEAN]
      /\ Unoccupied.at = "idle"
  BY DEF Unoccupied, WorkerPhases
\* The row of a call in another state.
<1>w. ASSUME NEW c \in Calls, NEW s \in CallStates, call' = [call EXCEPT ![c].state = s]
      PROVE  /\ call' \in [Calls -> CallRow]
             /\ call'[c].state = s /\ call'[c].task = call[c].task /\ call'[c].schema = call[c].schema
             /\ \A d \in Calls : d # c => call'[d] = call[d]
  BY <1>w, <1>t DEF CallRow
\* A connection moves while no call is under way.
<1>c. ASSUME worker.at \in {"idle", "connecting", "discovered"},
             UNCHANGED <<call, progress, remote, received>>, offered' \in Schemas,
             connection' \in [state : {"none", "starting", "reconnecting", "ready", "degraded", "failed"},
                              schema : Schemas \cup {"unbound"}, revision : 0..MaxConnects],
             connection.schema # "unbound" => connection'.schema = connection.schema,
             worker' \in [at : WorkerPhases, call : Calls \cup {"none"}, resumed : BOOLEAN],
             worker'.at \in {"idle", "connecting", "discovered"},
             connection'.state = "ready" \/ worker'.at = "discovered" => connection'.schema # "unbound",
             mcpSpent' \in 0..MaxMcpFaults
      PROVE  McpInv'
  <2>1. McpTypes'
    BY <1>c, <1>t DEF McpTypes
  <2>2. \A c \in Calls : CallAgrees(c)'
    BY <1>c, <1>i DEF CallAgrees
  <2>3. WorkerAgrees'
    BY <1>c DEF WorkerAgrees
  <2> QED BY <2>1, <2>2, <2>3 DEF McpInv
\* The worker leaves a call, whose state may be settled.
<1>s. ASSUME NEW c \in Calls, NEW s \in CallStates \ {"none"}, call[c].state # "none",
             call' = call \/ call' = [call EXCEPT ![c].state = s],
             c \notin Repeatable /\ s \in {"lost", "cancelled"}
               => received[c] = 0 \/ remote'[c] = "cancelled",
             call[c].task /\ remote'[c] = "working" => s \notin FinalStates \ {"failed"},
             worker' = Unoccupied, UNCHANGED <<connection, offered, received>>,
             remote' = remote \/ (remote[c] = "working" /\ remote' = [remote EXCEPT ![c] = "cancelled"]),
             progress' \in [Calls -> 0..MaxProgress], mcpSpent' \in 0..MaxMcpFaults
      PROVE  McpInv'
  <2>1. remote' \in [Calls -> {"none", "working", "completed", "failed", "cancelled"}]
        /\ (\A d \in Calls : d # c => remote'[d] = remote[d])
        /\ (remote'[c] = remote[c] \/ remote'[c] = "cancelled")
    BY <1>s, <1>t
  <2>2. call' \in [Calls -> CallRow] /\ (\A d \in Calls : d # c => call'[d] = call[d])
        /\ call'[c].state \in {call[c].state, s} /\ call'[c].task = call[c].task
        /\ call'[c].schema = call[c].schema
    BY <1>s, <1>w, <1>t
  <2>3. McpTypes'
    BY <1>s, <1>t, <1>z, <2>1, <2>2 DEF McpTypes
  <2>4. CallAgrees(c)'
    BY <1>s, <1>i, <2>1, <2>2 DEF CallAgrees
  <2>5. ASSUME NEW d \in Calls, d # c PROVE CallAgrees(d)'
    BY <1>s, <1>i, <2>1, <2>2, <2>5 DEF CallAgrees
  <2>6. WorkerAgrees'
    BY <1>s, <1>i, <1>z DEF WorkerAgrees
  <2> QED BY <2>3, <2>4, <2>5, <2>6 DEF McpInv
\* The same for a call ended through the journal's table.
<1>j. ASSUME NEW c \in Calls, NEW s, Complete(c, s), call[c].state # "none",
             c \notin Repeatable /\ s \in {"lost", "cancelled"}
               => received[c] = 0 \/ remote'[c] = "cancelled",
             call[c].task /\ remote'[c] = "working" => s \notin FinalStates \ {"failed"},
             worker' = Unoccupied, UNCHANGED <<connection, offered, received>>,
             remote' = remote \/ (remote[c] = "working" /\ remote' = [remote EXCEPT ![c] = "cancelled"]),
             progress' \in [Calls -> 0..MaxProgress], mcpSpent' \in 0..MaxMcpFaults
      PROVE  McpInv'
  <2>1. CASE UNCHANGED call
    <3>1. "failed" \in CallStates \ {"none"}
      BY DEF CallStates, FinalStates
    <3> QED BY <1>j, <2>1, <3>1, <1>s
  <2>2. CASE call' = [call EXCEPT ![c].state = s] /\ s \in CallStates \ {"none", "reserved"}
    BY <1>j, <2>2, <1>s
  <2> QED BY <1>j, <1>t, <2>1, <2>2, CompleteDoes
\* The worker goes on with its call.
<1>g. ASSUME NEW c \in Calls, c = worker.call, UNCHANGED <<connection, offered, mcpSpent>>,
             call' \in [Calls -> CallRow], \A d \in Calls : d # c => call'[d] = call[d],
             remote' \in [Calls -> {"none", "working", "completed", "failed", "cancelled"}],
             \A d \in Calls : d # c => remote'[d] = remote[d],
             received' \in [Calls -> 0..1], \A d \in Calls : d # c => received'[d] = received[d],
             progress' \in [Calls -> 0..MaxProgress],
             worker' \in [at : WorkerPhases, call : Calls \cup {"none"}, resumed : BOOLEAN],
             CallAgrees(c)', WorkerAgrees'
      PROVE  McpInv'
  <2>2. McpTypes'
    BY <1>g, <1>t DEF McpTypes
  <2>3. ASSUME NEW d \in Calls, d # c PROVE CallAgrees(d)'
    BY <1>g, <1>i, <2>3 DEF CallAgrees
  <2> QED BY <1>g, <2>2, <2>3 DEF McpInv
\* What holds of the call the worker is about.
<1>a. ASSUME worker.at \in {"reserved", "dispatching", "running", "sent"}
      PROVE  /\ worker.call \in Calls /\ ~call[worker.call].task
             /\ call[worker.call].state = IF worker.at = "sent" THEN "running" ELSE worker.at
             /\ call[worker.call].state # "none"
             /\ worker.at # "sent" => received[worker.call] = 0
  BY <1>a, <1>i DEF WorkerAgrees
<1>b. ASSUME worker.at \in {"polling", "confirming"}
      PROVE  worker.call \in Calls /\ call[worker.call].task /\ call[worker.call].state # "none"
  BY <1>b, <1>i DEF WorkerAgrees
<1>m. ASSUME NEW at \in WorkerPhases, Move(at)
      PROVE  /\ worker'.at = at /\ worker'.call = worker.call
             /\ worker' \in [at : WorkerPhases, call : Calls \cup {"none"}, resumed : BOOLEAN]
  BY <1>m, <1>t DEF Move
<1>1. CASE ConnectBegins
  <2>1. /\ worker.at = "idle" /\ UNCHANGED <<offered, call, progress, remote, received, mcpSpent>>
        /\ connection.revision < MaxConnects
        /\ connection' = [connection EXCEPT !.state = IF @ = "none" THEN "starting" ELSE "reconnecting",
                                            !.revision = @ + 1]
        /\ worker' = [worker EXCEPT !.at = "connecting"]
    BY <1>1 DEF ConnectBegins, At, Move
  <2>2. connection.revision + 1 \in 0..MaxConnects
    BY <2>1, <1>t
  <2>3. /\ connection' \in [state : {"none", "starting", "reconnecting", "ready", "degraded", "failed"},
                            schema : Schemas \cup {"unbound"}, revision : 0..MaxConnects]
        /\ connection'.schema = connection.schema
        /\ connection'.state \in {"starting", "reconnecting"}
    BY <2>1, <2>2, <1>t
  <2>4. worker' \in [at : WorkerPhases, call : Calls \cup {"none"}, resumed : BOOLEAN]
        /\ worker'.at = "connecting"
    BY <2>1, <1>t DEF WorkerPhases
  <2> QED BY <2>1, <2>3, <2>4, <1>t, <1>c
<1>2. CASE Discover \/ ConnectFails \/ ConnectEnds
  <2>1. /\ worker.at \in {"connecting", "discovered"} /\ UNCHANGED <<offered, call, progress, remote, received>>
        /\ mcpSpent' \in 0..MaxMcpFaults
    BY <1>2, <1>t, <1>f DEF Discover, ConnectFails, ConnectEnds, At
  <2>2. worker' \in [at : WorkerPhases, call : Calls \cup {"none"}, resumed : BOOLEAN]
        /\ worker'.at \in {"idle", "discovered"}
    BY <1>2, <1>t, <1>z DEF Discover, ConnectFails, ConnectEnds, Move, WorkerPhases
  <2>3. CASE Discover /\ AcceptsDiscovery(offered)
    <3>1. connection' = [connection EXCEPT !.schema = offered]
      BY <2>3 DEF Discover
    <3>2. /\ connection' \in [state : {"none", "starting", "reconnecting", "ready", "degraded", "failed"},
                              schema : Schemas \cup {"unbound"}, revision : 0..MaxConnects]
          /\ connection'.schema = offered
      BY <3>1, <1>t
    <3>3. connection.schema # "unbound" => connection.schema = offered
      BY <2>3 DEF AcceptsDiscovery
    <3> QED BY <2>1, <2>2, <3>2, <3>3, <1>t, <1>c
  <2>4. CASE ~(Discover /\ AcceptsDiscovery(offered))
    <3>1. PICK state \in {"degraded", "failed", "ready"} :
            /\ connection' = [connection EXCEPT !.state = state] /\ worker' = Unoccupied
            /\ state = "ready" => worker.at = "discovered"
      BY <1>2, <2>4 DEF Discover, ConnectFails, ConnectEnds, At
    <3>2. /\ connection' \in [state : {"none", "starting", "reconnecting", "ready", "degraded", "failed"},
                              schema : Schemas \cup {"unbound"}, revision : 0..MaxConnects]
          /\ connection'.schema = connection.schema /\ connection'.state = state
      BY <3>1, <1>t
    <3>3. worker.at = "discovered" => connection.schema # "unbound"
      BY <1>i DEF WorkerAgrees
    <3> QED BY <2>1, <2>2, <3>1, <3>2, <3>3, <1>t, <1>z, <1>c
  <2> QED BY <2>3, <2>4
<1>3. CASE ServerUpgrades
  <2>1. UNCHANGED <<connection, call, progress, remote, received, worker, mcpSpent>> /\ offered' \in Schemas
    BY <1>3 DEF ServerUpgrades
  <2> QED BY <2>1, <1>t, <1>i DEF McpInv, McpTypes, CallAgrees, WorkerAgrees
<1>4. ASSUME NEW c \in Calls, Reserve(c) PROVE McpInv'
  <2> DEFINE row == [state |-> "reserved", task |-> FALSE, schema |-> connection.schema]
  <2>1. /\ connection.state = "ready" /\ call[c].state = "none" /\ call' = [call EXCEPT ![c] = row]
        /\ worker' = [at |-> "reserved", call |-> c, resumed |-> FALSE]
        /\ UNCHANGED <<connection, offered, progress, remote, received, mcpSpent>>
    BY <1>4 DEF Reserve, Fresh
  <2>2. row \in CallRow /\ row.state = "reserved" /\ row.task = FALSE
        /\ row.schema = connection.schema
    BY <1>t DEF CallRow, CallStates
  <2>3. connection.schema # "unbound" /\ received[c] = 0
    BY <2>1, <1>i DEF WorkerAgrees, CallAgrees
  <2> HIDE DEF row
  <2>4. call' \in [Calls -> CallRow] /\ call'[c] = row /\ \A d \in Calls : d # c => call'[d] = call[d]
    BY <2>1, <2>2, <1>t
  <2>5. McpTypes'
    BY <2>1, <2>4, <1>t DEF McpTypes, WorkerPhases
  <2>6. \A d \in Calls : CallAgrees(d)'
    BY <2>1, <2>2, <2>3, <2>4, <1>i DEF CallAgrees, FinalStates
  <2>7. WorkerAgrees'
    BY <2>1, <2>2, <2>3, <2>4 DEF WorkerAgrees
  <2> QED BY <2>5, <2>6, <2>7 DEF McpInv
<1>5. CASE DeadlineExpired
  <2>1. worker.at = "reserved"
    BY <1>5 DEF DeadlineExpired, At
  <2> QED BY <1>5, <2>1, <1>t, <1>a, <1>j DEF DeadlineExpired, Current
<1>6. ASSUME NEW from \in {"reserved", "dispatching"}, NEW to \in {"dispatching", "running"}, Advance(from, to)
      PROVE  McpInv'
  <2>1. worker.at = from /\ UNCHANGED <<connection, offered, progress, remote, received, mcpSpent>>
    BY <1>6 DEF Advance, At
  <2>2. PICK c \in Calls : c = worker.call /\ ~call[c].task /\ call[c].state # "none" /\ received[c] = 0
    BY <2>1, <1>a
  <2>3. CASE to \in Transitions[call[c].state]
    <3>1. call' = [call EXCEPT ![c].state = to] /\ Move(to)
      BY <1>6, <2>2, <2>3 DEF Advance, Current
    <3>2. /\ call' \in [Calls -> CallRow]
          /\ call'[c].state = to /\ call'[c].task = call[c].task /\ call'[c].schema = call[c].schema
          /\ \A d \in Calls : d # c => call'[d] = call[d]
      BY <3>1, <1>w DEF CallStates
    <3>3. CallAgrees(c)'
      BY <2>1, <2>2, <3>2, <1>i DEF CallAgrees, FinalStates
    <3>4. /\ worker'.at = to /\ worker'.call = c
          /\ worker' \in [at : WorkerPhases, call : Calls \cup {"none"}, resumed : BOOLEAN]
      BY <2>2, <3>1, <1>m DEF WorkerPhases
    <3>5. WorkerAgrees'
      BY <2>1, <2>2, <3>2, <3>4, <1>i DEF WorkerAgrees
    <3> QED BY <2>1, <2>2, <3>2, <3>3, <3>4, <3>5, <1>t, <1>g
  <2>4. CASE to \notin Transitions[call[c].state]
    <3>1. Complete(c, Interrupted(c, FALSE)) /\ worker' = Unoccupied
      BY <1>6, <2>2, <2>4 DEF Advance, Current
    <3> QED BY <2>1, <2>2, <3>1, <1>t, <1>j
  <2> QED BY <2>3, <2>4
<1>7. CASE Send
  <2>2. PICK c \in Calls : c = worker.call /\ ~call[c].task /\ call[c].state = "running" /\ received[c] = 0
    BY <1>7, <1>a DEF Send, At
  <2>1. /\ worker.at = "running" /\ UNCHANGED <<connection, offered, call, progress, mcpSpent>>
        /\ received' = [received EXCEPT ![c] = @ + 1] /\ Move("sent")
        /\ remote' = IF c \in RemoteCalls THEN [remote EXCEPT ![c] = "working"] ELSE remote
    BY <1>7, <2>2 DEF Send, At, Current
  <2>3. /\ worker'.at = "sent" /\ worker'.call = c
        /\ worker' \in [at : WorkerPhases, call : Calls \cup {"none"}, resumed : BOOLEAN]
    BY <2>1, <2>2, <1>m DEF WorkerPhases
  <2>4. received' \in [Calls -> 0..1] /\ received'[c] = 1 /\ \A d \in Calls : d # c => received'[d] = received[d]
    BY <2>1, <2>2, <1>t
  <2>5. remote' \in [Calls -> {"none", "working", "completed", "failed", "cancelled"}]
        /\ \A d \in Calls : d # c => remote'[d] = remote[d]
    BY <2>1, <1>t
  <2>7. CallAgrees(c)'
    BY <2>1, <2>2, <2>4, <1>i DEF CallAgrees
  <2>8. WorkerAgrees'
    BY <2>1, <2>2, <2>3, <1>i DEF WorkerAgrees
  <2> QED BY <2>1, <2>2, <2>3, <2>4, <2>5, <2>7, <2>8, <1>t, <1>g
<1>8. CASE Answer
  <2>1. worker.at = "sent" /\ worker' = Unoccupied
        /\ UNCHANGED <<connection, offered, progress, remote, received, mcpSpent>>
    BY <1>8 DEF Answer, At
  <2>2. PICK s \in {"completed", "failed"} : Complete(worker.call, s)
    BY <1>8 DEF Answer, Current
  <2> QED BY <2>1, <2>2, <1>t, <1>a, <1>j
<1>9. CASE AttachTask
  <2>2. PICK c \in Calls : c = worker.call /\ call[c].state = "running"
    BY <1>9, <1>a DEF AttachTask, At
  <2>1. /\ worker.at = "sent" /\ UNCHANGED <<connection, offered, progress, remote, received, mcpSpent>>
        /\ call' = [call EXCEPT ![c].task = TRUE] /\ Move("polling")
    BY <1>9, <2>2 DEF AttachTask, At, Current
  <2>3. /\ worker'.at = "polling" /\ worker'.call = c
        /\ worker' \in [at : WorkerPhases, call : Calls \cup {"none"}, resumed : BOOLEAN]
    BY <2>1, <2>2, <1>m DEF WorkerPhases
  <2>4. /\ call' \in [Calls -> CallRow]
        /\ call'[c].state = call[c].state /\ call'[c].task = TRUE /\ call'[c].schema = call[c].schema
        /\ \A d \in Calls : d # c => call'[d] = call[d]
    <3>1. PICK row \in CallRow : row = call[c]
      BY <1>t
    <3>2. /\ [row EXCEPT !.task = TRUE] \in CallRow /\ [row EXCEPT !.task = TRUE].task = TRUE
          /\ [row EXCEPT !.task = TRUE].state = row.state /\ [row EXCEPT !.task = TRUE].schema = row.schema
      BY DEF CallRow
    <3>3. call' = [call EXCEPT ![c] = [row EXCEPT !.task = TRUE]]
      BY <2>1, <3>1, <1>t
    <3> QED BY <3>1, <3>2, <3>3, <1>t
  <2>5. CallAgrees(c)'
    BY <2>1, <2>2, <2>4, <1>i DEF CallAgrees, FinalStates
  <2>6. WorkerAgrees'
    BY <2>1, <2>2, <2>3, <2>4, <1>i DEF WorkerAgrees
  <2> QED BY <2>1, <2>2, <2>3, <2>4, <2>5, <2>6, <1>t, <1>g
<1>10. CASE Poll
  <2> DEFINE c == worker.call
  <2>1. worker.at = "polling" /\ UNCHANGED <<connection, offered, remote, received, mcpSpent>>
    BY <1>10 DEF Poll, At
  <2>2. c \in Calls /\ call[c].task /\ call[c].state # "none"
    BY <2>1, <1>b
  <2>3. CASE ProgressRoom
    <3>1. progress' = [progress EXCEPT ![c] = @ + 1]
      BY <1>10, <2>3 DEF Poll, Current
    <3>2. progress' \in [Calls -> 0..MaxProgress]
      BY <2>2, <2>3, <3>1, <1>t DEF ProgressRoom, Current
    <3>3. CASE remote[c] = "working"
      <4>1. UNCHANGED <<call, worker>>
        BY <1>10, <2>3, <3>3 DEF Poll, Current
      <4> QED BY <2>1, <3>2, <4>1, <1>t, <1>i DEF McpInv, McpTypes, CallAgrees, WorkerAgrees
    <3>4. CASE remote[c] # "working"
      <4>1. Complete(c, remote[c]) /\ worker' = Unoccupied
        BY <1>10, <2>3, <3>4 DEF Poll, Current
      <4>2. remote'[c] = remote[c] /\ (remote[c] = "lost" => FALSE)
        BY <2>1, <2>2, <1>t
      <4> HIDE DEF c
      <4> QED BY <2>1, <2>2, <3>2, <3>4, <4>1, <4>2, <1>t, <1>j
    <3> QED BY <3>3, <3>4
  <2>4. CASE ~ProgressRoom
    <3>1. worker' = Unoccupied /\ UNCHANGED <<call, progress>>
      BY <1>10, <2>4 DEF Poll
    <3>2. "failed" \in CallStates \ {"none"}
      BY DEF CallStates, FinalStates
    <3> HIDE DEF c
    <3> QED BY <2>1, <2>2, <3>1, <3>2, <1>t, <1>s
  <2> QED BY <2>3, <2>4
<1>11. CASE ResultRejected
  <2>1. worker.at = "polling" /\ Complete(worker.call, "failed") /\ worker' = Unoccupied
        /\ UNCHANGED <<connection, offered, progress, remote, received, mcpSpent>>
    BY <1>11 DEF ResultRejected, At, Current
  <2> QED BY <2>1, <1>t, <1>b, <1>j
<1>12. ASSUME NEW c \in Calls, TaskEnds(c) PROVE McpInv'
  <2>1. PICK s \in {"completed", "failed"} : remote' = [remote EXCEPT ![c] = s]
    BY <1>12 DEF TaskEnds
  <2>2. UNCHANGED <<connection, offered, call, progress, received, worker, mcpSpent>>
        /\ remote[c] = "working"
    BY <1>12 DEF TaskEnds
  <2>3. remote' \in [Calls -> {"none", "working", "completed", "failed", "cancelled"}]
        /\ remote'[c] = s /\ \A d \in Calls : d # c => remote'[d] = remote[d]
    BY <2>1, <1>t
  <2>4. McpTypes'
    BY <2>2, <2>3, <1>t DEF McpTypes
  <2>5. \A d \in Calls : CallAgrees(d)'
    BY <2>2, <2>3, <1>i DEF CallAgrees
  <2>6. WorkerAgrees'
    BY <2>2, <1>i DEF WorkerAgrees
  <2> QED BY <2>4, <2>5, <2>6 DEF McpInv
<1>13. CASE TransportLost
  <2> DEFINE c == worker.call
  <2>1. /\ worker.at \in {"running", "sent", "polling", "confirming"} /\ worker' = Unoccupied
        /\ UNCHANGED <<connection, offered, progress, remote, received>>
        /\ mcpSpent' \in 0..MaxMcpFaults
    BY <1>13, <1>f DEF TransportLost
  <2>2. c \in Calls /\ call[c].state # "none"
    BY <2>1, <1>a, <1>b
  <2>3. CASE call[c].task
    <3>1. UNCHANGED call /\ "failed" \in CallStates \ {"none"}
      BY <1>13, <2>3 DEF TransportLost, Current, CallStates, FinalStates
    <3> HIDE DEF c
    <3> QED BY <2>1, <2>2, <3>1, <1>t, <1>s
  <2>4. CASE ~call[c].task
    <3>1. Complete(c, Interrupted(c, FALSE))
      BY <1>13, <2>4 DEF TransportLost, Current
    <3> HIDE DEF c
    <3>2. c \notin Repeatable => Interrupted(c, FALSE) = "uncertain"
      BY <2>2, InterruptedStates
    <3> QED BY <2>1, <2>2, <2>4, <3>1, <3>2, <1>t, <1>j
  <2> QED BY <2>3, <2>4
<1>14. CASE CancelSignal
  <2>1. /\ worker.at \in {"reserved", "dispatching", "running", "sent", "polling"}
        /\ UNCHANGED <<connection, offered, progress, remote, received, mcpSpent>>
    BY <1>14 DEF CancelSignal
  <2>2. PICK c \in Calls : c = worker.call /\ call[c].state # "none"
    BY <2>1, <1>a, <1>b
  <2>3. CASE worker.at = "polling"
    <3>1. call' = [call EXCEPT ![c].state = "cancel_requested"] /\ Move("confirming")
      BY <1>14, <2>2, <2>3 DEF CancelSignal, At, Current
    <3>2. /\ worker'.at = "confirming" /\ worker'.call = c /\ call[c].task
          /\ worker' \in [at : WorkerPhases, call : Calls \cup {"none"}, resumed : BOOLEAN]
      BY <3>1, <2>2, <2>3, <1>m, <1>b DEF WorkerPhases
    <3>3. /\ call' \in [Calls -> CallRow]
          /\ call'[c].state = "cancel_requested" /\ call'[c].task = call[c].task
          /\ call'[c].schema = call[c].schema
          /\ \A d \in Calls : d # c => call'[d] = call[d]
      BY <3>1, <1>w DEF CallStates
    <3>4. CallAgrees(c)'
      BY <2>1, <2>2, <3>3, <1>i DEF CallAgrees, FinalStates
    <3>5. WorkerAgrees'
      BY <2>1, <2>2, <3>2, <3>3, <1>i DEF WorkerAgrees
    <3> QED BY <2>1, <2>2, <3>2, <3>3, <3>4, <3>5, <1>t, <1>g
  <2>4. CASE worker.at # "polling"
    <3>1. call' = [call EXCEPT ![c].state = Interrupted(c, TRUE)] /\ worker' = Unoccupied
      BY <1>14, <2>2, <2>4 DEF CancelSignal, At, Current
    <3>2. ~call[c].task
      BY <2>1, <2>2, <2>4, <1>a
    <3>3. Interrupted(c, TRUE) \in CallStates \ {"none"}
          /\ (c \notin Repeatable => Interrupted(c, TRUE) = "uncertain")
      BY InterruptedStates DEF CallStates, FinalStates
    <3> QED BY <2>1, <2>2, <3>1, <3>2, <3>3, <1>t, <1>s
  <2> QED BY <2>3, <2>4
<1>15. CASE ConfirmCancel
  <2> DEFINE c == worker.call
  <2>1. /\ worker.at = "confirming" /\ worker' = Unoccupied
        /\ UNCHANGED <<connection, offered, progress, received, mcpSpent>>
    BY <1>15 DEF ConfirmCancel, At
  <2>2. c \in Calls /\ call[c].state # "none"
    BY <2>1, <1>b
  <2>3. CASE remote[c] = "working" /\ remote' = [remote EXCEPT ![c] = "cancelled"] /\ Complete(c, "cancelled")
    <3> HIDE DEF c
    <3>1. remote'[c] = "cancelled"
      BY <2>2, <2>3, <1>t
    <3> QED BY <2>1, <2>2, <2>3, <3>1, <1>t, <1>j
  <2>4. CASE UNCHANGED <<remote, call>>
    <3> HIDE DEF c
    <3>1. "failed" \in CallStates \ {"none"}
      BY DEF CallStates, FinalStates
    <3> QED BY <2>1, <2>2, <2>4, <3>1, <1>t, <1>s
  <2> QED BY <1>15, <2>3, <2>4 DEF ConfirmCancel, Current
<1>16. ASSUME NEW c \in Calls, Resume(c) \/ CancelRemote(c) PROVE McpInv'
  <2>1. /\ call[c].task /\ call[c].state \notin FinalStates /\ connection.state = "ready"
        /\ UNCHANGED <<connection, offered, progress, remote, received, mcpSpent>>
    BY <1>16 DEF Resume, CancelRemote, Recoverable
  <2>2. PICK at \in {"polling", "confirming"} : worker' = [at |-> at, call |-> c, resumed |-> TRUE]
    BY <1>16 DEF Resume, CancelRemote
  <2>3. call[c].state # "none"
    <3>1. CASE Resume(c)
      \* The task of a call is bound after it was sent.
      BY <2>1, <1>i DEF CallAgrees
    <3>2. CASE CancelRemote(c)
      <4>1. call[c].state \in CallStates
        BY <1>t DEF CallRow
      <4> QED BY <3>2, <4>1, TransitionsLead DEF CancelRemote
    <3> QED BY <1>16, <3>1, <3>2
  <2>4. UNCHANGED call \/ call' = [call EXCEPT ![c].state = "cancel_requested"]
    BY <1>16 DEF Resume, CancelRemote
  <2>5. /\ call' \in [Calls -> CallRow] /\ (\A d \in Calls : d # c => call'[d] = call[d])
        /\ call'[c].state \in {call[c].state, "cancel_requested"} /\ call'[c].task = call[c].task
        /\ call'[c].schema = call[c].schema
    <3>1. "cancel_requested" \in CallStates
      BY DEF CallStates
    <3> QED BY <2>4, <3>1, <1>w, <1>t
  <2>6. McpTypes'
    BY <2>1, <2>2, <2>5, <1>t DEF McpTypes, WorkerPhases
  <2>7. CallAgrees(c)'
    BY <2>1, <2>3, <2>5, <1>i DEF CallAgrees, FinalStates
  <2>8. ASSUME NEW d \in Calls, d # c PROVE CallAgrees(d)'
    BY <2>1, <2>5, <2>8, <1>i DEF CallAgrees
  <2>9. WorkerAgrees'
    BY <2>1, <2>2, <2>3, <2>5, <1>i DEF WorkerAgrees
  <2> QED BY <2>6, <2>7, <2>8, <2>9 DEF McpInv
<1>17. CASE DaemonRestart
  <2>1. /\ call' = [c \in Calls |->
             IF call[c].state \in {"dispatching", "running", "cancel_requested"} /\ ~call[c].task
             THEN [call[c] EXCEPT !.state = Interrupted(c, FALSE)] ELSE call[c]]
        /\ worker' = Unoccupied /\ UNCHANGED <<connection, offered, progress, remote, received>>
        /\ mcpSpent' \in 0..MaxMcpFaults
    BY <1>17, <1>f DEF DaemonRestart
  <2>2. ASSUME NEW c \in Calls
        PROVE  /\ call'[c] \in CallRow
               /\ \/ call'[c] = call[c]
                  \/ /\ call[c].state # "none" /\ ~call[c].task
                     /\ call'[c].state = Interrupted(c, FALSE)
                     /\ call'[c].schema = call[c].schema /\ call'[c].task = call[c].task
    <3> DEFINE s == Interrupted(c, FALSE)
               row == call[c]
    <3>1. s \in CallStates /\ row \in CallRow
      BY InterruptedStates, <1>t DEF CallStates, FinalStates
    <3> HIDE DEF s, row
    <3>2. /\ [row EXCEPT !.state = s] \in CallRow /\ [row EXCEPT !.state = s].state = s
          /\ [row EXCEPT !.state = s].schema = row.schema /\ [row EXCEPT !.state = s].task = row.task
      BY <3>1 DEF CallRow
    <3> QED BY <2>1, <3>1, <3>2 DEF s, row
  <2>3. McpTypes'
    <3>1. call' \in [Calls -> CallRow]
      BY <2>1, <2>2
    <3> QED BY <2>1, <3>1, <1>t, <1>z DEF McpTypes
  <2>4. ASSUME NEW c \in Calls PROVE CallAgrees(c)'
    <3>1. Interrupted(c, FALSE) \in {"uncertain", "cancelled", "lost"}
          /\ (c \notin Repeatable => Interrupted(c, FALSE) = "uncertain")
      BY InterruptedStates
    <3> QED BY <2>1, <2>2, <3>1, <1>i DEF CallAgrees
  <2>5. WorkerAgrees'
    BY <2>1, <1>i, <1>z DEF WorkerAgrees
  <2> QED BY <2>3, <2>4, <2>5 DEF McpInv
<1>18. CASE UNCHANGED mcpVars
  <2>1. UNCHANGED <<connection, offered, call, progress, remote, received, worker, mcpSpent>>
    BY <1>18 DEF mcpVars
  <2> QED BY <2>1, <1>t, <1>i DEF McpInv, McpTypes, CallAgrees, WorkerAgrees
<1> QED BY <1>1, <1>2, <1>3, <1>4, <1>5, <1>6, <1>7, <1>8, <1>9, <1>10, <1>11, <1>12, <1>13, <1>14,
           <1>15, <1>16, <1>17, <1>18 DEF McpNext

\* However often the transport is lost, the server upgraded, a call cancelled or resumed and
\* the daemon restarted: a call reaches the server once, under the schema bound first, and
\* is given up only when nothing is left to be found out.
THEOREM CallsAlwaysSettled == McpSpec => []CallsSettled
<1>1. McpInv => CallsSettled
  <2> SUFFICES ASSUME McpInv PROVE CallsSettled
    OBVIOUS
  <2>1. McpTypes /\ \A c \in Calls : CallAgrees(c)
    BY DEF McpInv
  <2>2. received \in [Calls -> 0..2] /\ SentOnce
    BY <2>1 DEF McpTypes, SentOnce
  <2>3. worker.at \in WorkerPhases /\ worker.call \in Calls \cup {"none"} /\ worker.resumed \in BOOLEAN
    BY <2>1 DEF McpTypes
  <2>4. McpTypeOK
    BY <2>1, <2>2, <2>3 DEF McpTypes, McpTypeOK, WorkerPhases, CallRow
  <2>5. LostIsHarmless /\ SchemaPinned
    BY <2>1 DEF CallAgrees, LostIsHarmless, SchemaPinned
  <2>6. TaskNotForgotten
    BY <2>1 DEF CallAgrees, TaskNotForgotten, Recoverable
  <2> QED BY <2>2, <2>4, <2>5, <2>6 DEF CallsSettled
<1> QED BY <1>1, McpInitially, McpStep, PTL DEF McpSpec

-----------------------------------------------------------------------------
(* Browser sessions. *)

SessionRow == [state : LifecycleStates, revision : Nat, effect : BOOLEAN]
ActionRow == [state : ActionStates, session : Browsers \cup {"none"},
              revision : 0..MaxRevisions, complete : BOOLEAN]
Drives == [pc : {"free", "restored", "journaled", "performed", "settled"}, key : Keys \cup {"none"}]

BrowserTypes ==
  /\ browser \in [Browsers -> SessionRow]
  /\ observed \in [Browsers -> SUBSET Nat]
  /\ action \in [Keys -> ActionRow]
  /\ performed \in [Keys -> 0..1]
  /\ driving \in [Browsers -> Drives]
  /\ closer \in [Browsers -> {"no", "closing", "snapshot"}]
  /\ handles \subseteq Browsers
  /\ profileDir \in {"absent", "present"} /\ saved \in BOOLEAN
  /\ browserFaults \in 0..MaxBrowserFaults

\* A session that uses the working directory of the profile.
Live(s) == browser[s].state \in {"opening", "active", "closing"}

\* A state leaves room for the revisions that may still follow.
RevisionsLeft(s) ==
  /\ browser[s].state \in {"none", "opening"} => browser[s].revision = 0
  /\ browser[s].state = "active" => browser[s].revision <= MaxRevisions + 1
  /\ browser[s].state = "closing" => browser[s].revision <= MaxRevisions + 2
  /\ browser[s].revision <= MaxRevisions + 3

\* What the row of a session, its locks, its handle and the profile agree on.
SessionAgrees(s) ==
  /\ RevisionsLeft(s)
  /\ \A r \in observed[s] : r <= browser[s].revision
  /\ driving[s].pc = "restored" <=> browser[s].state = "opening"
  /\ closer[s] # "no" <=> browser[s].state = "closing"
  /\ closer[s] = "snapshot" => saved
  /\ browser[s].state = "active" => s \in handles
  /\ Live(s) => profileDir = "present"
  /\ browser[s].state = "lost" =>
       \A k \in Keys : action[k].state # "none" /\ action[k].session = s => action[k].complete

Recorded(k) == action[k].state \in {"completed", "uncertain"}

\* The action that is driven is the newest of its session, and not yet recorded.
DriveAgrees(s) ==
  driving[s].pc \in {"journaled", "performed", "settled"} =>
    \E k \in Keys :
      /\ k = driving[s].key /\ action[k].session = s /\ action[k].state = "failed"
      /\ browser[s].revision = action[k].revision + IF driving[s].pc = "settled" THEN 1 ELSE 0
      /\ driving[s].pc = "journaled" => performed[k] = 0
      /\ browser[s].state \in IF driving[s].pc = "settled" THEN {"active", "uncertain"} ELSE {"active"}
      /\ \A l \in Keys : Recorded(l) /\ action[l].session = s => action[l].revision < action[k].revision

\* An action that was not requested did nothing; a recorded one ended its revision.
ActionAgrees(k) ==
  /\ action[k].state = "none" => performed[k] = 0
  /\ Recorded(k) =>
       action[k].session \in Browsers /\ action[k].revision < browser[action[k].session].revision

\* One session at a time uses the profile.
ProfileExclusive == \A s, t \in Browsers : Live(s) /\ Live(t) => s = t

BrowserInv ==
  /\ BrowserTypes
  /\ \A s \in Browsers : SessionAgrees(s)
  /\ \A s \in Browsers : DriveAgrees(s)
  /\ \A k \in Keys : ActionAgrees(k)
  /\ ProfileExclusive
  /\ ObservationOnce

\* No session is open at first.
LEMMA BrowserInitially == BrowserInit => BrowserInv
<1> USE BrowserAssumption
<1> SUFFICES ASSUME BrowserInit PROVE BrowserInv
  OBVIOUS
<1>1. BrowserTypes
  BY DEF BrowserInit, BrowserTypes, SessionRow, ActionRow, Drives, LifecycleStates, ActionStates, Quiet
<1>2. \A s \in Browsers : SessionAgrees(s) /\ DriveAgrees(s)
  BY DEF BrowserInit, SessionAgrees, RevisionsLeft, DriveAgrees, Live, Quiet
<1>3. (\A k \in Keys : ActionAgrees(k)) /\ ObservationOnce
  BY DEF BrowserInit, ActionAgrees, Recorded, ObservationOnce
<1>4. ProfileExclusive
  BY DEF BrowserInit, ProfileExclusive, Live
<1> QED BY <1>1, <1>2, <1>3, <1>4 DEF BrowserInv

\* A step of one session that uses the profile alone keeps what holds of the others.
LEMMA OneSessionMoves ==
  ASSUME BrowserInv, NEW s \in Browsers, BrowserTypes', SessionAgrees(s)', DriveAgrees(s)',
         \A k \in Keys : ActionAgrees(k)', ObservationOnce',
         \A t \in Browsers : t # s =>
           /\ browser'[t] = browser[t] /\ observed'[t] = observed[t]
           /\ driving'[t] = driving[t] /\ closer'[t] = closer[t] /\ (t \in handles => t \in handles')
           /\ Live(t) => ~Live(s)' /\ profileDir' = profileDir /\ saved' = saved,
         \A k \in Keys : \/ action'[k] = action[k] /\ (performed'[k] = performed[k] \/ action[k].session = s)
                         \/ /\ action[k].state = "none" \/ action[k].session = s
                            /\ action'[k].session = s
  PROVE  BrowserInv'
<1>1. ASSUME NEW t \in Browsers, t # s PROVE SessionAgrees(t)'
  <2>1. SessionAgrees(t) /\ closer[t] \in {"no", "closing", "snapshot"}
    BY DEF BrowserInv, BrowserTypes
  <2>2. /\ browser'[t] = browser[t] /\ observed'[t] = observed[t]
        /\ driving'[t] = driving[t] /\ closer'[t] = closer[t] /\ (t \in handles => t \in handles')
        /\ Live(t) => profileDir' = profileDir /\ saved' = saved
    BY <1>1
  <2>3. Live(t)' <=> Live(t)
    BY <2>2 DEF Live
  <2>4. RevisionsLeft(t)'
    BY <2>1, <2>2 DEF SessionAgrees, RevisionsLeft
  <2>5. browser[t].state = "lost" =>
          \A k \in Keys : action'[k].state # "none" /\ action'[k].session = t => action'[k].complete
    BY <1>1, <2>1 DEF SessionAgrees
  <2>6. closer[t] = "snapshot" => saved'
    <3> SUFFICES ASSUME closer[t] = "snapshot" PROVE saved'
      OBVIOUS
    <3>1. browser[t].state = "closing" /\ saved
      BY <2>1 DEF SessionAgrees
    <3>2. saved' = saved
      BY <3>1, <2>2 DEF Live
    <3> QED BY <3>1, <3>2
  <2> QED BY <2>1, <2>2, <2>3, <2>4, <2>5, <2>6 DEF SessionAgrees
<1>2. ASSUME NEW t \in Browsers, t # s PROVE DriveAgrees(t)'
  <2> SUFFICES ASSUME driving'[t].pc \in {"journaled", "performed", "settled"}
               PROVE  DriveAgrees(t)'
    BY DEF DriveAgrees
  <2>1. browser'[t] = browser[t] /\ driving'[t] = driving[t]
    BY <1>2
  <2>2. PICK k \in Keys :
      /\ k = driving[t].key /\ action[k].session = t /\ action[k].state = "failed"
      /\ browser[t].revision = action[k].revision + IF driving[t].pc = "settled" THEN 1 ELSE 0
      /\ driving[t].pc = "journaled" => performed[k] = 0
      /\ browser[t].state \in IF driving[t].pc = "settled" THEN {"active", "uncertain"} ELSE {"active"}
      /\ \A l \in Keys : Recorded(l) /\ action[l].session = t => action[l].revision < action[k].revision
    BY <2>1 DEF BrowserInv, DriveAgrees
  <2>3. action'[k] = action[k] /\ performed'[k] = performed[k]
    BY <1>2, <2>2
  <2>4. ASSUME NEW l \in Keys, Recorded(l)', action'[l].session = t
        PROVE  action'[l].revision < action[k].revision
    <3>1. action'[l] = action[l]
      BY <1>2, <2>4
    <3> QED BY <2>2, <2>4, <3>1 DEF Recorded
  <2> QED BY <2>1, <2>2, <2>3, <2>4 DEF DriveAgrees
<1>3. ProfileExclusive'
  <2> SUFFICES ASSUME NEW t \in Browsers, NEW u \in Browsers, Live(t)', Live(u)', t # u
               PROVE  FALSE
    BY DEF ProfileExclusive
  <2>1. \A x \in Browsers : x # s => (Live(x)' <=> Live(x)) /\ ~(Live(x) /\ Live(s)')
    BY DEF Live
  <2>2. t # s /\ u # s
    BY <2>1
  <2> QED BY <2>1, <2>2 DEF BrowserInv, ProfileExclusive
<1> QED BY <1>1, <1>2, <1>3 DEF BrowserInv

\* Where no action is recorded, revisions only grow: what is recorded stays in the past.
LEMMA ActionsKeep ==
  ASSUME BrowserInv, UNCHANGED <<action, performed>>, browser' \in [Browsers -> SessionRow],
         \A s \in Browsers : browser[s].revision <= browser'[s].revision
  PROVE  (\A k \in Keys : ActionAgrees(k)') /\ ObservationOnce'
<1>1. ASSUME NEW k \in Keys PROVE ActionAgrees(k)'
  <2>1. ActionAgrees(k)
    BY DEF BrowserInv
  <2>2. action[k].revision \in Nat
    BY BrowserAssumption DEF BrowserInv, BrowserTypes, ActionRow
  <2>3. action[k].session \in Browsers =>
          browser[action[k].session].revision \in Nat /\ browser'[action[k].session].revision \in Nat
    BY DEF BrowserInv, BrowserTypes, SessionRow
  <2> QED BY <2>1, <2>2, <2>3 DEF ActionAgrees, Recorded
<1>2. ObservationOnce'
  BY DEF BrowserInv, ObservationOnce
<1> QED BY <1>1, <1>2

\* Opening, observing, acting, closing, failing and restarting keep the invariant.
LEMMA BrowserStepKeeps == BrowserInv /\ [BrowserNext]_browserVars => BrowserInv'
<1> USE BrowserAssumption
<1> SUFFICES ASSUME BrowserInv, [BrowserNext]_browserVars PROVE BrowserInv'
  OBVIOUS
<1>t. /\ browser \in [Browsers -> SessionRow] /\ observed \in [Browsers -> SUBSET Nat]
      /\ action \in [Keys -> ActionRow] /\ performed \in [Keys -> 0..1]
      /\ driving \in [Browsers -> Drives] /\ closer \in [Browsers -> {"no", "closing", "snapshot"}]
      /\ handles \subseteq Browsers /\ profileDir \in {"absent", "present"} /\ saved \in BOOLEAN
      /\ browserFaults \in 0..MaxBrowserFaults
  BY DEF BrowserInv, BrowserTypes
<1>i. /\ \A s \in Browsers : SessionAgrees(s) /\ DriveAgrees(s)
      /\ \A k \in Keys : ActionAgrees(k)
      /\ ProfileExclusive /\ ObservationOnce
  BY DEF BrowserInv
<1>v. ASSUME NEW s \in Browsers PROVE browser[s].revision \in Nat /\ browser[s].state \in LifecycleStates
  BY <1>t DEF SessionRow
<1>f. BrowserFault => browserFaults' \in 0..MaxBrowserFaults
  BY <1>t DEF BrowserFault
\* The row of a session in its next revision.
<1>r. ASSUME NEW s \in Browsers, NEW state \in LifecycleStates, NEW effect \in BOOLEAN, Replace(s, state, effect)
      PROVE  /\ browser' \in [Browsers -> SessionRow]
             /\ browser'[s].state = state /\ browser'[s].revision = browser[s].revision + 1
             /\ \A t \in Browsers : t # s => browser'[t] = browser[t]
  <2> DEFINE row == [state |-> state, revision |-> browser[s].revision + 1, effect |-> effect]
  <2>1. browser' = [browser EXCEPT ![s] = row]
    BY <1>r, <1>t DEF Replace
  <2>2. row \in SessionRow /\ row.state = state /\ row.revision = browser[s].revision + 1
    BY <1>v DEF SessionRow
  <2> HIDE DEF row
  <2> QED BY <2>1, <2>2, <1>t
\* Another step of the request that holds a session's lock.
<1>d. ASSUME NEW s \in Browsers, NEW pc \in {"free", "restored", "journaled", "performed", "settled"},
             NEW k \in Keys \cup {"none"}, driving' = [driving EXCEPT ![s] = [pc |-> pc, key |-> k]]
      PROVE  /\ driving' \in [Browsers -> Drives] /\ driving'[s].pc = pc /\ driving'[s].key = k
             /\ \A t \in Browsers : t # s => driving'[t] = driving[t]
  BY <1>d, <1>t DEF Drives
<1>e. ASSUME NEW s \in Browsers, Release(s)
      PROVE  /\ driving' \in [Browsers -> Drives] /\ driving'[s].pc = "free" /\ DriveAgrees(s)'
             /\ \A t \in Browsers : t # s => driving'[t] = driving[t]
  <2>1. driving' \in [Browsers -> Drives] /\ driving'[s].pc = "free"
        /\ \A t \in Browsers : t # s => driving'[t] = driving[t]
    BY <1>e, <1>t DEF Release, Drives, Quiet
  <2> QED BY <2>1 DEF DriveAgrees
\* Whoever drives a session drives an action of it.
<1>k. ASSUME NEW s \in Browsers, driving[s].pc \in {"journaled", "performed", "settled"}
      PROVE  \E k \in Keys :
               /\ k = driving[s].key /\ action[k].session = s /\ action[k].state = "failed"
               /\ browser[s].revision = action[k].revision + IF driving[s].pc = "settled" THEN 1 ELSE 0
               /\ driving[s].pc = "journaled" => performed[k] = 0
               /\ browser[s].state \in IF driving[s].pc = "settled" THEN {"active", "uncertain"} ELSE {"active"}
               /\ \A l \in Keys : Recorded(l) /\ action[l].session = s => action[l].revision < action[k].revision
  BY <1>k, <1>i DEF DriveAgrees
\* A session being closed is not driven.
<1>x. ASSUME NEW s \in Browsers, closer[s] # "no" PROVE browser[s].state = "closing" /\ driving[s].pc = "free"
  <2>1. browser[s].state = "closing" /\ driving[s].pc # "restored"
    BY <1>x, <1>i DEF SessionAgrees
  <2>2. driving[s].pc \in {"free", "restored", "journaled", "performed", "settled"}
    BY <1>t DEF Drives
  <2> QED BY <2>1, <2>2, <1>k
\* A live session is the only one.
<1>l. ASSUME NEW s \in Browsers, Live(s), NEW t \in Browsers, t # s PROVE ~Live(t)
  BY <1>l, <1>i DEF ProfileExclusive
\* A step of one session that records no action.
<1>o. ASSUME NEW s \in Browsers, UNCHANGED <<action, performed>>, BrowserTypes', SessionAgrees(s)', DriveAgrees(s)',
             browser[s].revision <= browser'[s].revision,
             \A t \in Browsers : t # s =>
               /\ browser'[t] = browser[t] /\ observed'[t] = observed[t]
               /\ driving'[t] = driving[t] /\ closer'[t] = closer[t] /\ (t \in handles => t \in handles'),
             (\A t \in Browsers : t # s => ~Live(t)) \/ (~Live(s)' /\ UNCHANGED <<profileDir, saved>>)
      PROVE  BrowserInv'
  <2>1. \A t \in Browsers : browser[t].revision <= browser'[t].revision
    BY <1>o, <1>v
  <2>2. (\A k \in Keys : ActionAgrees(k)') /\ ObservationOnce'
    BY <1>o, <2>1, ActionsKeep DEF BrowserTypes
  <2> QED BY <1>o, <2>2, OneSessionMoves
<1>1. ASSUME NEW s \in Browsers, OpenBegins(s) PROVE BrowserInv'
  <2>1. /\ browser[s].state = "none" /\ profileDir = "absent" /\ profileDir' = "present" /\ closer[s] = "no"
        /\ browser' = [browser EXCEPT ![s].state = "opening"]
        /\ driving' = [driving EXCEPT ![s] = [pc |-> "restored", key |-> "none"]]
        /\ UNCHANGED <<observed, action, performed, closer, handles, saved, browserFaults>>
    BY <1>1 DEF OpenBegins, Free, Drive
  <2>2. /\ browser' \in [Browsers -> SessionRow]
        /\ browser'[s].state = "opening" /\ browser'[s].revision = browser[s].revision
        /\ \A t \in Browsers : t # s => browser'[t] = browser[t]
    <3>1. PICK row \in SessionRow : row = browser[s]
      BY <1>t
    <3>2. [row EXCEPT !.state = "opening"] \in SessionRow /\ [row EXCEPT !.state = "opening"].state = "opening"
          /\ [row EXCEPT !.state = "opening"].revision = row.revision
      BY DEF SessionRow, LifecycleStates
    <3>3. browser' = [browser EXCEPT ![s] = [row EXCEPT !.state = "opening"]]
      BY <2>1, <3>1, <1>t
    <3> QED BY <3>1, <3>2, <3>3, <1>t
  <2>3. /\ driving' \in [Browsers -> Drives] /\ driving'[s].pc = "restored"
        /\ \A t \in Browsers : t # s => driving'[t] = driving[t]
    BY <2>1, <1>d
  <2>4. BrowserTypes'
    BY <2>1, <2>2, <2>3, <1>t DEF BrowserTypes
  <2>5. SessionAgrees(s)' /\ DriveAgrees(s)'
    <3>1. RevisionsLeft(s)'
      BY <2>1, <2>2, <1>i, <1>v DEF SessionAgrees, RevisionsLeft
    <3> QED BY <2>1, <2>2, <2>3, <3>1, <1>i DEF SessionAgrees, DriveAgrees, Live
  <2>6. \A t \in Browsers : ~Live(t)
    BY <2>1, <1>i DEF SessionAgrees
  <2> QED BY <2>1, <2>2, <2>3, <2>4, <2>5, <2>6, <1>v, <1>o
<1>2. ASSUME NEW s \in Browsers, OpenEnds(s) PROVE BrowserInv'
  <2>1. /\ driving[s].pc = "restored" /\ Release(s)
        /\ UNCHANGED <<observed, action, performed, closer, profileDir, saved, browserFaults>>
    BY <1>2 DEF OpenEnds
  <2>2. browser[s].state = "opening" /\ Live(s) /\ browser[s].revision = 0 /\ closer[s] = "no"
        /\ profileDir = "present" /\ \A r \in observed[s] : r <= 0
    BY <2>1, <1>i DEF SessionAgrees, RevisionsLeft, Live
  <2>3. PICK state \in {"active", "uncertain"}, effect \in BOOLEAN :
          /\ Replace(s, state, effect)
          /\ handles' = IF state = "active" THEN handles \cup {s} ELSE handles
    BY <1>2 DEF OpenEnds
  <2>4. /\ browser' \in [Browsers -> SessionRow]
        /\ browser'[s].state = state /\ browser'[s].revision = 1
        /\ \A t \in Browsers : t # s => browser'[t] = browser[t]
    BY <2>2, <2>3, <1>r DEF LifecycleStates
  <2>5. BrowserTypes'
    BY <2>1, <2>3, <2>4, <1>t, <1>e DEF BrowserTypes
  <2>6. SessionAgrees(s)'
    <3>1. RevisionsLeft(s)'
      BY <2>4 DEF RevisionsLeft
    <3>2. \A r \in observed'[s] : r <= 1
      BY <2>1, <2>2, <1>t
    <3> QED BY <2>1, <2>2, <2>3, <2>4, <3>1, <3>2, <1>e DEF SessionAgrees
  <2> QED BY <2>1, <2>2, <2>3, <2>4, <2>5, <2>6, <1>e, <1>l, <1>o
<1>3. ASSUME NEW s \in Browsers, ObservePage(s) \/ ObservationExpires(s) PROVE BrowserInv'
  <2>1. UNCHANGED <<browser, action, performed, driving, closer, handles, profileDir, saved, browserFaults>>
    BY <1>3 DEF ObservePage, ObservationExpires
  <2>2. /\ observed' \in [Browsers -> SUBSET Nat]
        /\ observed'[s] \subseteq observed[s] \cup {browser[s].revision}
        /\ \A t \in Browsers : t # s => observed'[t] = observed[t]
    BY <1>3, <1>t, <1>v DEF ObservePage, ObservationExpires
  <2>3. BrowserTypes'
    BY <2>1, <2>2, <1>t DEF BrowserTypes
  <2>4. ASSUME NEW t \in Browsers PROVE SessionAgrees(t)'
    <3>1. \A r \in observed'[t] : r <= browser[t].revision
      BY <2>2, <1>i, <1>v DEF SessionAgrees
    <3> QED BY <2>1, <3>1, <1>i DEF SessionAgrees, RevisionsLeft, Live
  <2>5. \A t \in Browsers : DriveAgrees(t)'
    BY <2>1, <1>i DEF DriveAgrees, Recorded
  <2>6. (\A k \in Keys : ActionAgrees(k)') /\ ObservationOnce' /\ ProfileExclusive'
    BY <2>1, <1>i DEF ActionAgrees, Recorded, ObservationOnce, ProfileExclusive, Live
  <2> QED BY <2>3, <2>4, <2>5, <2>6 DEF BrowserInv
<1>4. ASSUME NEW s \in Browsers, NEW k \in Keys, NEW revision \in 0..MaxRevisions, ActBegins(s, k, revision)
      PROVE  BrowserInv'
  <2> DEFINE row == [state |-> "failed", session |-> s, revision |-> revision, complete |-> FALSE]
  <2>1. /\ driving[s].pc = "free" /\ action[k].state = "none"
        /\ browser[s].state = "active" /\ browser[s].revision = revision
        /\ action' = [action EXCEPT ![k] = row]
        /\ driving' = [driving EXCEPT ![s] = [pc |-> "journaled", key |-> k]]
        /\ UNCHANGED <<browser, observed, performed, closer, handles, profileDir, saved, browserFaults>>
    BY <1>4 DEF ActBegins, Free, Known, Drive
  <2>2. row \in ActionRow /\ row.state = "failed" /\ row.session = s /\ row.revision = revision
    BY DEF ActionRow, ActionStates
  <2> HIDE DEF row
  <2>3. action' \in [Keys -> ActionRow] /\ action'[k] = row /\ \A l \in Keys : l # k => action'[l] = action[l]
    BY <2>1, <2>2, <1>t
  <2>4. /\ driving' \in [Browsers -> Drives] /\ driving'[s].pc = "journaled" /\ driving'[s].key = k
        /\ \A t \in Browsers : t # s => driving'[t] = driving[t]
    BY <2>1, <1>d
  <2>5. BrowserTypes'
    BY <2>1, <2>3, <2>4, <1>t DEF BrowserTypes
  <2>6. SessionAgrees(s)'
    BY <2>1, <2>4, <1>i DEF SessionAgrees, RevisionsLeft, Live
  <2>7. performed[k] = 0 /\ \A l \in Keys : Recorded(l)' => l # k /\ Recorded(l) /\ action'[l] = action[l]
    BY <2>1, <2>2, <2>3, <1>i DEF ActionAgrees, Recorded
  <2>8. DriveAgrees(s)'
    <3>1. ASSUME NEW l \in Keys, Recorded(l)', action'[l].session = s
          PROVE  action'[l].revision < action'[k].revision
      BY <3>1, <2>1, <2>2, <2>3, <2>7, <1>i DEF ActionAgrees
    <3>2. browser[s].revision = action'[k].revision + 0
      BY <2>1, <2>2, <2>3, <1>v
    <3> QED BY <2>1, <2>2, <2>3, <2>4, <2>7, <3>1, <3>2 DEF DriveAgrees
  <2>9. ASSUME NEW l \in Keys PROVE ActionAgrees(l)'
    <3>1. action'[l].state = "none" => l # k
      BY <2>2, <2>3
    <3> QED BY <2>1, <2>3, <2>7, <3>1, <1>i DEF ActionAgrees
  <2>10. ObservationOnce'
    BY <2>7, <1>i DEF ObservationOnce, Recorded
  <2>11. Live(s)
    BY <2>1 DEF Live
  <2> QED BY <2>1, <2>2, <2>3, <2>4, <2>5, <2>6, <2>8, <2>9, <2>10, <2>11, <1>l, OneSessionMoves
\* The request that drives an action records what became of it.
<1>5. ASSUME NEW s \in Browsers, NEW state \in {"cancelled", "failed", "completed", "uncertain"},
             driving[s].pc \in {"journaled", "settled"},
             state \in {"completed", "uncertain"} => driving[s].pc = "settled", Settle(s, state),
             UNCHANGED <<browser, observed, performed, closer, handles, profileDir, saved, browserFaults>>
      PROVE  BrowserInv'
  <2>1. PICK k \in Keys :
          /\ k = driving[s].key /\ action[k].session = s /\ action[k].state = "failed"
          /\ browser[s].revision = action[k].revision + IF driving[s].pc = "settled" THEN 1 ELSE 0
          /\ browser[s].state \in {"active", "uncertain"}
          /\ \A l \in Keys : Recorded(l) /\ action[l].session = s => action[l].revision < action[k].revision
    BY <1>5, <1>k
  <2>2. PICK row \in ActionRow : row = action[k]
    BY <1>t
  <2> DEFINE new == [row EXCEPT !.state = state, !.complete = TRUE]
  <2>3. /\ new \in ActionRow /\ new.state = state /\ new.complete = TRUE
        /\ new.session = s /\ new.revision = row.revision
    BY <2>1, <2>2 DEF ActionRow, ActionStates
  <2>4. action' = [action EXCEPT ![k] = new]
    BY <1>5, <2>1, <2>2, <1>t DEF Settle
  <2> HIDE DEF new
  <2>5. action' \in [Keys -> ActionRow] /\ action'[k] = new /\ \A l \in Keys : l # k => action'[l] = action[l]
    BY <2>3, <2>4, <1>t
  <2>6. /\ driving' \in [Browsers -> Drives] /\ driving'[s].pc = "free" /\ DriveAgrees(s)'
        /\ \A t \in Browsers : t # s => driving'[t] = driving[t]
    BY <1>5, <1>e DEF Settle
  <2>7. BrowserTypes'
    BY <1>5, <2>5, <2>6, <1>t DEF BrowserTypes
  <2>8. SessionAgrees(s)'
    BY <1>5, <2>1, <2>6, <1>i DEF SessionAgrees, RevisionsLeft, Live
  <2>9. ASSUME NEW l \in Keys PROVE ActionAgrees(l)'
    <3>1. CASE l = k
      <4>1. Recorded(k)' => driving[s].pc = "settled"
        BY <1>5, <2>3, <2>5 DEF Recorded
      <4>2. driving[s].pc = "settled" => row.revision < browser[s].revision
        BY <2>1, <2>2 DEF ActionRow
      <4> QED BY <1>5, <2>3, <2>5, <3>1, <4>1, <4>2 DEF ActionAgrees
    <3>2. CASE l # k
      BY <1>5, <2>5, <3>2, <1>i DEF ActionAgrees, Recorded
    <3> QED BY <3>1, <3>2
  <2>10. ObservationOnce'
    <3> SUFFICES ASSUME NEW m \in Keys, NEW l \in Keys, m # l, action'[m].session = action'[l].session,
                        action'[m].revision = action'[l].revision, Recorded(m)', Recorded(l)'
                 PROVE  FALSE
      BY DEF ObservationOnce, Recorded
    <3>1. row.revision \in Nat /\ action[m].revision \in Nat /\ action[l].revision \in Nat
      BY <2>2, <1>t DEF ActionRow
    <3>2. CASE m = k
      <4>1. Recorded(l) /\ action[l].session = s /\ action[l].revision = row.revision
        BY <2>3, <2>5, <3>2 DEF Recorded
      <4> QED BY <2>1, <2>2, <3>1, <4>1
    <3>3. CASE l = k
      <4>1. Recorded(m) /\ action[m].session = s /\ action[m].revision = row.revision
        BY <2>3, <2>5, <3>3 DEF Recorded
      <4> QED BY <2>1, <2>2, <3>1, <4>1
    <3>4. CASE m # k /\ l # k
      <4>1. action'[m] = action[m] /\ action'[l] = action[l]
        BY <2>5, <3>4
      <4> QED BY <4>1, <1>i DEF ObservationOnce, Recorded
    <3> QED BY <3>2, <3>3, <3>4
  <2>11. ASSUME NEW t \in Browsers, t # s, Live(t) PROVE ~Live(s)'
    BY <1>5, <2>11, <1>i DEF ProfileExclusive, Live
  <2>12. \A l \in Keys : action'[l] = action[l] \/ (action[l].session = s /\ action'[l].session = s)
    BY <2>1, <2>3, <2>5
  <2> QED BY <1>5, <2>6, <2>7, <2>8, <2>9, <2>10, <2>11, <2>12, OneSessionMoves
<1>6. ASSUME NEW s \in Browsers, ActRefused(s) PROVE BrowserInv'
  <2>1. driving[s].pc = "journaled"
        /\ UNCHANGED <<browser, observed, performed, closer, handles, profileDir, saved, browserFaults>>
    BY <1>6 DEF ActRefused
  <2>2. Settle(s, "cancelled") \/ Settle(s, "failed")
    BY <1>6 DEF ActRefused
  <2> QED BY <2>1, <2>2, <1>5
<1>7. ASSUME NEW s \in Browsers, ActCompletes(s) PROVE BrowserInv'
  <2>1. driving[s].pc = "settled"
        /\ UNCHANGED <<browser, observed, performed, closer, handles, profileDir, saved, browserFaults>>
    BY <1>7 DEF ActCompletes
  <2>2. Settle(s, "uncertain") \/ Settle(s, "completed")
    BY <1>7 DEF ActCompletes
  <2> QED BY <2>1, <2>2, <1>5
<1>8. ASSUME NEW s \in Browsers, ActPerforms(s) PROVE BrowserInv'
  <2>1. PICK k \in Keys :
          /\ k = driving[s].key /\ action[k].session = s /\ action[k].state = "failed"
          /\ browser[s].revision = action[k].revision + 0 /\ performed[k] = 0 /\ browser[s].state = "active"
          /\ \A l \in Keys : Recorded(l) /\ action[l].session = s => action[l].revision < action[k].revision
    BY <1>8, <1>k DEF ActPerforms
  <2>2. /\ driving[s].pc = "journaled" /\ performed' = [performed EXCEPT ![k] = @ + 1] /\ saved' = FALSE
        /\ driving' = [driving EXCEPT ![s] = [pc |-> "performed", key |-> k]]
        /\ UNCHANGED <<browser, observed, action, closer, handles, profileDir, browserFaults>>
    BY <1>8, <2>1 DEF ActPerforms, Drive
  <2>3. performed' \in [Keys -> 0..1] /\ \A l \in Keys : l # k => performed'[l] = performed[l]
    BY <2>1, <2>2, <1>t
  <2>4. /\ driving' \in [Browsers -> Drives] /\ driving'[s].pc = "performed" /\ driving'[s].key = k
        /\ \A t \in Browsers : t # s => driving'[t] = driving[t]
    BY <2>2, <1>d
  <2>5. BrowserTypes'
    BY <2>2, <2>3, <2>4, <1>t DEF BrowserTypes
  <2>6. SessionAgrees(s)'
    <3>1. closer[s] = "no"
      BY <2>1, <1>x
    <3> QED BY <2>1, <2>2, <2>4, <3>1, <1>i DEF SessionAgrees, RevisionsLeft, Live
  <2>7. DriveAgrees(s)'
    BY <2>1, <2>2, <2>4 DEF DriveAgrees, Recorded
  <2>8. ASSUME NEW l \in Keys PROVE ActionAgrees(l)'
    BY <2>1, <2>2, <2>3, <1>i DEF ActionAgrees, Recorded
  <2>9. ObservationOnce' /\ Live(s)
    BY <2>1, <2>2, <1>i DEF ObservationOnce, Live
  <2> QED BY <2>1, <2>2, <2>3, <2>4, <2>5, <2>6, <2>7, <2>8, <2>9, <1>l, OneSessionMoves
<1>9. ASSUME NEW s \in Browsers, ActSettles(s) PROVE BrowserInv'
  <2>1. PICK k \in Keys :
          /\ k = driving[s].key /\ action[k].session = s /\ action[k].state = "failed"
          /\ browser[s].revision = action[k].revision + 0 /\ browser[s].state = "active"
          /\ \A l \in Keys : Recorded(l) /\ action[l].session = s => action[l].revision < action[k].revision
    BY <1>9, <1>k DEF ActSettles
  <2>2. /\ driving[s].pc = "performed"
        /\ driving' = [driving EXCEPT ![s] = [pc |-> "settled", key |-> k]]
        /\ UNCHANGED <<observed, action, performed, closer, handles, profileDir, saved, browserFaults>>
    BY <1>9, <2>1 DEF ActSettles, Drive
  <2>3. PICK state \in {"active", "uncertain"}, effect \in BOOLEAN : Replace(s, state, effect)
    BY <1>9 DEF ActSettles
  <2>4. /\ browser' \in [Browsers -> SessionRow]
        /\ browser'[s].state = state /\ browser'[s].revision = browser[s].revision + 1
        /\ \A t \in Browsers : t # s => browser'[t] = browser[t]
    BY <2>3, <1>r DEF LifecycleStates
  <2>5. /\ driving' \in [Browsers -> Drives] /\ driving'[s].pc = "settled" /\ driving'[s].key = k
        /\ \A t \in Browsers : t # s => driving'[t] = driving[t]
    BY <2>2, <1>d
  <2>6. BrowserTypes'
    BY <2>2, <2>4, <2>5, <1>t DEF BrowserTypes
  <2>7. action[k].revision \in 0..MaxRevisions
    BY <1>t DEF ActionRow
  <2>8. SessionAgrees(s)'
    <3>1. RevisionsLeft(s)'
      BY <2>1, <2>4, <2>7 DEF RevisionsLeft
    <3>2. \A r \in observed'[s] : r <= browser'[s].revision
      <4>1. \A r \in observed[s] : r \in Nat /\ r <= browser[s].revision
        BY <1>t, <1>i DEF SessionAgrees
      <4> QED BY <2>2, <2>4, <4>1, <1>v
    <3>3. closer[s] = "no" /\ s \in handles /\ profileDir = "present"
      BY <2>1, <1>x, <1>i DEF SessionAgrees, Live
    <3> QED BY <2>2, <2>4, <2>5, <3>1, <3>2, <3>3 DEF SessionAgrees
  <2>9. DriveAgrees(s)'
    BY <2>1, <2>2, <2>4, <2>5, <2>7 DEF DriveAgrees, Recorded
  <2>10. Live(s)
    BY <2>1 DEF Live
  <2> QED BY <2>2, <2>4, <2>5, <2>6, <2>8, <2>9, <2>10, <1>v, <1>l, <1>o
<1>10. ASSUME NEW s \in Browsers, ArtifactFails(s) PROVE BrowserInv'
  <2>1. /\ driving[s].pc = "performed" /\ Release(s) /\ browserFaults' \in 0..MaxBrowserFaults
        /\ UNCHANGED <<browser, observed, action, performed, closer, handles, profileDir, saved>>
    BY <1>10, <1>f DEF ArtifactFails
  <2>2. BrowserTypes'
    BY <2>1, <1>t, <1>e DEF BrowserTypes
  <2>3. SessionAgrees(s)'
    BY <2>1, <1>e, <1>i DEF SessionAgrees, RevisionsLeft, Live
  <2>4. Live(s)
    BY <2>1, <1>k DEF Live
  <2> QED BY <2>1, <2>2, <2>3, <2>4, <1>e, <1>v, <1>l, <1>o
\* Closing: who holds the lock takes the session out of use.
<1>11. ASSUME NEW s \in Browsers, CloseBegins(s) \/ SaveProfile(s) \/ CloseEnds(s) \/ CloseFails(s)
       PROVE  BrowserInv'
  <2>1. /\ UNCHANGED <<observed, action, performed, driving>>
        /\ browserFaults' \in 0..MaxBrowserFaults
    BY <1>11, <1>f, <1>t DEF CloseBegins, SaveProfile, CloseEnds, CloseFails
  <2>2. driving[s].pc = "free" /\ Live(s) /\ browser[s].state \in {"active", "closing"}
        /\ (browser[s].state = "active" => closer[s] = "no")
        /\ (closer[s] # "no" => browser[s].state = "closing")
    <3>1. CASE CloseBegins(s)
      BY <3>1, <1>i DEF CloseBegins, MayClose, Free, Live, SessionAgrees
    <3>2. CASE closer[s] # "no"
      BY <3>2, <1>x DEF Live
    <3> QED BY <1>11, <3>1, <3>2 DEF SaveProfile, CloseEnds, CloseFails
  <2>3. DriveAgrees(s)'
    BY <2>1, <2>2 DEF DriveAgrees
  <2>4. \A r \in observed[s] : r \in Nat /\ r <= browser[s].revision
    BY <1>t, <1>i DEF SessionAgrees
  <2>c. ASSUME NEW pc \in {"no", "closing", "snapshot"}, CloseTo(s, pc)
        PROVE  /\ closer' \in [Browsers -> {"no", "closing", "snapshot"}] /\ closer'[s] = pc
               /\ \A t \in Browsers : t # s => closer'[t] = closer[t]
    BY <2>c, <1>t DEF CloseTo
  <2>l. \A t \in Browsers : t # s => ~Live(t)
    BY <2>2, <1>l
  <2>5. CASE CloseBegins(s)
    <3>1. /\ browser[s].state = "active" /\ Replace(s, "closing", FALSE) /\ CloseTo(s, "closing")
          /\ UNCHANGED <<handles, profileDir, saved>>
      BY <2>5 DEF CloseBegins
    <3>2. /\ browser' \in [Browsers -> SessionRow]
          /\ browser'[s].state = "closing" /\ browser'[s].revision = browser[s].revision + 1
          /\ \A t \in Browsers : t # s => browser'[t] = browser[t]
      BY <3>1, <1>r DEF LifecycleStates
    <3>3. BrowserTypes'
      BY <2>1, <2>c, <3>1, <3>2, <1>t DEF BrowserTypes
    <3>4. RevisionsLeft(s)' /\ profileDir = "present"
      BY <3>1, <3>2, <1>i, <1>v DEF SessionAgrees, RevisionsLeft, Live
    <3>5. SessionAgrees(s)'
      BY <2>1, <2>2, <2>4, <2>c, <3>1, <3>2, <3>4, <1>v DEF SessionAgrees
    <3> QED BY <2>1, <2>3, <2>c, <2>l, <3>1, <3>2, <3>3, <3>5, <1>v, <1>o
  <2>6. CASE SaveProfile(s)
    <3>1. /\ closer[s] = "closing" /\ saved' = TRUE /\ CloseTo(s, "snapshot")
          /\ UNCHANGED <<browser, handles, profileDir>>
      BY <2>6 DEF SaveProfile
    <3>2. BrowserTypes'
      BY <2>1, <2>c, <3>1, <1>t DEF BrowserTypes
    <3>3. SessionAgrees(s)'
      BY <2>1, <2>c, <3>1, <1>i DEF SessionAgrees, RevisionsLeft, Live
    <3>4. \A t \in Browsers : t # s => closer'[t] = closer[t]
      BY <2>c, <3>1
    <3>5. browser[s].revision <= browser'[s].revision
      BY <3>1, <1>v
    <3> QED BY <2>1, <2>3, <2>l, <3>1, <3>2, <3>3, <3>4, <3>5, <1>o
  <2>7. CASE CloseEnds(s) \/ CloseFails(s)
    <3>1. PICK state \in {"closed", "uncertain"}, effect \in BOOLEAN :
            /\ Replace(s, state, effect) /\ CloseTo(s, "no") /\ handles' = handles \ {s}
            /\ closer[s] # "no" /\ UNCHANGED saved /\ profileDir' \in {profileDir, "absent"}
      BY <2>7 DEF CloseEnds, CloseFails
    <3>2. /\ browser' \in [Browsers -> SessionRow]
          /\ browser'[s].state = state /\ browser'[s].revision = browser[s].revision + 1
          /\ \A t \in Browsers : t # s => browser'[t] = browser[t]
      BY <3>1, <1>r DEF LifecycleStates
    <3>3. BrowserTypes'
      BY <2>1, <2>c, <3>1, <3>2, <1>t DEF BrowserTypes
    <3>4. RevisionsLeft(s)'
      BY <2>2, <3>1, <3>2, <1>i, <1>v DEF SessionAgrees, RevisionsLeft
    <3>5. SessionAgrees(s)'
      BY <2>1, <2>2, <2>4, <2>c, <3>1, <3>2, <3>4, <1>v DEF SessionAgrees, Live
    <3>6. \A t \in Browsers : t # s => (t \in handles => t \in handles')
      BY <3>1
    <3> QED BY <2>1, <2>3, <2>c, <2>l, <3>1, <3>2, <3>3, <3>5, <3>6, <1>v, <1>o
  <2> QED BY <1>11, <2>5, <2>6, <2>7
\* A new daemon settles what the old one left.
<1>12. CASE RestartReconciles
  <2>1. /\ driving' = [s \in Browsers |-> Quiet] /\ closer' = [s \in Browsers |-> "no"] /\ handles' = {}
        /\ UNCHANGED <<observed, action, performed, profileDir, saved>>
        /\ browserFaults' \in 0..MaxBrowserFaults
    BY <1>12, <1>f DEF RestartReconciles
  <2>2. ASSUME NEW s \in Browsers
        PROVE  /\ browser'[s] \in SessionRow
               /\ ~Live(s) => browser'[s] = browser[s]
               /\ Live(s) => browser'[s].state = ReconciledState(s)
                             /\ browser'[s].revision = browser[s].revision + 1
               /\ ReconciledState(s) \in {"uncertain", "lost"}
    <3> DEFINE row == [state |-> ReconciledState(s), revision |-> browser[s].revision + 1,
                       effect |-> ReconciledState(s) = "uncertain"]
    <3>1. ReconciledState(s) \in {"uncertain", "lost"}
      BY DEF ReconciledState
    <3>2. row \in SessionRow /\ row.state = ReconciledState(s) /\ row.revision = browser[s].revision + 1
      BY <3>1, <1>v DEF SessionRow, LifecycleStates
    <3>3. browser'[s] = IF Live(s) THEN row ELSE browser[s]
      BY <1>12 DEF RestartReconciles, Live
    <3> HIDE DEF row
    <3> QED BY <3>1, <3>2, <3>3, <1>t
  <2>3. browser' \in [Browsers -> SessionRow]
    <3>1. browser' = [s \in Browsers |-> browser'[s]]
      BY <1>12 DEF RestartReconciles
    <3> QED BY <2>2, <3>1
  <2>4. BrowserTypes'
    BY <2>1, <2>3, <1>t DEF BrowserTypes, Drives, Quiet
  <2>5. ASSUME NEW s \in Browsers PROVE ~Live(s)'
    BY <2>2 DEF Live
  <2>6. ASSUME NEW s \in Browsers PROVE SessionAgrees(s)'
    <3>1. RevisionsLeft(s)'
      BY <2>2, <1>i, <1>v DEF SessionAgrees, RevisionsLeft, Live
    <3>2. \A r \in observed'[s] : r <= browser'[s].revision
      <4>1. \A r \in observed[s] : r \in Nat /\ r <= browser[s].revision
        BY <1>t, <1>i DEF SessionAgrees
      <4> QED BY <2>1, <2>2, <4>1, <1>v
    <3>3. browser'[s].state = "lost" =>
            \A k \in Keys : action[k].state # "none" /\ action[k].session = s => action[k].complete
      BY <2>2, <1>i DEF SessionAgrees, ReconciledState
    <3>4. driving'[s].pc = "free" /\ closer'[s] = "no"
      BY <2>1 DEF Quiet
    <3> QED BY <2>1, <2>5, <3>1, <3>2, <3>3, <3>4 DEF SessionAgrees, Live
  <2>7. \A s \in Browsers : DriveAgrees(s)'
    BY <2>1 DEF DriveAgrees, Quiet
  <2>8. (\A k \in Keys : ActionAgrees(k)') /\ ObservationOnce'
    <3>1. \A s \in Browsers : browser[s].revision <= browser'[s].revision
      BY <2>2, <1>v
    <3> QED BY <2>1, <2>3, <3>1, ActionsKeep
  <2> QED BY <2>4, <2>5, <2>6, <2>7, <2>8 DEF BrowserInv, ProfileExclusive
\* Without handles and requests, no session uses the profile that a person settles.
<1>13. CASE OperatorSettles
  <2>1. /\ handles = {} /\ (\A s \in Browsers : driving[s].pc = "free" /\ closer[s] = "no")
        /\ profileDir' = "absent" /\ saved' = TRUE
        /\ UNCHANGED <<browser, observed, action, performed, driving, closer, handles, browserFaults>>
    BY <1>13 DEF OperatorSettles, Free
  <2>2. \A s \in Browsers : ~Live(s)
    BY <2>1, <1>i DEF SessionAgrees, Live
  <2>3. BrowserTypes' /\ ProfileExclusive'
    BY <2>1, <2>2, <1>t DEF BrowserTypes, ProfileExclusive, Live
  <2>4. ASSUME NEW s \in Browsers PROVE SessionAgrees(s)'
    BY <2>1, <2>2, <1>i DEF SessionAgrees, RevisionsLeft, Live
  <2>5. \A s \in Browsers : DriveAgrees(s)'
    BY <2>1 DEF DriveAgrees
  <2>6. (\A k \in Keys : ActionAgrees(k)') /\ ObservationOnce'
    BY <2>1, <1>i DEF ActionAgrees, Recorded, ObservationOnce
  <2> QED BY <2>3, <2>4, <2>5, <2>6 DEF BrowserInv
<1>14. CASE UNCHANGED browserVars
  <2>1. UNCHANGED <<browser, observed, action, performed, driving, closer, handles, profileDir, saved, browserFaults>>
    BY <1>14 DEF browserVars
  <2> QED BY <2>1 DEF BrowserInv, BrowserTypes, SessionAgrees, RevisionsLeft, Live, DriveAgrees, Recorded,
                      ActionAgrees, ProfileExclusive, ObservationOnce
<1> QED BY <1>1, <1>2, <1>3, <1>4, <1>6, <1>7, <1>8, <1>9, <1>10, <1>11, <1>12, <1>13, <1>14
        DEF BrowserNext, BrowserStep

\* Whatever fails and however the daemon restarts: the page is acted on at most once per key
\* and observation, only while its session is active, and what the profile holds is saved
\* before its directory goes.
THEOREM BrowserStaysGoverned == BrowserSpec => BrowserGoverned
<1> USE BrowserAssumption
<1>1. BrowserInv => BrowserTypeOK /\ ActedOnce /\ ObservationOnce /\ LostMeansSettled
  <2> SUFFICES ASSUME BrowserInv PROVE BrowserTypeOK /\ ActedOnce /\ ObservationOnce /\ LostMeansSettled
    OBVIOUS
  <2>1. BrowserTypes /\ (\A s \in Browsers : SessionAgrees(s)) /\ \A k \in Keys : ActionAgrees(k)
    BY DEF BrowserInv
  <2>2. \A s \in Browsers : browser[s] \in [state : LifecycleStates, revision : 0..MaxRevisions + 3, effect : BOOLEAN]
    BY <2>1 DEF BrowserTypes, SessionRow, SessionAgrees, RevisionsLeft
  <2>3. browser \in [Browsers -> [state : LifecycleStates, revision : 0..MaxRevisions + 3, effect : BOOLEAN]]
    BY <2>1, <2>2 DEF BrowserTypes
  <2>4. performed \in [Keys -> 0..2] /\ ActedOnce
    BY <2>1 DEF BrowserTypes, ActedOnce
  <2>5. BrowserTypeOK
    BY <2>1, <2>3, <2>4 DEF BrowserTypes, BrowserTypeOK, SessionAgrees, ActionRow, Drives
  <2>6. LostMeansSettled
    <3>1. \A k \in Keys : performed[k] > 0 => action[k].state # "none"
      BY <2>1 DEF ActionAgrees, BrowserTypes
    <3> QED BY <2>1, <3>1 DEF SessionAgrees, LostMeansSettled
  <2> QED BY <2>4, <2>5, <2>6 DEF BrowserInv
<1>2. BrowserInv /\ [BrowserNext]_browserVars
        => [\A k \in Keys : performed'[k] # performed[k] => browser[action[k].session].state = "active"]_browserVars
  <2> SUFFICES ASSUME BrowserInv, BrowserNext, NEW k \in Keys, performed'[k] # performed[k]
               PROVE  browser[action[k].session].state = "active"
    OBVIOUS
  <2>1. PICK s \in Browsers : ActPerforms(s)
    BY DEF BrowserNext, BrowserStep, OpenBegins, OpenEnds, ObservePage, ObservationExpires, ActBegins,
           ActRefused, ActSettles, ActCompletes, ArtifactFails, CloseBegins, SaveProfile, CloseEnds,
           CloseFails, RestartReconciles, OperatorSettles
  <2>2. driving[s].pc = "journaled" /\ performed' = [performed EXCEPT ![driving[s].key] = @ + 1]
    BY <2>1 DEF ActPerforms
  <2>3. driving[s].key = k
    BY <2>2 DEF BrowserInv, BrowserTypes
  <2> QED BY <2>2, <2>3 DEF BrowserInv, DriveAgrees
<1>3. BrowserInv /\ [BrowserNext]_browserVars
        => [profileDir = "present" /\ profileDir' = "absent" => saved']_browserVars
  <2> SUFFICES ASSUME BrowserInv, BrowserNext, profileDir = "present", profileDir' = "absent"
               PROVE  saved'
    OBVIOUS
  <2>1. OperatorSettles \/ \E s \in Browsers : CloseEnds(s)
    BY DEF BrowserNext, BrowserStep, OpenBegins, OpenEnds, ObservePage, ObservationExpires, ActBegins,
           ActRefused, ActPerforms, ActSettles, ActCompletes, ArtifactFails, CloseBegins, SaveProfile,
           CloseFails, RestartReconciles
  <2>2. CASE OperatorSettles
    BY <2>2 DEF OperatorSettles
  <2>3. ASSUME NEW s \in Browsers, CloseEnds(s) PROVE saved'
    <3>1. closer[s] = "snapshot" /\ saved' = saved
      BY <2>3 DEF CloseEnds
    <3>2. saved
      BY <3>1 DEF BrowserInv, SessionAgrees
    <3> QED BY <3>1, <3>2
  <2> QED BY <2>1, <2>2, <2>3
<1> QED BY <1>1, <1>2, <1>3, BrowserInitially, BrowserStepKeeps, PTL
        DEF BrowserSpec, BrowserGoverned, DrivenWhileActive, ProfileKept

-----------------------------------------------------------------------------
(* The identity of a worker. *)

\* No certificate was issued for the key.
UnusedKey(k) == \A s \in Issued : certs[s].key # k

\* Serials are given in order.
SerialsInOrder == \E n \in 0..MaxSerials : Issued = 1..n

\* Every certificate has a key of its own, which the worker generated; a rotation's
\* certificate is for the key of its request.
CertificateRows ==
  /\ SerialsInOrder
  /\ \A s \in Issued : certs[s].key \in 1..made
  /\ \A s, t \in Issued : certs[s].key = certs[t].key => s = t
  /\ \A k \in KeyIds : rotation[k].serial # 0 =>
       rotation[k].serial \in Issued /\ certs[rotation[k].serial].key = k
  /\ ident.state = "none" => Issued = {} /\ files = Absent
  /\ ident.state # "none" => ident.current \in Issued

\* What the directory of a worker that was enrolled holds between two writes.
DirectoryHolds ==
  /\ files # Absent =>
       /\ ident.state # "none" /\ files.key # 0 /\ files.cert \in Issued
       /\ certs[ident.current].key \in {files.key, pending.key}
       /\ pending = NoPending => files.cert = files.identity /\ certs[files.cert].key = files.key
  /\ pending # NoPending =>
       /\ files # Absent /\ pending.key \in 1..made
       /\ rotation[pending.key].serial = 0 => pending.bundle = 0 /\ UnusedKey(pending.key)
       /\ rotation[pending.key].serial # 0 => ident.current = rotation[pending.key].serial
       /\ pending.bundle # 0 => pending.bundle = rotation[pending.key].serial

\* What the command in progress has done so far.
CommandHolds ==
  /\ identAt = "enrolling" => files = Absent /\ made # 0 /\ UnusedKey(made)
  /\ identAt = "enrolled" => files = Absent /\ ident.state = "active" /\ certs[ident.current].key = made
  /\ identAt \in {"asking", "answered", "key", "cert", "identity", "clear"} => pending # NoPending
  /\ identAt = "answered" => rotation[pending.key].serial # 0
  /\ identAt \in {"key", "cert", "identity", "clear"} => pending.bundle # 0
  /\ identAt \in {"cert", "identity", "clear"} => files.key = pending.key
  /\ identAt \in {"identity", "clear"} => files.cert = pending.bundle
  /\ identAt = "clear" => files.identity = pending.bundle

\* The daemon's rows, the directory and the command in progress agree.
IdentityInv ==
  /\ IdentityTypeOK /\ OneCurrentCertificate
  /\ CertificateRows /\ DirectoryHolds /\ CommandHolds

\* Nothing is issued, and no directory exists.
LEMMA IdentityInitially == IdentityInit => IdentityInv
<1> USE IdentityAssumption
<1> SUFFICES ASSUME IdentityInit PROVE IdentityInv
  OBVIOUS
<1>1. IdentityTypeOK
  BY DEF IdentityInit, IdentityTypeOK, KeyIds, Serials, Absent, NoPending
<1>2. Issued = {}
  BY DEF IdentityInit, Issued
<1>3. Issued = 1..0 /\ 0 \in 0..MaxSerials
  BY <1>2
<1>4. CertificateRows
  <2>1. \A k \in KeyIds : rotation[k].serial = 0
    BY DEF IdentityInit
  <2>2. SerialsInOrder
    BY <1>2, <1>3 DEF SerialsInOrder
  <2> QED BY <1>2, <2>1, <2>2 DEF IdentityInit, CertificateRows
<1> QED BY <1>1, <1>2, <1>4 DEF IdentityInit, IdentityInv, OneCurrentCertificate, DirectoryHolds, CommandHolds

\* The next serial is the one after those issued.
LEMMA SerialsFollow ==
  ASSUME NEW n \in 0..MaxSerials, Issued = 1..n
  PROVE  NextSerial = n + 1
<1>1. n \in Nat
  BY IdentityAssumption
<1>2. Cardinality(1..n) = n
  BY <1>1, FS_Interval
<1> QED BY <1>1, <1>2 DEF NextSerial

\* Whatever the daemon, the worker, time or a fault does next keeps the invariant.
LEMMA IdentityStep == IdentityInv /\ [IdentityNext]_identVars => IdentityInv'
<1> USE IdentityAssumption DEF KeyIds, Serials
<1> SUFFICES ASSUME IdentityInv, [IdentityNext]_identVars PROVE IdentityInv'
  OBVIOUS
<1>t. IdentityTypeOK /\ OneCurrentCertificate /\ CertificateRows /\ DirectoryHolds /\ CommandHolds
  BY DEF IdentityInv
<1>i. Issued \subseteq Serials
  BY DEF Issued
<1>o. ASSUME Issued' = Issued PROVE SerialsInOrder'
  BY <1>t, <1>o DEF CertificateRows, SerialsInOrder
<1>u. ASSUME UNCHANGED <<ident, certs, rotation, files, pending, made>>
      PROVE  OneCurrentCertificate' /\ CertificateRows' /\ DirectoryHolds'
  <2>1. Issued' = Issued
    BY <1>u DEF Issued
  <2>2. OneCurrentCertificate'
    BY <1>t, <1>u DEF OneCurrentCertificate
  <2>3. CertificateRows'
    BY <1>t, <1>o, <1>u, <2>1 DEF CertificateRows
  <2>4. DirectoryHolds'
    BY <1>t, <1>u, <2>1 DEF DirectoryHolds, UnusedKey
  <2> QED BY <2>2, <2>3, <2>4
<1>1. CASE UNCHANGED identVars
  <2>1. Issued' = Issued
    BY <1>1 DEF identVars, Issued
  <2>2. OneCurrentCertificate' /\ CertificateRows' /\ DirectoryHolds'
    BY <1>1, <1>u DEF identVars
  <2>3. CommandHolds'
    BY <1>1, <1>t, <2>1 DEF identVars, CommandHolds, UnusedKey
  <2>4. IdentityTypeOK'
    BY <1>1, <1>t DEF identVars, IdentityTypeOK
  <2> QED BY <2>2, <2>3, <2>4 DEF IdentityInv
<1>2. CASE CreateEnrollment \/ RevokeEnrollment \/ TokenDue
  <2>1. UNCHANGED <<ident, certs, rotation, files, pending, identAt, made, identSpent>>
    BY <1>2 DEF CreateEnrollment, RevokeEnrollment, TokenDue
  <2>2. token' \in [state : {"none", "active", "consumed", "revoked", "expired"}, due : BOOLEAN]
    BY <1>2, <1>t, ZenonT(60) DEF CreateEnrollment, RevokeEnrollment, TokenDue, IdentityTypeOK
  <2>3. Issued' = Issued
    BY <2>1 DEF Issued
  <2>4. OneCurrentCertificate' /\ CertificateRows' /\ DirectoryHolds'
    BY <2>1, <1>u
  <2>5. CommandHolds'
    BY <1>t, <2>1, <2>3 DEF CommandHolds, UnusedKey
  <2>6. IdentityTypeOK'
    BY <1>t, <2>1, <2>2 DEF IdentityTypeOK
  <2> QED BY <2>4, <2>5, <2>6 DEF IdentityInv
<1>3. CASE EnrollBegins
  <2>1. /\ identAt = "idle" /\ files = Absent /\ made < MaxKeys /\ made' = made + 1 /\ identAt' = "enrolling"
        /\ UNCHANGED <<token, ident, certs, rotation, files, pending, identSpent>>
    BY <1>3 DEF EnrollBegins
  <2>2. Issued' = Issued
    BY <2>1 DEF Issued
  <2>3. made \in 0..MaxKeys /\ made' \in 1..MaxKeys
    BY <1>t, <2>1 DEF IdentityTypeOK
  <2>4. IdentityTypeOK'
    BY <1>t, <2>1, <2>3 DEF IdentityTypeOK
  <2>5. UnusedKey(made)'
    BY <1>t, <2>1, <2>2, <2>3 DEF CertificateRows, UnusedKey
  <2>6. CertificateRows'
    <3>1. \A s \in Issued : certs[s].key \in 1..made'
      BY <1>t, <2>1, <2>3 DEF CertificateRows
    <3> QED BY <1>t, <1>o, <2>1, <2>2, <3>1 DEF CertificateRows
  <2>7. DirectoryHolds'
    BY <1>t, <2>1, <2>2, <2>3 DEF DirectoryHolds
  <2>8. CommandHolds'
    BY <2>1, <2>3, <2>5 DEF CommandHolds
  <2> QED BY <1>t, <2>1, <2>4, <2>6, <2>7, <2>8 DEF IdentityInv, OneCurrentCertificate
<1>4. CASE Enroll
  <2>1. /\ identAt = "enrolling" /\ NextSerial \in Serials
        /\ UNCHANGED <<rotation, files, pending, made, identSpent>>
    BY <1>4 DEF Enroll
  <2>2. files = Absent /\ made # 0 /\ UnusedKey(made) /\ pending = NoPending
    BY <1>t, <2>1 DEF CommandHolds, DirectoryHolds
  <2>3. CASE TokenUsable
    <3>1. ident.state = "none" /\ Issued = {}
      BY <2>3, <1>t DEF TokenUsable, CertificateRows
    <3>2. Issued = 1..0 /\ 0 \in 0..MaxSerials
      BY <3>1
    <3>3. NextSerial = 1
      BY <3>2, SerialsFollow
    <3>4. /\ ident' = [state |-> "active", current |-> 1, revision |-> 1]
          /\ certs' = [certs EXCEPT ![1] = [state |-> "current", key |-> made, valid |-> TRUE]]
          /\ token' = [token EXCEPT !.state = "consumed"]
          /\ identAt' = "enrolled"
      BY <1>4, <2>3, <3>3 DEF Enroll
    <3>5. 1 \in Serials /\ made \in 1..MaxKeys
      BY <2>1, <2>2, <3>3, <1>t DEF IdentityTypeOK
    <3>6. \A s \in Serials : certs[s].state = "none"
      BY <3>1 DEF Issued
    <3>7. IdentityTypeOK'
      <4>1. ident' \in [state : {"none", "active", "revoked"}, current : 0..MaxSerials, revision : Nat]
        BY <3>4, <3>5
      <4>2. certs' \in [Serials -> [state : {"none", "current", "superseded", "revoked"},
                                    key : 0..MaxKeys, valid : BOOLEAN]]
        BY <1>t, <3>4, <3>5 DEF IdentityTypeOK
      <4>3. token' \in [state : {"none", "active", "consumed", "revoked", "expired"}, due : BOOLEAN]
        BY <1>t, <3>4 DEF IdentityTypeOK
      <4> QED BY <1>t, <2>1, <3>4, <4>1, <4>2, <4>3 DEF IdentityTypeOK
    <3>8. /\ \A s \in Serials : s # 1 => certs'[s].state = "none"
          /\ certs'[1].state = "current" /\ certs'[1].key = made
      BY <1>t, <3>4, <3>5, <3>6 DEF IdentityTypeOK
    <3>9. Issued' = 1..1 /\ Issued' = {1}
      BY <3>5, <3>8 DEF Issued
    <3>10. OneCurrentCertificate'
      BY <3>4, <3>5, <3>8 DEF OneCurrentCertificate
    <3>11. \A k \in KeyIds : rotation'[k].serial = 0
      BY <1>t, <2>1, <3>1 DEF CertificateRows
    <3>12. CertificateRows'
      <4>1. SerialsInOrder'
        BY <3>5, <3>9 DEF SerialsInOrder
      <4>2. \A s \in Issued' : s = 1 /\ certs'[s].key \in 1..made'
        BY <2>1, <3>5, <3>8, <3>9
      <4>3. ident'.state # "none" /\ ident'.current \in Issued'
        BY <3>4, <3>9
      <4> QED BY <3>11, <4>1, <4>2, <4>3 DEF CertificateRows
    <3>13. DirectoryHolds' /\ CommandHolds'
      BY <2>1, <2>2, <3>4, <3>8 DEF DirectoryHolds, CommandHolds
    <3> QED BY <3>7, <3>10, <3>12, <3>13 DEF IdentityInv
  <2>4. CASE ~TokenUsable
    <3>1. /\ token' = [token EXCEPT !.state = IF @ = "active" /\ token.due THEN "expired" ELSE @]
          /\ identAt' = "idle" /\ UNCHANGED <<ident, certs>>
      BY <1>4, <2>4 DEF Enroll
    <3>2. Issued' = Issued
      BY <3>1 DEF Issued
    <3>3. token' \in [state : {"none", "active", "consumed", "revoked", "expired"}, due : BOOLEAN]
      BY <1>t, <3>1 DEF IdentityTypeOK
    <3>4. OneCurrentCertificate' /\ CertificateRows' /\ DirectoryHolds'
      BY <2>1, <3>1, <1>u
    <3>5. CommandHolds'
      BY <3>1 DEF CommandHolds
    <3>6. IdentityTypeOK'
      BY <1>t, <2>1, <3>1, <3>3 DEF IdentityTypeOK
    <3> QED BY <3>4, <3>5, <3>6 DEF IdentityInv
  <2> QED BY <2>3, <2>4
<1>5. CASE EnrollSaves
  <2>1. /\ identAt = "enrolled" /\ identAt' = "idle"
        /\ files' = [key |-> made, cert |-> ident.current, identity |-> ident.current]
        /\ UNCHANGED <<token, ident, certs, rotation, pending, made, identSpent>>
    BY <1>5 DEF EnrollSaves
  <2>2. files = Absent /\ ident.state = "active" /\ certs[ident.current].key = made /\ pending = NoPending
    BY <1>t, <2>1 DEF CommandHolds, DirectoryHolds
  <2>3. ident.current \in Issued /\ made \in 1..MaxKeys
    BY <1>t, <2>2 DEF CertificateRows, IdentityTypeOK
  <2>4. Issued' = Issued
    BY <2>1 DEF Issued
  <2>5. IdentityTypeOK'
    BY <1>t, <2>1, <2>3 DEF IdentityTypeOK
  <2>6. /\ files'.key = made /\ files'.cert = ident.current /\ files'.identity = ident.current
        /\ files' # Absent
    BY <2>1, <2>3 DEF Absent
  <2>7. CertificateRows'
    BY <1>t, <1>o, <2>1, <2>2, <2>4, <2>6 DEF CertificateRows
  <2>8. DirectoryHolds'
    BY <2>1, <2>2, <2>3, <2>4, <2>6 DEF DirectoryHolds
  <2>9. CommandHolds' /\ OneCurrentCertificate'
    BY <1>t, <2>1 DEF CommandHolds, OneCurrentCertificate
  <2> QED BY <2>5, <2>7, <2>8, <2>9 DEF IdentityInv
<1>6. CASE RotateBegins
  <2>1. identAt = "idle" /\ files # Absent /\ UNCHANGED <<token, ident, certs, rotation, files, identSpent>>
    BY <1>6 DEF RotateBegins
  <2>2. Issued' = Issued
    BY <2>1 DEF Issued
  <2>3. CASE pending = NoPending
    <3>1. /\ made < MaxKeys /\ made' = made + 1 /\ identAt' = "asking"
          /\ pending' = [key |-> made + 1, bundle |-> 0]
      BY <1>6, <2>3 DEF RotateBegins, PendingSaved
    <3>2. made \in 0..MaxKeys /\ made' \in 1..MaxKeys
      BY <1>t, <3>1 DEF IdentityTypeOK
    <3>3. pending'.key = made' /\ pending'.bundle = 0 /\ pending' # NoPending
      BY <3>1, <3>2 DEF NoPending
    <3>4. IdentityTypeOK'
      <4>1. pending' \in [key : 0..MaxKeys, bundle : 0..MaxSerials]
        BY <3>1, <3>2
      <4> QED BY <1>t, <2>1, <3>1, <3>2, <4>1 DEF IdentityTypeOK
    <3>5. CertificateRows'
      <4>1. \A s \in Issued : certs[s].key \in 1..made'
        BY <1>t, <3>1, <3>2 DEF CertificateRows
      <4> QED BY <1>t, <1>o, <2>1, <2>2, <4>1 DEF CertificateRows
    <3>6. UnusedKey(pending.key)' /\ rotation'[pending'.key].serial = 0
      BY <1>t, <2>1, <2>2, <3>1, <3>2, <3>3 DEF CertificateRows, UnusedKey
    <3>7. DirectoryHolds'
      <4>1. certs[ident.current].key \in 1..made
        BY <1>t, <2>1 DEF CertificateRows, DirectoryHolds
      <4>2. certs[ident.current].key = files.key
        BY <4>1, <1>t, <2>1, <2>3, <3>2 DEF DirectoryHolds, NoPending
      <4> QED BY <1>t, <2>1, <2>2, <3>2, <3>3, <3>6, <4>2 DEF DirectoryHolds
    <3>8. CommandHolds' /\ OneCurrentCertificate'
      BY <1>t, <2>1, <3>1, <3>3 DEF CommandHolds, OneCurrentCertificate
    <3> QED BY <3>4, <3>5, <3>7, <3>8 DEF IdentityInv
  <2>4. CASE pending # NoPending
    <3>1. /\ identAt' = IF pending.bundle = 0 THEN "asking" ELSE "key"
          /\ UNCHANGED <<made, pending>>
      BY <1>6, <2>4 DEF RotateBegins
    <3>2. OneCurrentCertificate' /\ CertificateRows' /\ DirectoryHolds'
      BY <2>1, <3>1, <1>u
    <3>3. CommandHolds'
      BY <2>4, <3>1 DEF CommandHolds
    <3>4. IdentityTypeOK'
      BY <1>t, <2>1, <3>1 DEF IdentityTypeOK
    <3> QED BY <3>2, <3>3, <3>4 DEF IdentityInv
  <2> QED BY <2>3, <2>4
<1>7. CASE Rotate
  <2>1. /\ identAt = "asking" /\ identAt' = "answered" /\ RotationPeer
        /\ UNCHANGED <<token, files, pending, made, identSpent>>
    BY <1>7 DEF Rotate
  <2>2. pending # NoPending /\ Request = pending.key
    BY <1>t, <2>1 DEF CommandHolds, Request
  <2> DEFINE k == pending.key
  <2>3. files # Absent /\ k \in 1..made /\ k \in KeyIds
    BY <1>t, <2>2 DEF DirectoryHolds, IdentityTypeOK
  <2>4. CASE KnownRotation(k)
    <3>1. UNCHANGED <<ident, certs, rotation>>
      BY <1>7, <2>2, <2>4 DEF Rotate
    <3>2. OneCurrentCertificate' /\ CertificateRows' /\ DirectoryHolds'
      BY <2>1, <3>1, <1>u
    <3>3. CommandHolds'
      BY <2>1, <2>2, <2>4, <3>1 DEF CommandHolds, KnownRotation
    <3>4. IdentityTypeOK'
      BY <1>t, <2>1, <3>1 DEF IdentityTypeOK
    <3> QED BY <3>2, <3>3, <3>4 DEF IdentityInv
  <2>5. CASE ~KnownRotation(k)
    <3>1. PICK n \in 0..MaxSerials : Issued = 1..n
      BY <1>t DEF CertificateRows, SerialsInOrder
    <3>2. NextSerial = n + 1
      BY <3>1, SerialsFollow
    <3>3. n + 1 \in Serials /\ ident.current = files.cert /\ ident.state = "active"
      BY <1>7, <2>1, <2>2, <2>5, <3>2 DEF Rotate, RotationPeer
    <3>4. PICK c \in Issued : c = ident.current /\ c = files.cert
      BY <1>t, <2>3, <3>3 DEF DirectoryHolds
    <3>5. /\ certs' = [certs EXCEPT ![c].state = "superseded",
                                    ![n + 1] = [state |-> "current", key |-> k, valid |-> TRUE]]
          /\ rotation' = [rotation EXCEPT ![k] = [prior |-> c, serial |-> n + 1]]
          /\ ident' = [ident EXCEPT !.current = n + 1, !.revision = @ + 1]
      BY <1>7, <2>2, <2>5, <3>2, <3>4 DEF Rotate
    <3>6. c \in 1..n /\ c # n + 1 /\ c \in Serials /\ n + 1 \in 1..MaxSerials /\ n + 1 # 0
      BY <3>1, <3>3, <3>4
    <3>7. k \in 1..MaxKeys
      BY <2>3
    <3>8. /\ certs' \in [Serials -> [state : {"none", "current", "superseded", "revoked"},
                                     key : 0..MaxKeys, valid : BOOLEAN]]
          /\ certs'[c].state = "superseded" /\ certs'[c].key = certs[c].key
          /\ certs'[n + 1].state = "current" /\ certs'[n + 1].key = k
          /\ \A s \in Serials \ {c, n + 1} : certs'[s] = certs[s]
      <4>1. certs \in [Serials -> [state : {"none", "current", "superseded", "revoked"},
                                   key : 0..MaxKeys, valid : BOOLEAN]]
        BY <1>t DEF IdentityTypeOK
      <4>2. PICK row \in [state : {"none", "current", "superseded", "revoked"}, key : 0..MaxKeys, valid : BOOLEAN] :
              row = [certs[c] EXCEPT !.state = "superseded"]
        BY <3>6, <4>1
      <4>0. k \in 0..MaxKeys
        BY <3>7
      <4>3. PICK new \in [state : {"none", "current", "superseded", "revoked"}, key : 0..MaxKeys, valid : BOOLEAN] :
              new = [state |-> "current", key |-> k, valid |-> TRUE]
        <5> HIDE DEF k
        <5> QED BY <4>0
      <4>4. certs' = [certs EXCEPT ![c] = row, ![n + 1] = new]
        BY <3>5, <3>6, <4>1, <4>2, <4>3
      <4>5. certs'[c] = row /\ certs'[n + 1] = new /\ \A s \in Serials \ {c, n + 1} : certs'[s] = certs[s]
        BY <3>6, <4>1, <4>4
      <4>6. row.state = "superseded" /\ row.key = certs[c].key /\ new.state = "current" /\ new.key = k
        BY <3>6, <4>1, <4>2, <4>3
      <4> QED BY <3>6, <4>1, <4>4, <4>5, <4>6
    <3>9. /\ rotation' \in [KeyIds -> [prior : 0..MaxSerials, serial : 0..MaxSerials]]
          /\ rotation'[k] = [prior |-> c, serial |-> n + 1]
          /\ \A j \in KeyIds \ {k} : rotation'[j] = rotation[j]
      <4> HIDE DEF k
      <4>1. rotation \in [KeyIds -> [prior : 0..MaxSerials, serial : 0..MaxSerials]]
        BY <1>t DEF IdentityTypeOK
      <4>2. [prior |-> c, serial |-> n + 1] \in [prior : 0..MaxSerials, serial : 0..MaxSerials]
        BY <3>6
      <4> QED BY <3>5, <3>7, <4>1, <4>2
    <3>10. /\ ident' \in [state : {"none", "active", "revoked"}, current : 0..MaxSerials, revision : Nat]
           /\ ident'.state = "active" /\ ident'.current = n + 1
      <4>1. PICK m \in 1..MaxSerials : m = n + 1
        BY <3>6
      <4>2. ident' = [ident EXCEPT !.current = m, !.revision = @ + 1]
        BY <3>5, <4>1
      <4>3. /\ ident' \in [state : {"none", "active", "revoked"}, current : 0..MaxSerials, revision : Nat]
            /\ ident'.state = "active" /\ ident'.current = m
        <5>1. ident \in [state : {"none", "active", "revoked"}, current : 0..MaxSerials, revision : Nat]
          BY <1>t DEF IdentityTypeOK
        <5>2. ident.revision + 1 \in Nat /\ m \in 0..MaxSerials
          BY <5>1
        <5> QED BY <3>3, <4>2, <5>1, <5>2
      <4> QED BY <4>1, <4>3
    <3>11. IdentityTypeOK'
      BY <1>t, <2>1, <3>8, <3>9, <3>10 DEF IdentityTypeOK
    <3>12. \A s \in Serials : certs[s].state # "none" <=> s \in 1..n
      BY <3>1 DEF Issued
    <3>13. \A s \in Serials : certs'[s].state # "none" <=> s \in 1..(n + 1)
      <4>1. ASSUME NEW s \in Serials PROVE certs'[s].state # "none" <=> s \in 1..(n + 1)
        <5>1. CASE s = c
          BY <5>1, <3>6, <3>8
        <5>2. CASE s = n + 1
          BY <5>2, <3>6, <3>8
        <5>3. CASE s # c /\ s # n + 1
          <6>1. certs'[s] = certs[s]
            BY <5>3, <3>8
          <6> QED BY <6>1, <5>3, <3>6, <3>12
        <5> QED BY <5>1, <5>2, <5>3
      <4> QED BY <4>1
    <3>14. Issued' = 1..(n + 1) /\ Issued \subseteq Issued' /\ Issued' \subseteq Issued \cup {n + 1}
      BY <3>1, <3>6, <3>13 DEF Issued
    <3>15. OneCurrentCertificate'
      <4>1. \A s \in Serials : certs[s].state = "current" <=> s = c
        BY <1>t, <3>3, <3>4, <3>6 DEF OneCurrentCertificate
      <4>2. \A s \in Serials : certs'[s].state = "current" <=> s = n + 1
        BY <3>6, <3>8, <4>1
      <4> QED BY <3>6, <3>10, <4>2 DEF OneCurrentCertificate
    <3>16. rotation[k].serial = 0 /\ UnusedKey(k)
      BY <1>t, <2>2, <2>5 DEF KnownRotation, DirectoryHolds
    <3>17. \A s \in Issued : s \in Serials /\ s # n + 1 /\ certs'[s].key = certs[s].key
      BY <3>1, <3>6, <3>8, <1>i
    <3>18. CertificateRows'
      <4>1. \A s \in Issued' : certs'[s].key \in 1..made'
        BY <1>t, <2>1, <2>3, <3>8, <3>14, <3>17 DEF CertificateRows
      <4>2. \A s, u \in Issued' : certs'[s].key = certs'[u].key => s = u
        <5> SUFFICES ASSUME NEW s \in Issued', NEW u \in Issued', certs'[s].key = certs'[u].key
                     PROVE  s = u
          OBVIOUS
        <5>1. CASE s \in Issued /\ u \in Issued
          BY <5>1, <1>t, <3>17 DEF CertificateRows
        <5>2. CASE s \notin Issued /\ u \in Issued
          <6>1. s = n + 1 /\ certs'[s].key = k
            BY <5>2, <3>8, <3>14
          <6>2. certs'[u].key = certs[u].key /\ certs[u].key # k
            BY <5>2, <3>16, <3>17 DEF UnusedKey
          <6> QED BY <6>1, <6>2
        <5>3. CASE s \in Issued /\ u \notin Issued
          <6>1. u = n + 1 /\ certs'[u].key = k
            BY <5>3, <3>8, <3>14
          <6>2. certs'[s].key = certs[s].key /\ certs[s].key # k
            BY <5>3, <3>16, <3>17 DEF UnusedKey
          <6> QED BY <6>1, <6>2
        <5> QED BY <5>1, <5>2, <5>3, <3>14
      <4>3. ASSUME NEW j \in KeyIds, rotation'[j].serial # 0
            PROVE  rotation'[j].serial \in Issued' /\ certs'[rotation'[j].serial].key = j
        <5>1. CASE j = k
          BY <5>1, <3>6, <3>8, <3>9, <3>14
        <5>2. CASE j # k
          <6>1. rotation'[j] = rotation[j]
            BY <5>2, <3>9
          <6>2. rotation[j].serial \in Issued /\ certs[rotation[j].serial].key = j
            BY <1>t, <4>3, <6>1 DEF CertificateRows
          <6> QED BY <6>1, <6>2, <3>14, <3>17
        <5> QED BY <5>1, <5>2
      <4>4. n + 1 \in 0..MaxSerials /\ n + 1 \in Issued'
        BY <3>6, <3>14
      <4>5. SerialsInOrder'
        BY <3>14, <4>4 DEF SerialsInOrder
      <4> QED BY <3>10, <4>1, <4>2, <4>3, <4>4, <4>5 DEF CertificateRows
    <3>19. DirectoryHolds'
      <4>1. /\ files' = files /\ pending' = pending /\ made' = made /\ files # Absent /\ pending # NoPending
            /\ files.key # 0 /\ files.cert \in Issued /\ k \in 1..made
            /\ pending.bundle = 0
        BY <1>t, <2>1, <2>2, <2>3, <3>16 DEF DirectoryHolds
      <4>2. certs'[ident'.current].key = k /\ ident'.state # "none" /\ ident'.current = rotation'[k].serial
        BY <3>8, <3>9, <3>10
      <4>3. files.cert \in Issued'
        BY <3>14, <4>1
      <4>4. rotation'[k].serial # 0
        BY <3>6, <3>9
      <4> QED BY <4>1, <4>2, <4>3, <4>4 DEF DirectoryHolds
    <3>20. CommandHolds'
      BY <2>1, <2>2, <3>6, <3>9 DEF CommandHolds
    <3> QED BY <3>11, <3>15, <3>18, <3>19, <3>20 DEF IdentityInv
  <2> QED BY <2>4, <2>5
<1>8. CASE RotateRefused \/ CommandDies
  <2>1. identAt' = "idle" /\ UNCHANGED <<token, ident, certs, rotation, files, pending, made>>
    BY <1>8 DEF RotateRefused, CommandDies
  <2>2. identSpent' \in 0..MaxIdentityFaults
    BY <1>8, <1>t DEF RotateRefused, CommandDies, IdentityFault, IdentityTypeOK
  <2>4. OneCurrentCertificate' /\ CertificateRows' /\ DirectoryHolds'
    BY <2>1, <1>u
  <2>5. token' = token /\ CommandHolds'
    BY <1>8, <2>1 DEF CommandHolds, RotateRefused, CommandDies
  <2>6. IdentityTypeOK'
    BY <1>t, <2>1, <2>2, <2>5 DEF IdentityTypeOK
  <2> QED BY <2>4, <2>5, <2>6 DEF IdentityInv
<1>9. CASE SaveBundle
  <2>1. /\ identAt = "answered" /\ identAt' = "key"
        /\ pending' = [key |-> Request, bundle |-> rotation[Request].serial]
        /\ UNCHANGED <<token, ident, certs, rotation, files, made, identSpent>>
    BY <1>9 DEF SaveBundle
  <2>2. pending # NoPending /\ Request = pending.key /\ rotation[pending.key].serial # 0
    BY <1>t, <2>1 DEF CommandHolds, Request
  <2>3. pending.key \in 1..made /\ made \in 0..MaxKeys
    BY <1>t, <2>2 DEF DirectoryHolds, IdentityTypeOK
  <2>4. /\ pending'.key = pending.key /\ pending'.bundle = rotation[pending.key].serial
        /\ pending' # NoPending
    BY <2>1, <2>2 DEF NoPending
  <2>5. IdentityTypeOK'
    <3>1. rotation[pending.key].serial \in 0..MaxSerials /\ pending.key \in 0..MaxKeys
      BY <1>t, <2>3 DEF IdentityTypeOK
    <3>2. pending' \in [key : 0..MaxKeys, bundle : 0..MaxSerials]
      BY <2>1, <2>2, <3>1
    <3> QED BY <1>t, <2>1, <3>2 DEF IdentityTypeOK
  <2>6. Issued' = Issued
    BY <2>1 DEF Issued
  <2>7. CertificateRows'
    BY <1>t, <1>o, <2>1, <2>6 DEF CertificateRows
  <2>8. DirectoryHolds'
    BY <1>t, <2>1, <2>2, <2>3, <2>4, <2>6 DEF DirectoryHolds
  <2>9. CommandHolds' /\ OneCurrentCertificate'
    BY <1>t, <2>1, <2>2, <2>4 DEF CommandHolds, OneCurrentCertificate
  <2> QED BY <2>5, <2>7, <2>8, <2>9 DEF IdentityInv
<1>10. CASE Install
  <2>1. /\ identAt \in {"key", "cert", "identity"}
        /\ UNCHANGED <<token, ident, certs, rotation, pending, made, identSpent>>
    BY <1>10 DEF Install
  <2>2. pending # NoPending /\ pending.bundle # 0
    BY <1>t, <2>1 DEF CommandHolds
  <2>3. PICK k \in KeyIds : k = pending.key /\ k \in 1..made
    BY <1>t, <2>2 DEF DirectoryHolds, IdentityTypeOK
  <2>4. PICK b \in Issued : b = pending.bundle /\ b = rotation[k].serial /\ b = ident.current /\ certs[b].key = k
    BY <1>t, <2>2, <2>3 DEF DirectoryHolds, CertificateRows
  <2>5. files # Absent /\ files.key # 0 /\ ident.state # "none" /\ files.cert \in Issued
    BY <1>t, <2>2 DEF DirectoryHolds
  <2>6. Issued' = Issued
    BY <2>1 DEF Issued
  <2>7. b \in 1..MaxSerials /\ k \in 1..MaxKeys
    BY <2>3, <2>4, <1>i
  <2>8. /\ files' \in [key : 0..MaxKeys, cert : 0..MaxSerials, identity : 0..MaxSerials]
        /\ files'.key # 0 /\ files'.cert \in Issued
        /\ files'.key \in {files.key, k}
        /\ identAt' \in {"cert", "identity", "clear"}
        /\ identAt' \in {"cert", "identity", "clear"} => files'.key = k
        /\ identAt' \in {"identity", "clear"} => files'.cert = b
        /\ identAt' = "clear" => files'.identity = b
    <3>1. files \in [key : 0..MaxKeys, cert : 0..MaxSerials, identity : 0..MaxSerials]
      BY <1>t DEF IdentityTypeOK
    <3>2. CASE identAt = "key"
      <4>1. files' = [files EXCEPT !.key = k] /\ identAt' = "cert"
        BY <1>10, <3>2, <2>3 DEF Install
      <4> QED BY <3>1, <4>1, <2>5, <2>7
    <3>3. CASE identAt = "cert"
      <4>1. files' = [files EXCEPT !.cert = b] /\ identAt' = "identity" /\ files.key = k
        BY <1>10, <1>t, <3>3, <2>3, <2>4 DEF Install, CommandHolds
      <4> QED BY <3>1, <4>1, <2>5, <2>7
    <3>4. CASE identAt = "identity"
      <4>1. files' = [files EXCEPT !.identity = b] /\ identAt' = "clear" /\ files.key = k /\ files.cert = b
        BY <1>10, <1>t, <3>4, <2>3, <2>4 DEF Install, CommandHolds
      <4> QED BY <3>1, <4>1, <2>5, <2>7
    <3> QED BY <2>1, <3>2, <3>3, <3>4
  <2>9. files' # Absent
    BY <2>8 DEF Absent
  <2>10. IdentityTypeOK'
    BY <1>t, <2>1, <2>8 DEF IdentityTypeOK
  <2>11. CertificateRows'
    BY <1>t, <1>o, <2>1, <2>5, <2>6 DEF CertificateRows
  <2>12. DirectoryHolds'
    BY <1>t, <2>1, <2>2, <2>3, <2>4, <2>5, <2>6, <2>8, <2>9 DEF DirectoryHolds, UnusedKey
  <2>13. CommandHolds' /\ OneCurrentCertificate'
    BY <1>t, <2>1, <2>2, <2>3, <2>4, <2>8 DEF CommandHolds, OneCurrentCertificate
  <2> QED BY <2>10, <2>11, <2>12, <2>13 DEF IdentityInv
<1>11. CASE RotateEnds
  <2>1. /\ identAt = "clear" /\ identAt' = "idle" /\ pending' = NoPending
        /\ UNCHANGED <<token, ident, certs, rotation, files, made, identSpent>>
    BY <1>11 DEF RotateEnds
  <2>2. /\ pending # NoPending /\ pending.bundle # 0 /\ files.key = pending.key
        /\ files.cert = pending.bundle /\ files.identity = pending.bundle
    BY <1>t, <2>1 DEF CommandHolds
  <2>3. PICK k \in KeyIds : k = pending.key
    BY <1>t, <2>2 DEF DirectoryHolds, IdentityTypeOK
  <2>4. /\ pending.bundle = rotation[k].serial /\ pending.bundle = ident.current
        /\ certs[pending.bundle].key = k
    BY <1>t, <2>2, <2>3 DEF DirectoryHolds, CertificateRows
  <2>5. Issued' = Issued
    BY <2>1 DEF Issued
  <2>6. IdentityTypeOK'
    BY <1>t, <2>1 DEF IdentityTypeOK, NoPending
  <2>7. CertificateRows'
    BY <1>t, <1>o, <2>1, <2>5 DEF CertificateRows
  <2>8. DirectoryHolds'
    BY <1>t, <2>1, <2>2, <2>3, <2>4, <2>5 DEF DirectoryHolds
  <2>9. CommandHolds' /\ OneCurrentCertificate'
    BY <1>t, <2>1 DEF CommandHolds, OneCurrentCertificate
  <2> QED BY <2>6, <2>7, <2>8, <2>9 DEF IdentityInv
<1>12. CASE RevokeIdentity
  <2>1. /\ ident.state = "active" /\ files # Absent /\ certs' = RevokesAll
        /\ ident' = [ident EXCEPT !.state = "revoked", !.revision = @ + 1]
        /\ UNCHANGED <<token, rotation, files, pending, identAt, made, identSpent>>
    BY <1>12 DEF RevokeIdentity
  <2>2. /\ ident' \in [state : {"none", "active", "revoked"}, current : 0..MaxSerials, revision : Nat]
        /\ ident'.state = "revoked" /\ ident'.current = ident.current
    <3>1. ident \in [state : {"none", "active", "revoked"}, current : 0..MaxSerials, revision : Nat]
      BY <1>t DEF IdentityTypeOK
    <3>2. ident.revision + 1 \in Nat
      BY <3>1
    <3> QED BY <2>1, <3>1, <3>2
  <2>3. /\ certs' \in [Serials -> [state : {"none", "current", "superseded", "revoked"},
                                   key : 0..MaxKeys, valid : BOOLEAN]]
        /\ \A s \in Serials : certs'[s].key = certs[s].key
        /\ \A s \in Serials : certs'[s].state = IF s \in Issued THEN "revoked" ELSE "none"
    <3>1. certs \in [Serials -> [state : {"none", "current", "superseded", "revoked"},
                                 key : 0..MaxKeys, valid : BOOLEAN]]
      BY <1>t DEF IdentityTypeOK
    <3>2. ASSUME NEW s \in Serials
          PROVE  /\ certs'[s] \in [state : {"none", "current", "superseded", "revoked"},
                                   key : 0..MaxKeys, valid : BOOLEAN]
                 /\ certs'[s].key = certs[s].key
                 /\ certs'[s].state = IF s \in Issued THEN "revoked" ELSE "none"
      <4>1. certs'[s] = IF s \in Issued THEN [certs[s] EXCEPT !.state = "revoked"] ELSE certs[s]
        BY <2>1 DEF RevokesAll
      <4>2. s \notin Issued => certs[s].state = "none"
        BY DEF Issued
      <4> QED BY <3>1, <4>1, <4>2
    <3>3. certs' = [s \in Serials |-> certs'[s]]
      BY <2>1 DEF RevokesAll
    <3> QED BY <3>2, <3>3
  <2>4. Issued' = Issued
    BY <2>3, <1>i DEF Issued
  <2>5. IdentityTypeOK'
    BY <1>t, <2>1, <2>2, <2>3 DEF IdentityTypeOK
  <2>6. OneCurrentCertificate'
    BY <2>2, <2>3 DEF OneCurrentCertificate
  <2>7. CertificateRows'
    <3>1. \A k \in KeyIds : rotation'[k].serial # 0 =>
             rotation'[k].serial \in Issued' /\ certs'[rotation'[k].serial].key = k
      BY <1>t, <1>i, <2>1, <2>3, <2>4 DEF CertificateRows
    <3>2. \A s, u \in Issued' : certs'[s].key = certs'[u].key => s = u
      BY <1>t, <1>i, <2>3, <2>4 DEF CertificateRows
    <3>3. \A s \in Issued' : certs'[s].key \in 1..made'
      BY <1>t, <1>i, <2>1, <2>3, <2>4 DEF CertificateRows
    <3>4. ident.state # "none" => ident.current \in Issued
      BY <1>t DEF CertificateRows
    <3>5. SerialsInOrder'
      BY <1>o, <2>4
    <3> QED BY <2>1, <2>2, <2>4, <3>1, <3>2, <3>3, <3>4, <3>5 DEF CertificateRows
  <2>8. \A k : UnusedKey(k) => (\A s \in Issued' : certs'[s].key # k)
    BY <1>i, <2>3, <2>4 DEF UnusedKey
  <2>9. ident.current \in Serials /\ files.cert \in Serials
    BY <1>t, <1>i, <2>1 DEF CertificateRows, DirectoryHolds
  <2>10. DirectoryHolds'
    <3>1. /\ files' = files /\ pending' = pending /\ made' = made /\ rotation' = rotation
          /\ ident'.state # "none" /\ ident'.current = ident.current
      BY <2>1, <2>2
    <3>2. certs'[ident.current].key = certs[ident.current].key /\ certs'[files.cert].key = certs[files.cert].key
      BY <2>3, <2>9
    <3>3. UnusedKey(pending.key) => UnusedKey(pending.key)'
      BY <3>1, <2>8 DEF UnusedKey
    <3> QED BY <1>t, <2>4, <3>1, <3>2, <3>3 DEF DirectoryHolds
  <2>11. CommandHolds'
    BY <1>t, <2>1 DEF CommandHolds
  <2> QED BY <2>5, <2>6, <2>7, <2>10, <2>11 DEF IdentityInv
<1>13. ASSUME NEW l \in Serials, CertificateLapses(l) PROVE IdentityInv'
  <2>1. /\ certs' = [certs EXCEPT ![l].valid = FALSE] /\ identSpent' \in 0..MaxIdentityFaults
        /\ UNCHANGED <<token, ident, rotation, files, pending, identAt, made>>
    BY <1>13, <1>t DEF CertificateLapses, IdentityFault, IdentityTypeOK
  <2>2. /\ certs' \in [Serials -> [state : {"none", "current", "superseded", "revoked"},
                                   key : 0..MaxKeys, valid : BOOLEAN]]
        /\ \A s \in Serials : certs'[s].key = certs[s].key /\ certs'[s].state = certs[s].state
    <3>1. certs \in [Serials -> [state : {"none", "current", "superseded", "revoked"},
                                 key : 0..MaxKeys, valid : BOOLEAN]]
      BY <1>t DEF IdentityTypeOK
    <3>2. PICK row \in [state : {"none", "current", "superseded", "revoked"}, key : 0..MaxKeys, valid : BOOLEAN] :
            row = [certs[l] EXCEPT !.valid = FALSE]
      <4>1. l \in Serials /\ certs[l] \in [state : {"none", "current", "superseded", "revoked"},
                                           key : 0..MaxKeys, valid : BOOLEAN]
        BY <3>1
      <4>2. [certs[l] EXCEPT !.valid = FALSE] \in [state : {"none", "current", "superseded", "revoked"},
                                                   key : 0..MaxKeys, valid : BOOLEAN]
        BY <4>1
      <4> QED BY <4>2
    <3>3. certs' = [certs EXCEPT ![l] = row]
      BY <2>1, <3>1, <3>2
    <3>4. row.key = certs[l].key /\ row.state = certs[l].state
      BY <3>1, <3>2
    <3> QED BY <1>13, <3>1, <3>3, <3>4
  <2>3. Issued' = Issued
    BY <2>2 DEF Issued
  <2>4. IdentityTypeOK'
    BY <1>t, <2>1, <2>2 DEF IdentityTypeOK
  <2>5. OneCurrentCertificate'
    BY <1>t, <2>1, <2>2 DEF OneCurrentCertificate
  <2>6. CertificateRows'
    <3>1. \A k \in KeyIds : rotation'[k].serial # 0 =>
             rotation'[k].serial \in Issued' /\ certs'[rotation'[k].serial].key = k
      BY <1>t, <1>i, <2>1, <2>2, <2>3 DEF CertificateRows
    <3>2. \A s, u \in Issued' : certs'[s].key = certs'[u].key => s = u
      BY <1>t, <1>i, <2>2, <2>3 DEF CertificateRows
    <3>3. \A s \in Issued' : certs'[s].key \in 1..made'
      BY <1>t, <1>i, <2>1, <2>2, <2>3 DEF CertificateRows
    <3>5. SerialsInOrder'
      BY <1>o, <2>3
    <3> QED BY <1>t, <2>1, <2>3, <3>1, <3>2, <3>3, <3>5 DEF CertificateRows
  <2>7. \A k : UnusedKey(k) => (\A s \in Issued' : certs'[s].key # k)
    BY <1>i, <2>2, <2>3 DEF UnusedKey
  <2>8. ident.state # "none" => ident.current \in Serials
    BY <1>t, <1>i DEF CertificateRows
  <2>9. files # Absent => files.cert \in Serials
    BY <1>t, <1>i DEF DirectoryHolds
  <2>10. DirectoryHolds'
    <3>1. UnusedKey(pending.key) => UnusedKey(pending.key)'
      BY <2>1, <2>7 DEF UnusedKey
    <3> QED BY <1>t, <2>1, <2>2, <2>3, <2>8, <2>9, <3>1 DEF DirectoryHolds
  <2>11. CommandHolds'
    BY <1>t, <2>1, <2>2, <2>7, <2>8, ZenonT(60) DEF CommandHolds, UnusedKey
  <2> QED BY <2>4, <2>5, <2>6, <2>10, <2>11 DEF IdentityInv
<1> QED BY <1>1, <1>2, <1>3, <1>4, <1>5, <1>6, <1>7, <1>8, <1>9, <1>10, <1>11, <1>12, <1>13 DEF IdentityNext

\* Wherever enrollment, rotation or revocation is interrupted, the daemon and the worker
\* agree on one identity: one current certificate, whose private key the directory still
\* holds, changed by a recorded rotation only.
THEOREM IdentityStaysWhole == IdentitySpec => IdentityWhole
<1> USE IdentityAssumption DEF KeyIds, Serials
<1>1. IdentityInv => IdentityTypeOK /\ OneCurrentCertificate /\ KeyRecoverable /\ FilesAgree /\ RotationAnswer
  <2> SUFFICES ASSUME IdentityInv PROVE KeyRecoverable /\ FilesAgree /\ RotationAnswer
    BY DEF IdentityInv
  <2>1. IdentityTypeOK /\ CertificateRows /\ DirectoryHolds
    BY DEF IdentityInv
  <2>2. KeyRecoverable /\ FilesAgree
    BY <2>1 DEF KeyRecoverable, FilesAgree, DirectoryHolds
  <2>3. pending.bundle # 0 => certs[pending.bundle].key = pending.key
    <3> SUFFICES ASSUME pending.bundle # 0 PROVE certs[pending.bundle].key = pending.key
      OBVIOUS
    <3>1. pending # NoPending
      BY DEF NoPending
    <3>2. PICK k \in KeyIds : k = pending.key
      BY <2>1, <3>1 DEF DirectoryHolds, IdentityTypeOK
    <3>3. pending.bundle = rotation[k].serial
      BY <2>1, <3>1, <3>2 DEF DirectoryHolds
    <3> QED BY <2>1, <3>2, <3>3 DEF CertificateRows
  <2> QED BY <2>1, <2>2, <2>3 DEF RotationAnswer, CertificateRows
<1>2. IdentityInv /\ [IdentityNext]_identVars
        => [ ident.state # "none" /\ ident'.current # ident.current =>
               \E k \in KeyIds : rotation'[k] = [prior |-> ident.current, serial |-> ident'.current] ]_identVars
  <2> SUFFICES ASSUME IdentityInv, IdentityNext, ident.state # "none", ident'.current # ident.current
               PROVE  \E k \in KeyIds : rotation'[k] = [prior |-> ident.current, serial |-> ident'.current]
    OBVIOUS
  <2>1. IdentityTypeOK /\ CertificateRows /\ DirectoryHolds /\ CommandHolds
    BY DEF IdentityInv
  <2>2. CASE Rotate
    <3>1. identAt = "asking" /\ pending # NoPending /\ Request = pending.key
      BY <2>1, <2>2 DEF Rotate, CommandHolds, Request
    <3>2. PICK k \in KeyIds : k = pending.key
      BY <2>1, <3>1 DEF DirectoryHolds, IdentityTypeOK
    <3>3. /\ rotation' = [rotation EXCEPT ![k] = [prior |-> files.cert, serial |-> NextSerial]]
          /\ ident' = [ident EXCEPT !.current = NextSerial, !.revision = @ + 1]
          /\ ident.current = files.cert
      BY <2>2, <3>1, <3>2 DEF Rotate
    <3>4. ident'.current = NextSerial /\ rotation'[k] = [prior |-> files.cert, serial |-> NextSerial]
      BY <2>1, <3>3 DEF IdentityTypeOK
    <3> QED BY <3>2, <3>3, <3>4
  <2>3. CASE RevokeIdentity
    BY <2>1, <2>3 DEF RevokeIdentity, IdentityTypeOK
  <2>4. CASE Enroll
    BY <2>4 DEF Enroll, TokenUsable
  <2> QED BY <2>2, <2>3, <2>4 DEF IdentityNext, CreateEnrollment, RevokeEnrollment, TokenDue, EnrollBegins,
             EnrollSaves, RotateBegins, RotateRefused, SaveBundle, Install, RotateEnds, CommandDies,
             CertificateLapses
<1> QED BY <1>1, <1>2, IdentityInitially, IdentityStep, PTL DEF IdentitySpec, IdentityWhole, RotationChain

-----------------------------------------------------------------------------
(* Deliveries of a worker. *)

\* A set of numbers has a least one.
LEMMA LeastNumber ==
  ASSUME NEW T, T \subseteq Nat, T # {}
  PROVE  \E n \in T : \A m \in T : n <= m
<1> DEFINE Below(n) == 0..n
           F == {Below(n) : n \in T}
<1>1. F \subseteq FiniteSubsetsOf(Nat) /\ F # {}
  <2>1. \A n \in T : Below(n) \in SUBSET Nat /\ IsFiniteSet(Below(n))
    BY FS_Interval
  <2> QED
    BY <2>1 DEF FiniteSubsetsOf
<1>2. PICK x \in F : \A y \in F : <<y, x>> \notin StrictSubsetOrdering(Nat)
  <2>1. IsWellFoundedOn(StrictSubsetOrdering(Nat), FiniteSubsetsOf(Nat))
    BY FS_StrictSubsetOrderingWellFounded
  <2> HIDE DEF F
  <2> QED
    BY <1>1, <2>1, WFMin
<1>3. PICK n \in T : x = Below(n)
  OBVIOUS
<1>4. ASSUME NEW m \in T, ~(n <= m) PROVE FALSE
  <2>1. Below(m) \subseteq Below(n) /\ Below(m) # Below(n)
    <3>1. n \in Below(n) /\ n \notin Below(m)
      BY <1>4
    <3>2. Below(m) \subseteq Below(n)
      BY <1>4
    <3> QED
      BY <3>1, <3>2
  <2>2. Below(m) \in SUBSET Nat /\ Below(n) \in SUBSET Nat
    OBVIOUS
  <2>3. <<Below(m), Below(n)>> \in StrictSubsetOrdering(Nat)
    <3> HIDE DEF Below
    <3> QED BY <2>1, <2>2 DEF StrictSubsetOrdering
  <2> QED
    BY <1>2, <1>3, <2>3
<1> QED
  BY <1>4

\* A result is in the journal; a lease the journal has let go of.
HasResult == journal.stage \in {"executed", "submitted"}
Past(c) == c # journal.claim /\ lease[c].state # "none"

\* What the journal says at each of its stages.
StageInv ==
  /\ journal.stage = "none" => journal = Blank
  /\ journal.stage # "none" => journal.claim \in Claims
  /\ journal.stage \in {"claimed", "executed", "submitted"} =>
       /\ lease[journal.claim].state # "none"
       /\ lapsed => lease[journal.claim].over \/ lease[journal.claim].renewed
  /\ IF HasResult THEN journal.run \in 1..MaxRuns ELSE journal.run = 0 /\ journal.uploaded = NoUploads
  /\ journal.stage = "submitted" => Missing = {}

\* Where the pass is, the journal is at the stage that leads there.
PlaceInv ==
  /\ passAt = "claim" => journal.stage = "requested" /\ ~lapsed
  /\ passAt = "begin" => journal.stage \in {"claimed", "executed"}
  /\ passAt \in {"execute", "ran"} => journal.stage = "claimed"
  /\ passAt = "ran" => inHand.run \in 1..MaxRuns
  /\ passAt \in {"upload", "committing", "submit"} => journal.stage = "executed" /\ inHand.run = journal.run
  /\ passAt = "submit" => Missing = {}
  /\ passAt = "complete" => journal.stage = "submitted"
  /\ passAt = "clear" => /\ journal.stage \in {"claimed", "executed", "submitted"}
                         /\ lapsed \/ \E d \in completion : d.claim = journal.claim

\* An upload of the run that is in the journal.
OfJournal(u) == u \in Opened /\ upload[u].claim = journal.claim /\ upload[u].run = journal.run

\* Uploads are numbered; those under a lease the journal still names come after its result.
UploadInv ==
  /\ \E n \in 0..MaxUploads : Opened = 1..n
  /\ \A u \in Opened : /\ upload[u].claim \in Claims
                       /\ Past(upload[u].claim) \/ (HasResult /\ upload[u].claim = journal.claim)
  /\ \A o \in Outputs : journal.uploaded[o] # 0 => OfJournal(journal.uploaded[o])
  /\ passAt = "committing" => OfJournal(inHand.upload) /\ upload[inHand.upload].output \in Outputs

\* A completion is for the submission in the journal or for a lease it has let go of.
CompletionInv ==
  /\ \A d \in completion : /\ d.id <= submitted /\ d.artifacts \subseteq Opened
                           /\ Past(d.claim) \/ (journal.stage = "submitted" /\ d.claim = journal.claim)
  /\ journal.stage = "submitted" =>
       /\ journal.submission <= submitted
       /\ \A d \in completion : d.id = journal.submission <=> d.claim = journal.claim
  /\ EvidenceOfRun /\ CompletedOnce

\* The journal still holds the result of a claim, or has let go of its lease.
KeptInv == \A c \in kept : Past(c) \/ (HasResult /\ c = journal.claim)

DeliveryInv ==
  /\ DeliveryTypeOK /\ StageInv /\ PlaceInv /\ UploadInv /\ CompletionInv /\ LeaseRemembered
  /\ KeptInv

\* Constants and records, by type.
LEMMA DeliveryConstants ==
  /\ MaxClaims \in Nat /\ MaxRuns \in Nat /\ MaxUploads \in Nat /\ UploadQuota \in Nat
  /\ MaxDeliveryFaults \in Nat /\ Claims \subseteq Nat /\ 0 \notin Claims /\ UploadIds \subseteq Nat
  /\ 0 \notin UploadIds /\ 0 \in 0..MaxRuns /\ 0 \in 0..MaxUploads /\ 0 \in 0..MaxClaims
  /\ Claims = 1..MaxClaims /\ UploadIds = 1..MaxUploads
BY DeliveryAssumption DEF Claims, UploadIds

\* A new request takes a claim that was never made, a journaled one keeps its own.
LEMMA NextRequestType ==
  ASSUME DeliveryInv, journal.stage \in {"none", "requested"}, journal.stage = "none" => Unbound # {}
  PROVE  /\ NextRequest \in Claims
         /\ journal.stage = "requested" => NextRequest = journal.claim
         /\ journal.stage = "none" => lease[NextRequest].state = "none"
<1>1. CASE journal.stage = "requested"
  BY <1>1 DEF NextRequest, DeliveryInv, StageInv
<1>2. CASE journal.stage = "none"
  <2>1. \E c \in Unbound : \A d \in Unbound : c <= d
    BY <1>2, DeliveryConstants, LeastNumber DEF Unbound
  <2>2. NextRequest \in Unbound
    BY <1>2, <2>1 DEF NextRequest
  <2> QED
    BY <1>2, <2>2 DEF Unbound
<1> QED
  BY <1>1, <1>2

\* What the journal says keeps true.
LEMMA StagesKept == DeliveryInv /\ [DeliveryNext]_delVars => StageInv'
<1> SUFFICES ASSUME DeliveryInv, [DeliveryNext]_delVars PROVE StageInv'
  OBVIOUS
<1> USE DEF DeliveryInv, StageInv, PlaceInv, DeliveryTypeOK, HasResult, Blank, Missing
<1>1. CASE BeginPass
  <2>1. CASE journal.stage \in {"none", "requested"} /\ (journal.stage = "none" => Unbound # {})
    BY <1>1, <2>1, NextRequestType, ZenonT(60) DEF BeginPass, GivenUp
  <2>2. CASE journal.stage \in {"submitted", "claimed", "executed"}
    BY <1>1, <2>2 DEF BeginPass, GivenUp
  <2> QED
    BY <1>1, <2>1, <2>2 DEF BeginPass
<1>2. CASE Claim
  <2>1. /\ lease'[journal.claim].state # "none" /\ (lapsed' => lease'[journal.claim].over)
    BY <1>2 DEF Claim
  <2>2. /\ journal'.claim = journal.claim /\ journal'.run = journal.run /\ journal'.uploaded = journal.uploaded
        /\ journal.stage = "requested" /\ journal'.stage \in {"requested", "claimed"}
    BY <1>2 DEF Claim, Answered, AnswerLost, Stage
  <2> QED
    BY <2>1, <2>2
<1>3. CASE NothingQueued
  BY <1>3, DeliveryConstants DEF NothingQueued
<1>4. CASE BeginTask
  BY <1>4, DeliveryConstants, SMTT(60) DEF BeginTask, GivenUp, LeaseAlive, Answered, AnswerLost, DeliveryFault
<1>5. CASE Execute
  BY <1>5, DeliveryConstants DEF Execute
<1>6. CASE SaveExecution
  BY <1>6, DeliveryConstants DEF SaveExecution, KeepExecution
<1>7. CASE UploadsDone
  BY <1>7, DeliveryConstants DEF UploadsDone, KeeperFailed
<1>8. CASE CommitOutput
  <2>1. /\ journal'.claim = journal.claim /\ journal'.run = journal.run /\ journal'.stage = journal.stage
        /\ UNCHANGED <<lease, lapsed>> /\ journal.stage = "executed"
    BY <1>8 DEF CommitOutput, Answered, AnswerLost
  <2> QED
    BY <2>1
<1>9. CASE PrepareSubmission
  BY <1>9, DeliveryConstants DEF PrepareSubmission, SavedSubmission
<1>10. CASE DeliverResult
  BY <1>10, DeliveryConstants DEF DeliverResult, Answered, AnswerLost, DeliveryFault
<1>11. CASE ClearJournal
  BY <1>11, DeliveryConstants DEF ClearJournal
<1>12. ASSUME NEW o \in Outputs, OpenOutput(o) PROVE StageInv'
  BY <1>12, DeliveryConstants DEF OpenOutput, LeaseAlive, Answered, AnswerLost, DeliveryFault
<1>13. CASE Renew
  BY <1>13, DeliveryConstants DEF Renew, LeaseAlive, Keeping
<1>14. CASE KeeperFails
  BY <1>14, DeliveryConstants DEF KeeperFails, Keeping, DeliveryFault
<1>15. CASE ClaimLapses
  BY <1>15, DeliveryConstants DEF ClaimLapses
<1>16. CASE WorkerDies
  BY <1>16, DeliveryConstants DEF WorkerDies, DeliveryFault
<1>17. ASSUME NEW c \in Claims, LeaseRunsOut(c) PROVE StageInv'
  BY <1>17, DeliveryConstants DEF LeaseRunsOut, LeaseAlive
<1>18. ASSUME NEW c \in Claims, ExpireLease(c) PROVE StageInv'
  BY <1>18, DeliveryConstants DEF ExpireLease
<1>19. ASSUME NEW u \in UploadIds, ArtifactLost(u) PROVE StageInv'
  BY <1>19, DeliveryConstants DEF ArtifactLost, DeliveryFault
<1>20. CASE UNCHANGED delVars
  BY <1>20, DeliveryConstants DEF delVars
<1> QED
  BY <1>1, <1>2, <1>3, <1>4, <1>5, <1>6, <1>7, <1>8, <1>9, <1>10, <1>11, <1>12, <1>13, <1>14, <1>15,
     <1>16, <1>17, <1>18, <1>19, <1>20 DEF DeliveryNext, DeliveryPass

\* The journal is at the stage that leads to where the pass is.
LEMMA PlacesKept == DeliveryInv /\ [DeliveryNext]_delVars => PlaceInv'
<1> SUFFICES ASSUME DeliveryInv, [DeliveryNext]_delVars PROVE PlaceInv'
  OBVIOUS
<1> USE DEF DeliveryInv, StageInv, PlaceInv, DeliveryTypeOK, HasResult, Blank, Missing
<1>1. CASE BeginPass
  <2>1. CASE journal.stage \in {"none", "requested"} /\ (journal.stage = "none" => Unbound # {})
    BY <1>1, <2>1, NextRequestType DEF BeginPass, GivenUp
  <2>2. CASE journal.stage \in {"submitted", "claimed", "executed"}
    BY <1>1, <2>2 DEF BeginPass, GivenUp
  <2> QED
    BY <1>1, <2>1, <2>2 DEF BeginPass
<1>2. CASE Claim
  BY <1>2, DeliveryConstants DEF Claim, Answered, AnswerLost, DeliveryFault, Stage
<1>3. CASE NothingQueued
  BY <1>3, DeliveryConstants DEF NothingQueued
<1>4. CASE BeginTask
  BY <1>4, DeliveryConstants DEF BeginTask, GivenUp, LeaseAlive, Answered, AnswerLost, DeliveryFault
<1>5. CASE Execute
  BY <1>5, DeliveryConstants DEF Execute
<1>6. CASE SaveExecution
  BY <1>6, DeliveryConstants DEF SaveExecution, KeepExecution
<1>7. CASE UploadsDone
  BY <1>7, DeliveryConstants DEF UploadsDone, KeeperFailed
<1>8. CASE CommitOutput
  BY <1>8, DeliveryConstants, SMTT(60) DEF CommitOutput, LeaseAlive, Answered, AnswerLost, DeliveryFault
<1>9. CASE PrepareSubmission
  BY <1>9, DeliveryConstants DEF PrepareSubmission, SavedSubmission
<1>10. CASE DeliverResult
  BY <1>10, DeliveryConstants DEF DeliverResult, Answered, AnswerLost, DeliveryFault, CompletionInv
<1>11. CASE ClearJournal
  BY <1>11, DeliveryConstants DEF ClearJournal
<1>12. ASSUME NEW o \in Outputs, OpenOutput(o) PROVE PlaceInv'
  BY <1>12, DeliveryConstants, SMTT(60) DEF OpenOutput, LeaseAlive, Answered, AnswerLost, DeliveryFault
<1>13. CASE Renew
  BY <1>13, DeliveryConstants DEF Renew, LeaseAlive, Keeping
<1>14. CASE KeeperFails
  BY <1>14, DeliveryConstants DEF KeeperFails, Keeping, DeliveryFault
<1>15. CASE ClaimLapses
  BY <1>15, DeliveryConstants DEF ClaimLapses
<1>16. CASE WorkerDies
  BY <1>16, DeliveryConstants DEF WorkerDies, DeliveryFault
<1>17. ASSUME NEW c \in Claims, LeaseRunsOut(c) PROVE PlaceInv'
  BY <1>17, DeliveryConstants DEF LeaseRunsOut, LeaseAlive
<1>18. ASSUME NEW c \in Claims, ExpireLease(c) PROVE PlaceInv'
  BY <1>18, DeliveryConstants DEF ExpireLease
<1>19. ASSUME NEW u \in UploadIds, ArtifactLost(u) PROVE PlaceInv'
  BY <1>19, DeliveryConstants DEF ArtifactLost, DeliveryFault
<1>20. CASE UNCHANGED delVars
  BY <1>20, DeliveryConstants DEF delVars
<1> QED
  BY <1>1, <1>2, <1>3, <1>4, <1>5, <1>6, <1>7, <1>8, <1>9, <1>10, <1>11, <1>12, <1>13, <1>14, <1>15,
     <1>16, <1>17, <1>18, <1>19, <1>20 DEF DeliveryNext, DeliveryPass

\* A lease that is forgotten was renewed, or its result was delivered.
LEMMA MemoryKept == DeliveryInv /\ [DeliveryNext]_delVars => LeaseRemembered'
<1> SUFFICES ASSUME DeliveryInv, [DeliveryNext]_delVars PROVE LeaseRemembered'
  OBVIOUS
<1> USE DEF DeliveryInv, StageInv, PlaceInv, DeliveryTypeOK, LeaseRemembered, LeaseAlive, Blank
<1>1. CASE BeginPass
  <2>1. UNCHANGED <<lease, completion>>
    BY <1>1 DEF BeginPass
  <2>2. (journal.stage \in {"none", "requested"} /\ journal'.claim = NextRequest) \/ UNCHANGED journal
    BY <1>1 DEF BeginPass
  <2>3. journal'.claim = journal.claim \/ journal.claim = 0
    BY <1>1, <2>2, NextRequestType DEF BeginPass
  <2>4. LeaseRemembered
    OBVIOUS
  <2> HIDE DEF DeliveryInv, StageInv, PlaceInv, DeliveryTypeOK
  <2> QED
    BY <2>1, <2>3, <2>4, DeliveryConstants
<1>2. CASE Claim
  <2>1. UNCHANGED completion /\ journal'.claim = journal.claim
    BY <1>2 DEF Claim, Answered, AnswerLost, Stage
  <2>2. \A c \in Claims \ {journal.claim} : lease'[c] = lease[c]
    BY <1>2 DEF Claim
  <2> QED
    BY <2>1, <2>2
<1>3. CASE NothingQueued
  BY <1>3, DeliveryConstants DEF NothingQueued
<1>4. CASE BeginTask
  BY <1>4, DeliveryConstants, SMTT(60) DEF BeginTask, GivenUp, LeaseAlive, Answered, AnswerLost, DeliveryFault
<1>5. CASE Execute
  BY <1>5, DeliveryConstants DEF Execute
<1>6. CASE SaveExecution
  BY <1>6, DeliveryConstants DEF SaveExecution, KeepExecution
<1>7. CASE UploadsDone
  BY <1>7, DeliveryConstants DEF UploadsDone, KeeperFailed
<1>8. CASE CommitOutput
  BY <1>8, DeliveryConstants DEF CommitOutput, LeaseAlive, Answered, AnswerLost, DeliveryFault
<1>9. CASE PrepareSubmission
  BY <1>9, DeliveryConstants DEF PrepareSubmission, SavedSubmission
<1>10. CASE DeliverResult
  <2>1. UNCHANGED <<lease, journal>> /\ completion \subseteq completion'
    BY <1>10 DEF DeliverResult
  <2> QED
    BY <2>1, ZenonT(60)
<1>11. CASE ClearJournal
  <2>1. UNCHANGED <<lease, completion>> /\ passAt = "clear"
    BY <1>11 DEF ClearJournal
  <2>2. LeaseAlive(journal.claim) =>
          lease[journal.claim].renewed \/ \E d \in completion : d.claim = journal.claim
    BY <2>1
  <2> QED
    BY <2>1, <2>2, ZenonT(60)
<1>12. ASSUME NEW o \in Outputs, OpenOutput(o) PROVE LeaseRemembered'
  BY <1>12, DeliveryConstants DEF OpenOutput, LeaseAlive, Answered, AnswerLost, DeliveryFault
<1>13. CASE Renew
  BY <1>13, DeliveryConstants DEF Renew, LeaseAlive, Keeping
<1>14. CASE KeeperFails
  BY <1>14, DeliveryConstants DEF KeeperFails, Keeping, DeliveryFault
<1>15. CASE ClaimLapses
  BY <1>15, DeliveryConstants DEF ClaimLapses
<1>16. CASE WorkerDies
  BY <1>16, DeliveryConstants DEF WorkerDies, DeliveryFault
<1>17. ASSUME NEW c \in Claims, LeaseRunsOut(c) PROVE LeaseRemembered'
  BY <1>17, DeliveryConstants DEF LeaseRunsOut, LeaseAlive
<1>18. ASSUME NEW c \in Claims, ExpireLease(c) PROVE LeaseRemembered'
  BY <1>18, DeliveryConstants DEF ExpireLease
<1>19. ASSUME NEW u \in UploadIds, ArtifactLost(u) PROVE LeaseRemembered'
  BY <1>19, DeliveryConstants DEF ArtifactLost, DeliveryFault
<1>20. CASE UNCHANGED delVars
  BY <1>20, DeliveryConstants DEF delVars
<1> QED
  BY <1>1, <1>2, <1>3, <1>4, <1>5, <1>6, <1>7, <1>8, <1>9, <1>10, <1>11, <1>12, <1>13, <1>14, <1>15,
     <1>16, <1>17, <1>18, <1>19, <1>20 DEF DeliveryNext, DeliveryPass

\* The types of the rows, one by one.
Journals ==
  [stage : {"none", "requested", "claimed", "executed", "submitted"}, claim : 0..MaxClaims,
   run : 0..MaxRuns, uploaded : [Outputs -> 0..MaxUploads], submission : Nat]
Places == {"down", "claim", "begin", "execute", "ran", "upload", "committing", "submit", "complete", "clear"}
Hands == [run : 0..MaxRuns, lost : BOOLEAN, upload : 0..MaxUploads]
LeaseRows == [state : {"none", "leased", "executing", "expired"}, over : BOOLEAN, renewed : BOOLEAN]
UploadRows ==
  [state : {"none", "staging", "committed", "gone"}, claim : 0..MaxClaims,
   output : Outputs \cup {"none"}, run : 0..MaxRuns]
Deliveries ==
  [id : Nat, claim : Claims, run : 1..MaxRuns, artifacts : SUBSET UploadIds,
   state : {"delivered", "duplicate", "stale"}]

DeliveryRows ==
  /\ journal \in Journals /\ passAt \in Places /\ inHand \in Hands /\ lapsed \in BOOLEAN
  /\ runs \in [1..MaxRuns -> 0..MaxClaims] /\ lease \in [Claims -> LeaseRows]
  /\ upload \in [UploadIds -> UploadRows] /\ completion \subseteq Deliveries
  /\ submitted \in Nat /\ kept \subseteq Claims /\ delSpent \in 0..MaxDeliveryFaults

\* The rows by name are the type invariant.
LEMMA DeliveryRowsAre == DeliveryTypeOK <=> DeliveryRows
BY DEF DeliveryTypeOK, DeliveryRows, Journals, Places, Hands, LeaseRows, UploadRows, Deliveries

\* Updates of the rows keep their types.
LEMMA RowUpdates ==
  /\ Blank \in Journals /\ Empty \in Hands
  /\ \A j \in Journals :
       /\ \A s \in {"requested", "claimed"} : [j EXCEPT !.stage = s] \in Journals
       /\ \A r \in 0..MaxRuns, k \in Nat :
            /\ [j EXCEPT !.stage = "executed", !.run = r] \in Journals
            /\ [j EXCEPT !.stage = "submitted", !.submission = k, !.run = r] \in Journals
       /\ \A o \in Outputs, u \in 0..MaxUploads : [j EXCEPT !.uploaded[o] = u] \in Journals
  /\ \A c \in Claims : [Blank EXCEPT !.stage = "requested", !.claim = c] \in Journals
  /\ \A h \in Hands : /\ \A r \in 0..MaxRuns : [h EXCEPT !.run = r] \in Hands
                      /\ \A u \in 0..MaxUploads : [h EXCEPT !.upload = u] \in Hands
                      /\ [h EXCEPT !.lost = TRUE] \in Hands
  /\ \A l \in LeaseRows : /\ \A s \in {"leased", "executing", "expired"} : [l EXCEPT !.state = s] \in LeaseRows
                          /\ [l EXCEPT !.over = TRUE] \in LeaseRows /\ [l EXCEPT !.renewed = TRUE] \in LeaseRows
  /\ \A v \in UploadRows : \A s \in {"committed", "gone"} : [v EXCEPT !.state = s] \in UploadRows
<1>1. Blank \in Journals /\ \A c \in Claims : [Blank EXCEPT !.stage = "requested", !.claim = c] \in Journals
  <2> DEFINE U == [Outputs -> 0..MaxUploads]
  <2>1. NoUploads \in U
    BY DeliveryConstants DEF NoUploads
  <2>2. Journals = [stage : {"none", "requested", "claimed", "executed", "submitted"}, claim : 0..MaxClaims,
                    run : 0..MaxRuns, uploaded : U, submission : Nat]
    BY DEF Journals
  <2> HIDE DEF U
  <2>3. Blank \in Journals
    BY <2>1, <2>2, DeliveryConstants DEF Blank
  <2>4. ASSUME NEW c \in Claims PROVE [Blank EXCEPT !.stage = "requested", !.claim = c] \in Journals
    <3>1. c \in 0..MaxClaims
      BY <2>4, DeliveryConstants
    <3> QED
      BY <2>3, <2>2, <3>1
  <2> QED
    BY <2>3, <2>4
<1>2. ASSUME NEW j \in Journals
      PROVE  /\ \A s \in {"requested", "claimed"} : [j EXCEPT !.stage = s] \in Journals
             /\ \A r \in 0..MaxRuns, k \in Nat :
                  /\ [j EXCEPT !.stage = "executed", !.run = r] \in Journals
                  /\ [j EXCEPT !.stage = "submitted", !.submission = k, !.run = r] \in Journals
  <2> DEFINE U == [Outputs -> 0..MaxUploads]
  <2>1. Journals = [stage : {"none", "requested", "claimed", "executed", "submitted"}, claim : 0..MaxClaims,
                    run : 0..MaxRuns, uploaded : U, submission : Nat]
    BY DEF Journals
  <2> HIDE DEF U
  <2> QED
    BY <1>2, <2>1
<1>3. ASSUME NEW j \in Journals, NEW o \in Outputs, NEW u \in 0..MaxUploads
      PROVE  [j EXCEPT !.uploaded[o] = u] \in Journals
  <2>1. [j.uploaded EXCEPT ![o] = u] \in [Outputs -> 0..MaxUploads]
    BY <1>3 DEF Journals
  <2> DEFINE U == [Outputs -> 0..MaxUploads]
             w == [j.uploaded EXCEPT ![o] = u]
  <2>2. [j EXCEPT !.uploaded[o] = u] = [j EXCEPT !.uploaded = w]
    BY <1>3 DEF Journals
  <2>3. Journals = [stage : {"none", "requested", "claimed", "executed", "submitted"}, claim : 0..MaxClaims,
                    run : 0..MaxRuns, uploaded : U, submission : Nat]
    BY DEF Journals
  <2> HIDE DEF U, w
  <2> QED
    BY <1>3, <2>1, <2>2, <2>3 DEF U, w
<1>4. /\ Empty \in Hands
      /\ \A h \in Hands : /\ \A r \in 0..MaxRuns : [h EXCEPT !.run = r] \in Hands
                          /\ \A u \in 0..MaxUploads : [h EXCEPT !.upload = u] \in Hands
                          /\ [h EXCEPT !.lost = TRUE] \in Hands
  BY DeliveryConstants DEF Hands, Empty
<1>5. \A l \in LeaseRows : /\ \A s \in {"leased", "executing", "expired"} : [l EXCEPT !.state = s] \in LeaseRows
                           /\ [l EXCEPT !.over = TRUE] \in LeaseRows /\ [l EXCEPT !.renewed = TRUE] \in LeaseRows
  BY DEF LeaseRows
<1>6. \A v \in UploadRows : \A s \in {"committed", "gone"} : [v EXCEPT !.state = s] \in UploadRows
  BY DEF UploadRows
<1> QED
  BY <1>1, <1>2, <1>3, <1>4, <1>5, <1>6

\* The rows keep their types.
LEMMA RowsKept == DeliveryInv /\ [DeliveryNext]_delVars => DeliveryRows'
<1> SUFFICES ASSUME DeliveryInv, [DeliveryNext]_delVars PROVE DeliveryRows'
  OBVIOUS
<1>f. /\ DeliveryRows /\ journal.claim \in 0..MaxClaims /\ journal.run \in 0..MaxRuns
      /\ inHand.run \in 0..MaxRuns /\ inHand.upload \in 0..MaxUploads
  BY DeliveryRowsAre DEF DeliveryInv, DeliveryRows, Journals, Hands
<1>g. /\ journal.stage # "none" => journal.claim \in Claims
      /\ passAt = "claim" => journal.stage = "requested"
      /\ passAt \in {"execute", "ran"} => journal.stage = "claimed"
      /\ passAt \in {"begin", "upload", "committing", "submit", "complete", "clear"} => journal.stage # "none"
      /\ passAt = "complete" => journal.run \in 1..MaxRuns
  BY DEF DeliveryInv, StageInv, PlaceInv, HasResult
<1>h. /\ UploadIds \subseteq 0..MaxUploads /\ 1..MaxRuns \subseteq 0..MaxRuns
      /\ DeliveryFault => delSpent' \in 0..MaxDeliveryFaults
  BY <1>f, DeliveryConstants DEF DeliveryFault, DeliveryRows
<1> USE DEF DeliveryRows, Places
<1>1. CASE BeginPass
  <2>1. journal' \in Journals
    <3>1. CASE journal.stage \in {"none", "requested"} /\ (journal.stage = "none" => Unbound # {})
      BY <1>1, <3>1, <1>f, NextRequestType, RowUpdates DEF BeginPass
    <3>2. CASE ~ (journal.stage \in {"none", "requested"} /\ (journal.stage = "none" => Unbound # {}))
      BY <1>1, <3>2, <1>f DEF BeginPass
    <3> QED
      BY <3>1, <3>2
  <2> QED
    BY <1>1, <2>1, <1>f, RowUpdates DEF BeginPass
<1>2. CASE Claim
  <2>1. journal' \in Journals
    BY <1>2, <1>f, RowUpdates DEF Claim, Stage
  <2>2. lease' \in [Claims -> LeaseRows] /\ lapsed' \in BOOLEAN
    <3>1. journal.claim \in Claims /\ lease[journal.claim] \in LeaseRows
      BY <1>2, <1>f, <1>g DEF Claim
    <3>2. [lease[journal.claim] EXCEPT !.state = "leased"] \in LeaseRows /\ lease[journal.claim].over \in BOOLEAN
      BY <3>1, RowUpdates DEF LeaseRows
    <3> QED
      BY <1>2, <1>f, <3>1, <3>2 DEF Claim
  <2> QED
    BY <1>2, <2>1, <2>2, <1>f, DeliveryConstants DEF Claim, Answered, AnswerLost, DeliveryFault
<1>3. CASE NothingQueued
  BY <1>3, <1>f, <1>g, RowUpdates, DeliveryConstants DEF NothingQueued
<1>4. CASE BeginTask
  <2>1. journal.claim \in Claims /\ lease[journal.claim] \in LeaseRows
    BY <1>4, <1>f, <1>g DEF BeginTask
  <2>2. [lease[journal.claim] EXCEPT !.state = "executing"] \in LeaseRows
    BY <2>1, RowUpdates
  <2>3. lease' \in [Claims -> LeaseRows]
    BY <1>4, <1>f, <2>1, <2>2 DEF BeginTask
  <2>4. inHand' \in Hands
    BY <1>4, <1>f, RowUpdates DEF BeginTask
  <2> QED
    BY <1>4, <2>3, <2>4, <1>f, DeliveryConstants DEF BeginTask, Answered, AnswerLost, DeliveryFault
<1>5. CASE Execute
  <2>1. PICK r \in 1..MaxRuns : runs' = [runs EXCEPT ![r] = journal.claim] /\ inHand' = [inHand EXCEPT !.run = r]
    BY <1>5 DEF Execute
  <2>h. [inHand EXCEPT !.run = r] \in Hands
    BY <1>f, <1>h, RowUpdates
  <2>2. runs' \in [1..MaxRuns -> 0..MaxClaims] /\ inHand' \in Hands
    BY <2>1, <2>h, <1>f
  <2> QED
    BY <1>5, <2>2, <1>f DEF Execute
<1>6. CASE SaveExecution
  BY <1>6, <1>f, <1>g, RowUpdates, DeliveryConstants DEF SaveExecution, KeepExecution
<1>7. CASE UploadsDone
  BY <1>7, <1>f, <1>g, RowUpdates, DeliveryConstants DEF UploadsDone
<1>8. CASE CommitOutput
  <2>1. inHand.upload \in UploadIds /\ upload[inHand.upload].output \in Outputs
    BY <1>8 DEF CommitOutput, DeliveryInv, UploadInv, OfJournal, Opened
  <2>j. [journal EXCEPT !.uploaded[upload[inHand.upload].output] = inHand.upload] \in Journals
    BY <2>1, <1>f, <1>h, RowUpdates
  <2>2. journal' \in Journals
    BY <1>8, <2>j, <1>f DEF CommitOutput
  <2>3. upload[inHand.upload] \in UploadRows
    BY <2>1, <1>f
  <2>4. [upload[inHand.upload] EXCEPT !.state = "committed"] \in UploadRows
    BY <2>3, RowUpdates
  <2>5. upload' \in [UploadIds -> UploadRows]
    BY <1>8, <1>f, <2>4 DEF CommitOutput
  <2> QED
    BY <1>8, <2>2, <2>5, <1>f, DeliveryConstants, SMTT(60) DEF CommitOutput, Answered, AnswerLost, DeliveryFault
<1>9. CASE PrepareSubmission
  <2>1. submitted + 1 \in Nat
    BY <1>f
  <2>2. journal' \in Journals
    BY <1>9, <2>1, <1>f, RowUpdates DEF PrepareSubmission, SavedSubmission
  <2> QED
    BY <1>9, <2>1, <2>2, <1>f DEF PrepareSubmission
<1>10. CASE DeliverResult
  <2> DEFINE row(s) == [id |-> journal.submission, claim |-> journal.claim, run |-> journal.run,
                       artifacts |-> References, state |-> s]
  <2>1. passAt = "complete" /\ Missing = {} /\ journal.uploaded \in [Outputs -> 0..MaxUploads] /\ journal.submission \in Nat
    BY <1>10, <1>f DEF DeliverResult, Journals, DeliveryInv, StageInv, PlaceInv
  <2>2. References \subseteq UploadIds
    BY <2>1, DeliveryConstants DEF References, Missing
  <2>3. \A s \in {"delivered", "duplicate", "stale"} : row(s) \in Deliveries
    BY <2>1, <2>2, <1>g DEF Deliveries
  <2>4. UNCHANGED completion \/ \E s \in {"delivered", "duplicate", "stale"} : completion' = completion \cup {row(s)}
    BY <1>10 DEF DeliverResult
  <2>5. completion' \subseteq Deliveries
    <3> HIDE DEF row
    <3> QED
      BY <2>3, <2>4, <1>f
  <2> QED
    BY <1>10, <2>5, <1>f, DeliveryConstants DEF DeliverResult, Answered, AnswerLost, DeliveryFault
<1>11. CASE ClearJournal
  BY <1>11, <1>f, <1>g, RowUpdates, DeliveryConstants DEF ClearJournal
<1>12. ASSUME NEW o \in Outputs, OpenOutput(o) PROVE DeliveryRows'
  <2> DEFINE n == Cardinality(Opened) + 1
             row == [state |-> "staging", claim |-> journal.claim, output |-> o, run |-> inHand.run]
  <2>1. row \in UploadRows
    BY <1>f DEF UploadRows
  <2>2. n \in UploadIds => [upload EXCEPT ![n] = row] \in [UploadIds -> UploadRows]
    BY <2>1, <1>f
  <2>3. n \in UploadIds => [inHand EXCEPT !.upload = n] \in Hands
    BY <1>f, <1>h, RowUpdates
  <2>4. upload' \in [UploadIds -> UploadRows] /\ inHand' \in Hands
    <3>1. \/ UNCHANGED <<upload, inHand>>
          \/ n \in UploadIds /\ upload' = [upload EXCEPT ![n] = row] /\ inHand' = [inHand EXCEPT !.upload = n]
      BY <1>12 DEF OpenOutput
    <3> HIDE DEF n, row
    <3> QED
      BY <3>1, <2>2, <2>3, <1>f
  <2> QED
    BY <1>12, <2>4, <1>f, DeliveryConstants, SMTT(60) DEF OpenOutput, Answered, AnswerLost, DeliveryFault
<1>13. CASE Renew
  <2>1. journal.claim \in Claims /\ lease[journal.claim] \in LeaseRows
    BY <1>13, <1>f, <1>g DEF Renew, Keeping
  <2>2. [lease[journal.claim] EXCEPT !.renewed = TRUE] \in LeaseRows
    BY <2>1, RowUpdates
  <2>3. lease' \in [Claims -> LeaseRows]
    BY <1>13, <1>f, <2>1, <2>2 DEF Renew, Keeping
  <2> QED
    BY <1>13, <2>3, <1>f DEF Renew, Keeping
<1>14. CASE KeeperFails
  <2>1. inHand' \in Hands
    BY <1>14, <1>f, RowUpdates DEF KeeperFails
  <2> QED
    BY <1>14, <2>1, <1>f, <1>h DEF KeeperFails
<1>15. CASE ClaimLapses
  <2>1. journal.claim \in Claims /\ lease[journal.claim] \in LeaseRows
    BY <1>15, <1>f, <1>g DEF ClaimLapses, Journals
  <2>2. [lease[journal.claim] EXCEPT !.over = TRUE] \in LeaseRows
    BY <2>1, RowUpdates
  <2>3. lease' \in [Claims -> LeaseRows]
    BY <1>15, <1>f, <2>1, <2>2 DEF ClaimLapses, Journals
  <2> QED
    BY <1>15, <2>3, <1>f DEF ClaimLapses, Journals
<1>16. CASE WorkerDies
  BY <1>16, <1>f, <1>h DEF WorkerDies
<1>17. ASSUME NEW c \in Claims, LeaseRunsOut(c) PROVE DeliveryRows'
  <2>1. c \in Claims /\ lease[c] \in LeaseRows
    BY <1>17, <1>f, <1>g DEF LeaseRunsOut
  <2>2. [lease[c] EXCEPT !.over = TRUE] \in LeaseRows
    BY <2>1, RowUpdates
  <2>3. lease' \in [Claims -> LeaseRows]
    BY <1>17, <1>f, <2>1, <2>2 DEF LeaseRunsOut
  <2> QED
    BY <1>17, <2>3, <1>f DEF LeaseRunsOut
<1>18. ASSUME NEW c \in Claims, ExpireLease(c) PROVE DeliveryRows'
  <2>1. c \in Claims /\ lease[c] \in LeaseRows
    BY <1>18, <1>f, <1>g DEF ExpireLease
  <2>2. [lease[c] EXCEPT !.state = "expired"] \in LeaseRows
    BY <2>1, RowUpdates
  <2>3. lease' \in [Claims -> LeaseRows]
    BY <1>18, <1>f, <2>1, <2>2 DEF ExpireLease
  <2> QED
    BY <1>18, <2>3, <1>f DEF ExpireLease
<1>19. ASSUME NEW u \in UploadIds, ArtifactLost(u) PROVE DeliveryRows'
  <2>1. [upload[u] EXCEPT !.state = "gone"] \in UploadRows
    BY <1>19, <1>f, RowUpdates
  <2>2. upload' \in [UploadIds -> UploadRows]
    BY <1>19, <1>f, <2>1 DEF ArtifactLost
  <2> QED
    BY <1>19, <2>2, <1>f, DeliveryConstants DEF ArtifactLost, DeliveryFault
<1>20. CASE UNCHANGED delVars
  BY <1>20, <1>f DEF delVars
<1> QED
  BY <1>1, <1>2, <1>3, <1>4, <1>5, <1>6, <1>7, <1>8, <1>9, <1>10, <1>11, <1>12, <1>13, <1>14, <1>15,
     <1>16, <1>17, <1>18, <1>19, <1>20 DEF DeliveryNext, DeliveryPass

\* Uploads stay accounted for while the journal names the same claim and keeps its result.
LEMMA UploadFrame ==
  ASSUME UploadInv, Opened' = Opened, journal'.claim = journal.claim,
         \A u \in Opened : /\ upload'[u].claim = upload[u].claim /\ upload'[u].run = upload[u].run
                           /\ upload'[u].output = upload[u].output,
         HasResult => HasResult' /\ journal'.run = journal.run,
         \A c \in Claims : lease[c].state # "none" => lease'[c].state # "none",
         \A o \in Outputs : journal'.uploaded[o] # 0 => OfJournal(journal'.uploaded[o]),
         passAt' = "committing" => OfJournal(inHand'.upload) /\ upload[inHand'.upload].output \in Outputs
  PROVE  UploadInv'
<1>1. \E n \in 0..MaxUploads : Opened' = 1..n
  BY DEF UploadInv
<1>2. \A u \in Opened' : /\ upload'[u].claim \in Claims
                         /\ Past(upload[u].claim)' \/ (HasResult' /\ upload'[u].claim = journal'.claim)
  BY DEF UploadInv, Past
<1>3. \A u : OfJournal(u) => u \in Opened' /\ upload'[u].claim = journal'.claim /\ upload'[u].run = journal'.run
  BY DEF UploadInv, Past, OfJournal
<1> QED
  BY <1>1, <1>2, <1>3 DEF UploadInv, OfJournal

\* Uploads stay accounted for when the journal lets go of its claim.
LEMMA UploadLeave ==
  ASSUME UploadInv, UNCHANGED <<upload, lease>>, journal'.uploaded = NoUploads, passAt' # "committing",
         \A u \in Opened : lease[upload[u].claim].state # "none" /\ upload[u].claim # journal'.claim
  PROVE  UploadInv'
<1>1. Opened' = Opened
  BY DEF Opened
<1> QED
  BY <1>1 DEF UploadInv, Past, NoUploads

\* The uploads opened are numbered one after the other.
LEMMA NextUpload ==
  ASSUME UploadInv PROVE \E n \in 0..MaxUploads : Opened = 1..n /\ Cardinality(Opened) = n
<1>1. PICK n \in 0..MaxUploads : Opened = 1..n
  BY DEF UploadInv
<1>2. Cardinality(1..n) = n
  BY FS_Interval, DeliveryConstants
<1> QED
  BY <1>1, <1>2

\* Every upload keeps the claim and the run it was made for.
LEMMA UploadsKept == DeliveryInv /\ [DeliveryNext]_delVars => UploadInv'
<1> SUFFICES ASSUME DeliveryInv, [DeliveryNext]_delVars PROVE UploadInv'
  OBVIOUS
<1>1. CASE BeginPass
  <2>1. UploadInv /\ UNCHANGED <<upload, lease>> /\ passAt' # "committing"
    BY <1>1 DEF BeginPass, DeliveryInv
  <2>2. CASE UNCHANGED journal
    <3>1. Opened' = Opened /\ HasResult' = HasResult
      BY <2>1, <2>2 DEF Opened, HasResult
    <3> QED
      BY <2>1, <2>2, <3>1, UploadFrame DEF UploadInv
  <2>3. CASE journal.stage \in {"none", "requested"} /\ (journal.stage = "none" => Unbound # {})
             /\ journal' = [Blank EXCEPT !.stage = "requested", !.claim = NextRequest]
    <3>1. ~HasResult /\ journal'.claim = NextRequest /\ journal'.uploaded = NoUploads
      BY <2>3 DEF HasResult, Blank
    <3>2. \A u \in Opened : Past(upload[u].claim)
      BY <2>1, <3>1 DEF UploadInv
    <3>3. NextRequest = journal.claim \/ lease[NextRequest].state = "none"
      BY <2>3, NextRequestType
    <3> QED
      BY <2>1, <3>1, <3>2, <3>3, UploadLeave DEF Past
  <2> QED
    BY <1>1, <2>2, <2>3 DEF BeginPass
<1>2. CASE Claim
  <2>1. UploadInv /\ journal'.claim = journal.claim /\ (HasResult => HasResult' /\ journal'.run = journal.run)
    BY <1>2 DEF Claim, Stage, Answered, AnswerLost, DeliveryInv, StageInv, PlaceInv, DeliveryTypeOK, HasResult
  <2>2. UNCHANGED upload /\ journal'.uploaded = journal.uploaded
    BY <1>2 DEF Claim, Stage, Answered, AnswerLost, DeliveryInv, StageInv, PlaceInv, DeliveryTypeOK
  <2>3. passAt' = "committing" => passAt = "committing" /\ inHand'.upload = inHand.upload
    BY <1>2 DEF Claim, Stage, Answered, AnswerLost, DeliveryInv, StageInv, PlaceInv, DeliveryTypeOK
  <2>4. \A d \in Claims : lease[d].state # "none" => lease'[d].state # "none"
    BY <1>2 DEF Claim, Stage, Answered, AnswerLost, DeliveryInv, StageInv, PlaceInv, DeliveryTypeOK, LeaseAlive
  <2>5. Opened' = Opened
    BY <2>2 DEF Opened
  <2>6. /\ \A o \in Outputs : journal'.uploaded[o] # 0 => OfJournal(journal'.uploaded[o])
        /\ passAt' = "committing" => OfJournal(inHand'.upload) /\ upload[inHand'.upload].output \in Outputs
    BY <2>1, <2>2, <2>3 DEF UploadInv
  <2> QED
    BY <2>1, <2>2, <2>4, <2>5, <2>6, UploadFrame
<1>3. CASE NothingQueued
  <2>1. /\ UNCHANGED <<upload, lease>> /\ journal' = Blank /\ passAt' = "down"
        /\ journal.stage \in {"requested", "claimed", "executed", "submitted"}
        /\ HasResult => lease[journal.claim].state # "none"
    BY <1>3 DEF NothingQueued, DeliveryInv, StageInv, PlaceInv, HasResult
  <2>2. \A u \in Opened : lease[upload[u].claim].state # "none" /\ upload[u].claim # 0
    BY <2>1, DeliveryConstants DEF DeliveryInv, UploadInv, Past
  <2>3. UploadInv /\ journal'.claim = 0 /\ journal'.uploaded = NoUploads
    BY <2>1 DEF DeliveryInv, Blank
  <2> QED
    BY <2>1, <2>2, <2>3, UploadLeave
<1>4. CASE BeginTask
  <2>1. UploadInv /\ journal'.claim = journal.claim /\ (HasResult => HasResult' /\ journal'.run = journal.run)
    BY <1>4 DEF BeginTask, Answered, AnswerLost, DeliveryInv, StageInv, PlaceInv, DeliveryTypeOK, HasResult
  <2>2. UNCHANGED upload /\ journal'.uploaded = journal.uploaded
    BY <1>4 DEF BeginTask, Answered, AnswerLost, DeliveryInv, StageInv, PlaceInv, DeliveryTypeOK
  <2>3. passAt' = "committing" => passAt = "committing" /\ inHand'.upload = inHand.upload
    BY <1>4 DEF BeginTask, Answered, AnswerLost, DeliveryInv, StageInv, PlaceInv, DeliveryTypeOK
  <2>4. \A d \in Claims : lease[d].state # "none" => lease'[d].state # "none"
    <3>1. UNCHANGED lease \/ lease' = [lease EXCEPT ![journal.claim].state = "executing"]
      BY <1>4 DEF BeginTask
    <3>2. lease \in [Claims -> LeaseRows]
      BY DeliveryRowsAre DEF DeliveryInv, DeliveryRows
    <3> QED
      BY <3>1, <3>2 DEF LeaseRows
  <2>5. Opened' = Opened
    BY <2>2 DEF Opened
  <2>6. /\ \A o \in Outputs : journal'.uploaded[o] # 0 => OfJournal(journal'.uploaded[o])
        /\ passAt' = "committing" => OfJournal(inHand'.upload) /\ upload[inHand'.upload].output \in Outputs
    BY <2>1, <2>2, <2>3 DEF UploadInv
  <2> QED
    BY <2>1, <2>2, <2>4, <2>5, <2>6, UploadFrame
<1>5. CASE Execute
  <2>1. UploadInv /\ journal'.claim = journal.claim /\ (HasResult => HasResult' /\ journal'.run = journal.run)
    BY <1>5 DEF Execute, DeliveryInv, StageInv, PlaceInv, DeliveryTypeOK, HasResult
  <2>2. UNCHANGED upload /\ journal'.uploaded = journal.uploaded
    BY <1>5 DEF Execute, DeliveryInv, StageInv, PlaceInv, DeliveryTypeOK
  <2>3. passAt' = "committing" => passAt = "committing" /\ inHand'.upload = inHand.upload
    BY <1>5 DEF Execute, DeliveryInv, StageInv, PlaceInv, DeliveryTypeOK
  <2>4. \A d \in Claims : lease[d].state # "none" => lease'[d].state # "none"
    BY <1>5 DEF Execute, DeliveryInv, StageInv, PlaceInv, DeliveryTypeOK, LeaseAlive
  <2>5. Opened' = Opened
    BY <2>2 DEF Opened
  <2>6. /\ \A o \in Outputs : journal'.uploaded[o] # 0 => OfJournal(journal'.uploaded[o])
        /\ passAt' = "committing" => OfJournal(inHand'.upload) /\ upload[inHand'.upload].output \in Outputs
    BY <2>1, <2>2, <2>3 DEF UploadInv
  <2> QED
    BY <2>1, <2>2, <2>4, <2>5, <2>6, UploadFrame
<1>6. CASE SaveExecution
  <2>1. UploadInv /\ journal'.claim = journal.claim /\ (HasResult => HasResult' /\ journal'.run = journal.run)
    BY <1>6 DEF SaveExecution, KeepExecution, DeliveryInv, StageInv, PlaceInv, DeliveryTypeOK, HasResult
  <2>2. UNCHANGED upload /\ journal'.uploaded = journal.uploaded
    BY <1>6 DEF SaveExecution, KeepExecution, DeliveryInv, StageInv, PlaceInv, DeliveryTypeOK
  <2>3. passAt' = "committing" => passAt = "committing" /\ inHand'.upload = inHand.upload
    BY <1>6 DEF SaveExecution, KeepExecution, DeliveryInv, StageInv, PlaceInv, DeliveryTypeOK
  <2>4. \A d \in Claims : lease[d].state # "none" => lease'[d].state # "none"
    BY <1>6 DEF SaveExecution, KeepExecution, DeliveryInv, StageInv, PlaceInv, DeliveryTypeOK, LeaseAlive
  <2>5. Opened' = Opened
    BY <2>2 DEF Opened
  <2>6. /\ \A o \in Outputs : journal'.uploaded[o] # 0 => OfJournal(journal'.uploaded[o])
        /\ passAt' = "committing" => OfJournal(inHand'.upload) /\ upload[inHand'.upload].output \in Outputs
    BY <2>1, <2>2, <2>3 DEF UploadInv
  <2> QED
    BY <2>1, <2>2, <2>4, <2>5, <2>6, UploadFrame
<1>7. CASE UploadsDone
  <2>1. UploadInv /\ journal'.claim = journal.claim /\ (HasResult => HasResult' /\ journal'.run = journal.run)
    BY <1>7 DEF UploadsDone, DeliveryInv, StageInv, PlaceInv, DeliveryTypeOK, HasResult
  <2>2. UNCHANGED upload /\ journal'.uploaded = journal.uploaded
    BY <1>7 DEF UploadsDone, DeliveryInv, StageInv, PlaceInv, DeliveryTypeOK
  <2>3. passAt' = "committing" => passAt = "committing" /\ inHand'.upload = inHand.upload
    BY <1>7 DEF UploadsDone, DeliveryInv, StageInv, PlaceInv, DeliveryTypeOK
  <2>4. \A d \in Claims : lease[d].state # "none" => lease'[d].state # "none"
    BY <1>7 DEF UploadsDone, DeliveryInv, StageInv, PlaceInv, DeliveryTypeOK, LeaseAlive
  <2>5. Opened' = Opened
    BY <2>2 DEF Opened
  <2>6. /\ \A o \in Outputs : journal'.uploaded[o] # 0 => OfJournal(journal'.uploaded[o])
        /\ passAt' = "committing" => OfJournal(inHand'.upload) /\ upload[inHand'.upload].output \in Outputs
    BY <2>1, <2>2, <2>3 DEF UploadInv
  <2> QED
    BY <2>1, <2>2, <2>4, <2>5, <2>6, UploadFrame
<1>8. CASE CommitOutput
  <2>1. UploadInv /\ journal'.claim = journal.claim /\ (HasResult => HasResult' /\ journal'.run = journal.run)
    BY <1>8 DEF CommitOutput, DeliveryInv, StageInv, PlaceInv, DeliveryTypeOK, HasResult
  <2>2. UNCHANGED lease /\ upload \in [UploadIds -> UploadRows]
    BY <1>8, DeliveryRowsAre DEF CommitOutput, DeliveryInv, DeliveryRows
  <2>m. inHand.upload \in Opened /\ OfJournal(inHand.upload)
    BY <1>8 DEF CommitOutput, DeliveryInv, UploadInv, OfJournal
  <2>3. UNCHANGED upload \/ upload' = [upload EXCEPT ![inHand.upload].state = "committed"]
    BY <1>8 DEF CommitOutput
  <2>4. \A w \in UploadIds : /\ upload'[w].claim = upload[w].claim /\ upload'[w].run = upload[w].run
                              /\ upload'[w].output = upload[w].output
                              /\ (upload'[w].state # "none") = (upload[w].state # "none")
    BY <2>2, <2>m, <2>3 DEF UploadRows, Opened
  <2>5. Opened' = Opened
    BY <2>4 DEF Opened
  <2>6. /\ \A o \in Outputs : journal'.uploaded[o] # 0 => OfJournal(journal'.uploaded[o])
        /\ passAt' # "committing"
    <3>1. journal.uploaded \in [Outputs -> 0..MaxUploads]
      BY DEF DeliveryInv, DeliveryTypeOK
    <3>2. \A o \in Outputs : journal'.uploaded[o] \in {journal.uploaded[o], inHand.upload}
      <4>1. UNCHANGED journal \/ journal' = [journal EXCEPT !.uploaded[upload[inHand.upload].output] = inHand.upload]
        BY <1>8 DEF CommitOutput
      <4> QED
        BY <3>1, <4>1 DEF DeliveryInv, DeliveryTypeOK
    <3> QED
      BY <1>8, <2>1, <2>m, <3>2 DEF CommitOutput, Answered, AnswerLost, UploadInv
  <2>7. \A w \in Opened : w \in UploadIds
    BY DEF Opened
  <2> QED
    BY <2>1, <2>2, <2>4, <2>5, <2>6, <2>7, UploadFrame
<1>9. CASE PrepareSubmission
  <2>1. UploadInv /\ journal'.claim = journal.claim /\ (HasResult => HasResult' /\ journal'.run = journal.run)
    BY <1>9 DEF PrepareSubmission, SavedSubmission, DeliveryInv, StageInv, PlaceInv, DeliveryTypeOK, HasResult
  <2>2. UNCHANGED upload /\ journal'.uploaded = journal.uploaded
    BY <1>9 DEF PrepareSubmission, SavedSubmission, DeliveryInv, StageInv, PlaceInv, DeliveryTypeOK
  <2>3. passAt' = "committing" => passAt = "committing" /\ inHand'.upload = inHand.upload
    BY <1>9 DEF PrepareSubmission, SavedSubmission, DeliveryInv, StageInv, PlaceInv, DeliveryTypeOK
  <2>4. \A d \in Claims : lease[d].state # "none" => lease'[d].state # "none"
    BY <1>9 DEF PrepareSubmission, SavedSubmission, DeliveryInv, StageInv, PlaceInv, DeliveryTypeOK, LeaseAlive
  <2>5. Opened' = Opened
    BY <2>2 DEF Opened
  <2>6. /\ \A o \in Outputs : journal'.uploaded[o] # 0 => OfJournal(journal'.uploaded[o])
        /\ passAt' = "committing" => OfJournal(inHand'.upload) /\ upload[inHand'.upload].output \in Outputs
    BY <2>1, <2>2, <2>3 DEF UploadInv
  <2> QED
    BY <2>1, <2>2, <2>4, <2>5, <2>6, UploadFrame
<1>10. CASE DeliverResult
  <2>1. UploadInv /\ journal'.claim = journal.claim /\ (HasResult => HasResult' /\ journal'.run = journal.run)
    BY <1>10 DEF DeliverResult, Answered, AnswerLost, DeliveryInv, StageInv, PlaceInv, DeliveryTypeOK, HasResult
  <2>2. UNCHANGED upload /\ journal'.uploaded = journal.uploaded
    BY <1>10 DEF DeliverResult, Answered, AnswerLost, DeliveryInv, StageInv, PlaceInv, DeliveryTypeOK
  <2>3. passAt' = "committing" => passAt = "committing" /\ inHand'.upload = inHand.upload
    BY <1>10 DEF DeliverResult, Answered, AnswerLost, DeliveryInv, StageInv, PlaceInv, DeliveryTypeOK
  <2>4. \A d \in Claims : lease[d].state # "none" => lease'[d].state # "none"
    BY <1>10 DEF DeliverResult, Answered, AnswerLost, DeliveryInv, StageInv, PlaceInv, DeliveryTypeOK, LeaseAlive
  <2>5. Opened' = Opened
    BY <2>2 DEF Opened
  <2>6. /\ \A o \in Outputs : journal'.uploaded[o] # 0 => OfJournal(journal'.uploaded[o])
        /\ passAt' = "committing" => OfJournal(inHand'.upload) /\ upload[inHand'.upload].output \in Outputs
    BY <2>1, <2>2, <2>3 DEF UploadInv
  <2> QED
    BY <2>1, <2>2, <2>4, <2>5, <2>6, UploadFrame
<1>11. CASE ClearJournal
  <2>1. /\ UNCHANGED <<upload, lease>> /\ journal' = Blank /\ passAt' = "down"
        /\ journal.stage \in {"requested", "claimed", "executed", "submitted"}
        /\ HasResult => lease[journal.claim].state # "none"
    BY <1>11 DEF ClearJournal, DeliveryInv, StageInv, PlaceInv, HasResult
  <2>2. \A u \in Opened : lease[upload[u].claim].state # "none" /\ upload[u].claim # 0
    BY <2>1, DeliveryConstants DEF DeliveryInv, UploadInv, Past
  <2>3. UploadInv /\ journal'.claim = 0 /\ journal'.uploaded = NoUploads
    BY <2>1 DEF DeliveryInv, Blank
  <2> QED
    BY <2>1, <2>2, <2>3, UploadLeave
<1>12. ASSUME NEW o \in Outputs, OpenOutput(o) PROVE UploadInv'
  <2>1. CASE UNCHANGED upload /\ UNCHANGED inHand /\ passAt' = "down"
    <3>1. UploadInv /\ UNCHANGED <<journal, lease>> /\ Opened' = Opened /\ HasResult' = HasResult
      BY <1>12, <2>1 DEF OpenOutput, DeliveryInv, Opened, HasResult
    <3> QED
      BY <2>1, <3>1, UploadFrame DEF UploadInv
  <2>2. CASE ~ (UNCHANGED upload /\ UNCHANGED inHand /\ passAt' = "down")
    <3> DEFINE m == Cardinality(Opened) + 1
               row == [state |-> "staging", claim |-> journal.claim, output |-> o, run |-> inHand.run]
    <3>1. /\ m \in UploadIds /\ upload' = [upload EXCEPT ![m] = row]
          /\ inHand' = [inHand EXCEPT !.upload = m] /\ UNCHANGED <<journal, lease>> /\ passAt = "upload"
      BY <1>12, <2>2 DEF OpenOutput
    <3>2. /\ journal.stage = "executed" /\ inHand.run = journal.run /\ journal.claim \in Claims
          /\ UploadInv /\ HasResult /\ HasResult'
      BY <3>1 DEF DeliveryInv, PlaceInv, StageInv, HasResult
    <3>3. PICK k \in 0..MaxUploads : Opened = 1..k /\ m = k + 1
      BY <3>2, NextUpload
    <3>4. m \in 0..MaxUploads /\ m \notin Opened
      BY <3>1, <3>3, DeliveryConstants
    <3>5. upload'[m] = row /\ \A u \in UploadIds \ {m} : upload'[u] = upload[u]
      BY <3>1, DeliveryRowsAre DEF DeliveryInv, DeliveryRows
    <3>6. Opened' = Opened \cup {m}
      <4>1. row.state # "none"
        OBVIOUS
      <4> HIDE DEF m, row
      <4> QED
        BY <4>1, <3>1, <3>5 DEF Opened
    <3>7. Opened' = 1..m
      BY <3>3, <3>4, <3>6
    <3>8. \A u \in Opened' : /\ upload'[u].claim \in Claims
                             /\ Past(upload[u].claim)' \/ (HasResult' /\ upload'[u].claim = journal'.claim)
      <4>1. \A u \in Opened : u \in UploadIds \ {m}
        BY <3>4 DEF Opened
      <4>2. upload'[m].claim = journal.claim
        BY <3>5
      <4> HIDE DEF m, row
      <4> QED
        BY <4>1, <4>2, <3>1, <3>2, <3>5, <3>6 DEF UploadInv, Past
    <3>9. /\ \A u : OfJournal(u) => OfJournal(u)'
          /\ m \in Opened' /\ upload'[m].claim = journal'.claim /\ upload'[m].run = journal'.run
          /\ upload'[m].output \in Outputs
      <4>1. \A u : OfJournal(u) => u \in UploadIds \ {m} /\ u \in Opened
        BY <3>4 DEF OfJournal, Opened
      <4>2. upload'[m].claim = journal.claim /\ upload'[m].run = journal.run /\ upload'[m].output \in Outputs
        BY <3>2, <3>5, <1>12
      <4> HIDE DEF m, row
      <4> QED
        BY <4>1, <4>2, <3>1, <3>5, <3>6 DEF OfJournal
    <3>10. inHand'.upload = m
      BY <3>1, DeliveryRowsAre DEF DeliveryInv, DeliveryRows, Hands
    <3> HIDE DEF m, row
    <3> QED
      BY <3>1, <3>2, <3>4, <3>7, <3>8, <3>9, <3>10 DEF UploadInv, OfJournal
  <2> QED
    BY <2>1, <2>2
<1>13. CASE Renew
  <2>1. UploadInv /\ journal'.claim = journal.claim /\ (HasResult => HasResult' /\ journal'.run = journal.run)
    BY <1>13 DEF Renew, Keeping, DeliveryInv, StageInv, PlaceInv, DeliveryTypeOK, HasResult
  <2>2. UNCHANGED upload /\ journal'.uploaded = journal.uploaded
    BY <1>13 DEF Renew, Keeping, DeliveryInv, StageInv, PlaceInv, DeliveryTypeOK
  <2>3. passAt' = "committing" => passAt = "committing" /\ inHand'.upload = inHand.upload
    BY <1>13 DEF Renew, Keeping, DeliveryInv, StageInv, PlaceInv, DeliveryTypeOK
  <2>4. \A d \in Claims : lease[d].state # "none" => lease'[d].state # "none"
    BY <1>13 DEF Renew, Keeping, DeliveryInv, StageInv, PlaceInv, DeliveryTypeOK, LeaseAlive
  <2>5. Opened' = Opened
    BY <2>2 DEF Opened
  <2>6. /\ \A o \in Outputs : journal'.uploaded[o] # 0 => OfJournal(journal'.uploaded[o])
        /\ passAt' = "committing" => OfJournal(inHand'.upload) /\ upload[inHand'.upload].output \in Outputs
    BY <2>1, <2>2, <2>3 DEF UploadInv
  <2> QED
    BY <2>1, <2>2, <2>4, <2>5, <2>6, UploadFrame
<1>14. CASE KeeperFails
  <2>1. UploadInv /\ journal'.claim = journal.claim /\ (HasResult => HasResult' /\ journal'.run = journal.run)
    BY <1>14 DEF KeeperFails, Keeping, DeliveryInv, StageInv, PlaceInv, DeliveryTypeOK, HasResult
  <2>2. UNCHANGED upload /\ journal'.uploaded = journal.uploaded
    BY <1>14 DEF KeeperFails, Keeping, DeliveryInv, StageInv, PlaceInv, DeliveryTypeOK
  <2>3. passAt' = "committing" => passAt = "committing" /\ inHand'.upload = inHand.upload
    BY <1>14 DEF KeeperFails, Keeping, DeliveryInv, StageInv, PlaceInv, DeliveryTypeOK
  <2>4. \A d \in Claims : lease[d].state # "none" => lease'[d].state # "none"
    BY <1>14 DEF KeeperFails, Keeping, DeliveryInv, StageInv, PlaceInv, DeliveryTypeOK, LeaseAlive
  <2>5. Opened' = Opened
    BY <2>2 DEF Opened
  <2>6. /\ \A o \in Outputs : journal'.uploaded[o] # 0 => OfJournal(journal'.uploaded[o])
        /\ passAt' = "committing" => OfJournal(inHand'.upload) /\ upload[inHand'.upload].output \in Outputs
    BY <2>1, <2>2, <2>3 DEF UploadInv
  <2> QED
    BY <2>1, <2>2, <2>4, <2>5, <2>6, UploadFrame
<1>15. CASE ClaimLapses
  <2>1. UploadInv /\ journal'.claim = journal.claim /\ (HasResult => HasResult' /\ journal'.run = journal.run)
    BY <1>15 DEF ClaimLapses, DeliveryInv, StageInv, PlaceInv, DeliveryTypeOK, HasResult
  <2>2. UNCHANGED upload /\ journal'.uploaded = journal.uploaded
    BY <1>15 DEF ClaimLapses, DeliveryInv, StageInv, PlaceInv, DeliveryTypeOK
  <2>3. passAt' = "committing" => passAt = "committing" /\ inHand'.upload = inHand.upload
    BY <1>15 DEF ClaimLapses, DeliveryInv, StageInv, PlaceInv, DeliveryTypeOK
  <2>4. \A d \in Claims : lease[d].state # "none" => lease'[d].state # "none"
    BY <1>15 DEF ClaimLapses, DeliveryInv, StageInv, PlaceInv, DeliveryTypeOK, LeaseAlive
  <2>5. Opened' = Opened
    BY <2>2 DEF Opened
  <2>6. /\ \A o \in Outputs : journal'.uploaded[o] # 0 => OfJournal(journal'.uploaded[o])
        /\ passAt' = "committing" => OfJournal(inHand'.upload) /\ upload[inHand'.upload].output \in Outputs
    BY <2>1, <2>2, <2>3 DEF UploadInv
  <2> QED
    BY <2>1, <2>2, <2>4, <2>5, <2>6, UploadFrame
<1>16. CASE WorkerDies
  <2>1. UploadInv /\ journal'.claim = journal.claim /\ (HasResult => HasResult' /\ journal'.run = journal.run)
    BY <1>16 DEF WorkerDies, DeliveryInv, StageInv, PlaceInv, DeliveryTypeOK, HasResult
  <2>2. UNCHANGED upload /\ journal'.uploaded = journal.uploaded
    BY <1>16 DEF WorkerDies, DeliveryInv, StageInv, PlaceInv, DeliveryTypeOK
  <2>3. passAt' = "committing" => passAt = "committing" /\ inHand'.upload = inHand.upload
    BY <1>16 DEF WorkerDies, DeliveryInv, StageInv, PlaceInv, DeliveryTypeOK
  <2>4. \A d \in Claims : lease[d].state # "none" => lease'[d].state # "none"
    BY <1>16 DEF WorkerDies, DeliveryInv, StageInv, PlaceInv, DeliveryTypeOK, LeaseAlive
  <2>5. Opened' = Opened
    BY <2>2 DEF Opened
  <2>6. /\ \A o \in Outputs : journal'.uploaded[o] # 0 => OfJournal(journal'.uploaded[o])
        /\ passAt' = "committing" => OfJournal(inHand'.upload) /\ upload[inHand'.upload].output \in Outputs
    BY <2>1, <2>2, <2>3 DEF UploadInv
  <2> QED
    BY <2>1, <2>2, <2>4, <2>5, <2>6, UploadFrame
<1>17. ASSUME NEW c \in Claims, LeaseRunsOut(c) PROVE UploadInv'
  <2>1. UploadInv /\ journal'.claim = journal.claim /\ (HasResult => HasResult' /\ journal'.run = journal.run)
    BY <1>17 DEF LeaseRunsOut, DeliveryInv, StageInv, PlaceInv, DeliveryTypeOK, HasResult
  <2>2. UNCHANGED upload /\ journal'.uploaded = journal.uploaded
    BY <1>17 DEF LeaseRunsOut, DeliveryInv, StageInv, PlaceInv, DeliveryTypeOK
  <2>3. passAt' = "committing" => passAt = "committing" /\ inHand'.upload = inHand.upload
    BY <1>17 DEF LeaseRunsOut, DeliveryInv, StageInv, PlaceInv, DeliveryTypeOK
  <2>4. \A d \in Claims : lease[d].state # "none" => lease'[d].state # "none"
    BY <1>17 DEF LeaseRunsOut, DeliveryInv, StageInv, PlaceInv, DeliveryTypeOK, LeaseAlive
  <2>5. Opened' = Opened
    BY <2>2 DEF Opened
  <2>6. /\ \A o \in Outputs : journal'.uploaded[o] # 0 => OfJournal(journal'.uploaded[o])
        /\ passAt' = "committing" => OfJournal(inHand'.upload) /\ upload[inHand'.upload].output \in Outputs
    BY <2>1, <2>2, <2>3 DEF UploadInv
  <2> QED
    BY <2>1, <2>2, <2>4, <2>5, <2>6, UploadFrame
<1>18. ASSUME NEW c \in Claims, ExpireLease(c) PROVE UploadInv'
  <2>1. UploadInv /\ journal'.claim = journal.claim /\ (HasResult => HasResult' /\ journal'.run = journal.run)
    BY <1>18 DEF ExpireLease, DeliveryInv, StageInv, PlaceInv, DeliveryTypeOK, HasResult
  <2>2. UNCHANGED upload /\ journal'.uploaded = journal.uploaded
    BY <1>18 DEF ExpireLease, DeliveryInv, StageInv, PlaceInv, DeliveryTypeOK
  <2>3. passAt' = "committing" => passAt = "committing" /\ inHand'.upload = inHand.upload
    BY <1>18 DEF ExpireLease, DeliveryInv, StageInv, PlaceInv, DeliveryTypeOK
  <2>4. \A d \in Claims : lease[d].state # "none" => lease'[d].state # "none"
    BY <1>18 DEF ExpireLease, DeliveryInv, StageInv, PlaceInv, DeliveryTypeOK, LeaseAlive
  <2>5. Opened' = Opened
    BY <2>2 DEF Opened
  <2>6. /\ \A o \in Outputs : journal'.uploaded[o] # 0 => OfJournal(journal'.uploaded[o])
        /\ passAt' = "committing" => OfJournal(inHand'.upload) /\ upload[inHand'.upload].output \in Outputs
    BY <2>1, <2>2, <2>3 DEF UploadInv
  <2> QED
    BY <2>1, <2>2, <2>4, <2>5, <2>6, UploadFrame
<1>19. ASSUME NEW u \in UploadIds, ArtifactLost(u) PROVE UploadInv'
  <2>1. UploadInv /\ journal'.claim = journal.claim /\ (HasResult => HasResult' /\ journal'.run = journal.run)
    BY <1>19 DEF ArtifactLost, DeliveryInv, StageInv, PlaceInv, DeliveryTypeOK, HasResult
  <2>2. UNCHANGED lease /\ upload \in [UploadIds -> UploadRows]
    BY <1>19, DeliveryRowsAre DEF ArtifactLost, DeliveryInv, DeliveryRows
  <2>m. u \in Opened
    BY <1>19 DEF ArtifactLost, Opened
  <2>3. upload' = [upload EXCEPT ![u].state = "gone"]
    BY <1>19 DEF ArtifactLost
  <2>4. \A w \in UploadIds : /\ upload'[w].claim = upload[w].claim /\ upload'[w].run = upload[w].run
                              /\ upload'[w].output = upload[w].output
                              /\ (upload'[w].state # "none") = (upload[w].state # "none")
    BY <2>2, <2>m, <2>3 DEF UploadRows, Opened
  <2>5. Opened' = Opened
    BY <2>4 DEF Opened
  <2>6. /\ \A o \in Outputs : journal'.uploaded[o] # 0 => OfJournal(journal'.uploaded[o])
        /\ passAt' = "committing" => OfJournal(inHand'.upload) /\ upload[inHand'.upload].output \in Outputs
    BY <1>19, <2>1 DEF ArtifactLost, UploadInv
  <2>7. \A w \in Opened : w \in UploadIds
    BY DEF Opened
  <2> QED
    BY <2>1, <2>2, <2>4, <2>5, <2>6, <2>7, UploadFrame
<1>20. CASE UNCHANGED delVars
  <2>1. UploadInv /\ journal'.claim = journal.claim /\ (HasResult => HasResult' /\ journal'.run = journal.run)
    BY <1>20 DEF delVars, DeliveryInv, StageInv, PlaceInv, DeliveryTypeOK, HasResult
  <2>2. UNCHANGED upload /\ journal'.uploaded = journal.uploaded
    BY <1>20 DEF delVars, DeliveryInv, StageInv, PlaceInv, DeliveryTypeOK
  <2>3. passAt' = "committing" => passAt = "committing" /\ inHand'.upload = inHand.upload
    BY <1>20 DEF delVars, DeliveryInv, StageInv, PlaceInv, DeliveryTypeOK
  <2>4. \A d \in Claims : lease[d].state # "none" => lease'[d].state # "none"
    BY <1>20 DEF delVars, DeliveryInv, StageInv, PlaceInv, DeliveryTypeOK, LeaseAlive
  <2>5. Opened' = Opened
    BY <2>2 DEF Opened
  <2>6. /\ \A o \in Outputs : journal'.uploaded[o] # 0 => OfJournal(journal'.uploaded[o])
        /\ passAt' = "committing" => OfJournal(inHand'.upload) /\ upload[inHand'.upload].output \in Outputs
    BY <2>1, <2>2, <2>3 DEF UploadInv
  <2> QED
    BY <2>1, <2>2, <2>4, <2>5, <2>6, UploadFrame
<1> QED
  BY <1>1, <1>2, <1>3, <1>4, <1>5, <1>6, <1>7, <1>8, <1>9, <1>10, <1>11, <1>12, <1>13, <1>14, <1>15,
     <1>16, <1>17, <1>18, <1>19, <1>20 DEF DeliveryNext, DeliveryPass

\* Completions stay accounted for while the journal names the same claim and submission.
LEMMA CompletionFrame ==
  ASSUME CompletionInv, UNCHANGED <<completion, submitted>>, Opened \subseteq Opened', journal'.claim = journal.claim,
         (journal'.stage = "submitted") = (journal.stage = "submitted"),
         journal.stage = "submitted" => journal'.submission = journal.submission,
         \A u \in Opened : upload'[u].claim = upload[u].claim /\ upload'[u].run = upload[u].run,
         \A c \in Claims : lease[c].state # "none" => lease'[c].state # "none",
         completion \subseteq Deliveries
  PROVE  CompletionInv'
<1>1. \A d \in completion : d.claim \in Claims
  BY DEF Deliveries
<1>2. \A d \in completion' : /\ d.id <= submitted' /\ d.artifacts \subseteq Opened'
                             /\ Past(d.claim)' \/ (journal'.stage = "submitted" /\ d.claim = journal'.claim)
  BY <1>1 DEF CompletionInv, Past
<1>3. EvidenceOfRun'
  BY DEF CompletionInv, EvidenceOfRun
<1>4. CompletedOnce'
  BY DEF CompletionInv, CompletedOnce
<1> QED
  BY <1>2, <1>3, <1>4 DEF CompletionInv

\* Completions stay accounted for when the journal lets go of its claim.
LEMMA CompletionLeave ==
  ASSUME CompletionInv, UNCHANGED <<completion, submitted, upload, lease>>, journal'.stage # "submitted",
         \A d \in completion : lease[d.claim].state # "none" /\ d.claim # journal'.claim
  PROVE  CompletionInv'
<1>1. Opened' = Opened
  BY DEF Opened
<1>2. EvidenceOfRun' /\ CompletedOnce'
  BY DEF CompletionInv, EvidenceOfRun, CompletedOnce
<1> QED
  BY <1>1, <1>2 DEF CompletionInv, Past

\* Every completion keeps its evidence, and its claim has no other.
LEMMA CompletionsKept == DeliveryInv /\ [DeliveryNext]_delVars => CompletionInv'
<1> SUFFICES ASSUME DeliveryInv, [DeliveryNext]_delVars PROVE CompletionInv'
  OBVIOUS
<1>t. completion \subseteq Deliveries /\ lease \in [Claims -> LeaseRows] /\ upload \in [UploadIds -> UploadRows] /\ submitted \in Nat
  BY DeliveryRowsAre DEF DeliveryInv, DeliveryRows
<1>s. CompletionInv
  BY DEF DeliveryInv
<1>1. CASE BeginPass
  <2>1. UNCHANGED <<completion, submitted, upload, lease>>
    BY <1>1 DEF BeginPass
  <2>2. CASE UNCHANGED journal
    <3>1. Opened' = Opened
      BY <2>1 DEF Opened
    <3> QED
      BY <2>1, <2>2, <3>1, <1>s, <1>t, CompletionFrame
  <2>3. CASE journal.stage \in {"none", "requested"} /\ (journal.stage = "none" => Unbound # {})
             /\ journal' = [Blank EXCEPT !.stage = "requested", !.claim = NextRequest]
    <3>1. journal'.stage # "submitted" /\ journal'.claim = NextRequest /\ journal.stage # "submitted"
      BY <2>3 DEF Blank
    <3>2. \A d \in completion : Past(d.claim)
      BY <3>1, <1>s DEF CompletionInv
    <3>3. NextRequest = journal.claim \/ lease[NextRequest].state = "none"
      BY <2>3, NextRequestType
    <3> QED
      BY <2>1, <3>1, <3>2, <3>3, <1>s, CompletionLeave DEF Past
  <2> QED
    BY <1>1, <2>2, <2>3 DEF BeginPass
<1>2. CASE Claim
  <2>1. /\ UNCHANGED <<completion, submitted>> /\ journal'.claim = journal.claim
        /\ (journal'.stage = "submitted") = (journal.stage = "submitted")
        /\ journal.stage = "submitted" => journal'.submission = journal.submission
    BY <1>2 DEF Claim, Stage, Answered, AnswerLost, DeliveryInv, StageInv, PlaceInv, DeliveryTypeOK
  <2>2. UNCHANGED upload
    BY <1>2 DEF Claim, Stage, Answered, AnswerLost
  <2>3. /\ Opened \subseteq Opened'
        /\ \A w \in Opened : upload'[w].claim = upload[w].claim /\ upload'[w].run = upload[w].run
    BY <2>2 DEF Opened
  <2>4. \A d \in Claims : lease[d].state # "none" => lease'[d].state # "none"
    BY <1>2 DEF Claim, Stage, Answered, AnswerLost, DeliveryInv, StageInv, PlaceInv, DeliveryTypeOK, LeaseAlive
  <2> QED
    BY <2>1, <2>3, <2>4, <1>s, <1>t, CompletionFrame
<1>3. CASE NothingQueued
  <2>1. /\ UNCHANGED <<completion, submitted, upload, lease>> /\ journal' = Blank
        /\ journal.stage = "submitted" => lease[journal.claim].state # "none"
    BY <1>3 DEF NothingQueued, DeliveryInv, StageInv
  <2>2. \A d \in completion : lease[d.claim].state # "none" /\ d.claim # 0
    BY <2>1, <1>s, <1>t, DeliveryConstants DEF CompletionInv, Past, Deliveries
  <2>3. journal'.claim = 0 /\ journal'.stage # "submitted"
    BY <2>1 DEF Blank
  <2> QED
    BY <2>1, <2>2, <2>3, <1>s, CompletionLeave
<1>4. CASE BeginTask
  <2>1. /\ UNCHANGED <<completion, submitted>> /\ journal'.claim = journal.claim
        /\ (journal'.stage = "submitted") = (journal.stage = "submitted")
        /\ journal.stage = "submitted" => journal'.submission = journal.submission
    BY <1>4 DEF BeginTask, Answered, AnswerLost, DeliveryInv, StageInv, PlaceInv, DeliveryTypeOK
  <2>2. UNCHANGED upload
    BY <1>4 DEF BeginTask, Answered, AnswerLost
  <2>3. /\ Opened \subseteq Opened'
        /\ \A w \in Opened : upload'[w].claim = upload[w].claim /\ upload'[w].run = upload[w].run
    BY <2>2 DEF Opened
  <2>4. \A d \in Claims : lease[d].state # "none" => lease'[d].state # "none"
    <3>1. UNCHANGED lease \/ lease' = [lease EXCEPT ![journal.claim].state = "executing"]
      BY <1>4 DEF BeginTask
    <3> QED
      BY <3>1, <1>t DEF LeaseRows
  <2> QED
    BY <2>1, <2>3, <2>4, <1>s, <1>t, CompletionFrame
<1>5. CASE Execute
  <2>1. /\ UNCHANGED <<completion, submitted>> /\ journal'.claim = journal.claim
        /\ (journal'.stage = "submitted") = (journal.stage = "submitted")
        /\ journal.stage = "submitted" => journal'.submission = journal.submission
    BY <1>5 DEF Execute, DeliveryInv, StageInv, PlaceInv, DeliveryTypeOK
  <2>2. UNCHANGED upload
    BY <1>5 DEF Execute
  <2>3. /\ Opened \subseteq Opened'
        /\ \A w \in Opened : upload'[w].claim = upload[w].claim /\ upload'[w].run = upload[w].run
    BY <2>2 DEF Opened
  <2>4. \A d \in Claims : lease[d].state # "none" => lease'[d].state # "none"
    BY <1>5 DEF Execute, DeliveryInv, StageInv, PlaceInv, DeliveryTypeOK, LeaseAlive
  <2> QED
    BY <2>1, <2>3, <2>4, <1>s, <1>t, CompletionFrame
<1>6. CASE SaveExecution
  <2>1. /\ UNCHANGED <<completion, submitted>> /\ journal'.claim = journal.claim
        /\ (journal'.stage = "submitted") = (journal.stage = "submitted")
        /\ journal.stage = "submitted" => journal'.submission = journal.submission
    BY <1>6 DEF SaveExecution, KeepExecution, DeliveryInv, StageInv, PlaceInv, DeliveryTypeOK
  <2>2. UNCHANGED upload
    BY <1>6 DEF SaveExecution, KeepExecution
  <2>3. /\ Opened \subseteq Opened'
        /\ \A w \in Opened : upload'[w].claim = upload[w].claim /\ upload'[w].run = upload[w].run
    BY <2>2 DEF Opened
  <2>4. \A d \in Claims : lease[d].state # "none" => lease'[d].state # "none"
    BY <1>6 DEF SaveExecution, KeepExecution, DeliveryInv, StageInv, PlaceInv, DeliveryTypeOK, LeaseAlive
  <2> QED
    BY <2>1, <2>3, <2>4, <1>s, <1>t, CompletionFrame
<1>7. CASE UploadsDone
  <2>1. /\ UNCHANGED <<completion, submitted>> /\ journal'.claim = journal.claim
        /\ (journal'.stage = "submitted") = (journal.stage = "submitted")
        /\ journal.stage = "submitted" => journal'.submission = journal.submission
    BY <1>7 DEF UploadsDone, DeliveryInv, StageInv, PlaceInv, DeliveryTypeOK
  <2>2. UNCHANGED upload
    BY <1>7 DEF UploadsDone
  <2>3. /\ Opened \subseteq Opened'
        /\ \A w \in Opened : upload'[w].claim = upload[w].claim /\ upload'[w].run = upload[w].run
    BY <2>2 DEF Opened
  <2>4. \A d \in Claims : lease[d].state # "none" => lease'[d].state # "none"
    BY <1>7 DEF UploadsDone, DeliveryInv, StageInv, PlaceInv, DeliveryTypeOK, LeaseAlive
  <2> QED
    BY <2>1, <2>3, <2>4, <1>s, <1>t, CompletionFrame
<1>8. CASE CommitOutput
  <2>1. /\ UNCHANGED <<completion, submitted>> /\ journal'.claim = journal.claim
        /\ (journal'.stage = "submitted") = (journal.stage = "submitted")
        /\ journal.stage = "submitted" => journal'.submission = journal.submission
    BY <1>8 DEF CommitOutput, DeliveryInv, StageInv, PlaceInv, DeliveryTypeOK
  <2>2. UNCHANGED upload \/ upload' = [upload EXCEPT ![inHand.upload].state = "committed"]
    BY <1>8 DEF CommitOutput
  <2>3. /\ Opened \subseteq Opened'
        /\ \A w \in Opened : upload'[w].claim = upload[w].claim /\ upload'[w].run = upload[w].run
    BY <2>2, <1>t DEF UploadRows, Opened
  <2>4. \A d \in Claims : lease[d].state # "none" => lease'[d].state # "none"
    BY <1>8 DEF CommitOutput, DeliveryInv, StageInv, PlaceInv, DeliveryTypeOK, LeaseAlive
  <2> QED
    BY <2>1, <2>3, <2>4, <1>s, <1>t, CompletionFrame
<1>9. CASE PrepareSubmission
  <2>1. /\ UNCHANGED <<completion, upload, lease>> /\ submitted' = submitted + 1 /\ journal.stage # "submitted"
        /\ journal'.stage = "submitted" /\ journal'.submission = submitted + 1 /\ journal'.claim = journal.claim
    BY <1>9 DEF PrepareSubmission, SavedSubmission, DeliveryInv, StageInv, PlaceInv, DeliveryTypeOK
  <2>2. Opened' = Opened /\ EvidenceOfRun' /\ CompletedOnce'
    BY <2>1, <1>s DEF Opened, CompletionInv, EvidenceOfRun, CompletedOnce
  <2>3. \A d \in completion : d.id \in Nat /\ d.id <= submitted /\ Past(d.claim)
    BY <2>1, <1>s, <1>t DEF CompletionInv, Deliveries
  <2> QED
    BY <2>1, <2>2, <2>3, <1>s, <1>t DEF CompletionInv, Past
<1>10. CASE DeliverResult
  <2>1. /\ UNCHANGED <<submitted, upload, lease, journal>> /\ journal.stage = "submitted" /\ passAt = "complete"
        /\ Missing = {} /\ Opened' = Opened
    BY <1>10 DEF DeliverResult, DeliveryInv, StageInv, PlaceInv, Opened
  <2>2. CASE UNCHANGED completion
    BY <2>1, <2>2, <1>s, <1>t, CompletionFrame
  <2>3. CASE ~UNCHANGED completion
    <3>1. PICK r : /\ completion' = completion \cup {r} /\ r.id = journal.submission /\ r.claim = journal.claim
                   /\ r.run = journal.run /\ r.artifacts = References
      <4> DEFINE row(s) == [id |-> journal.submission, claim |-> journal.claim, run |-> journal.run,
                           artifacts |-> References, state |-> s]
      <4>1. PICK s \in {"delivered", "duplicate", "stale"} : completion' = completion \cup {row(s)}
        BY <1>10, <2>3 DEF DeliverResult
      <4>2. /\ row(s).id = journal.submission /\ row(s).claim = journal.claim
            /\ row(s).run = journal.run /\ row(s).artifacts = References
        OBVIOUS
      <4> HIDE DEF row
      <4> QED
        BY <4>1, <4>2
    <3>2. \A d \in completion : d.id # journal.submission
      BY <1>10, <2>3 DEF DeliverResult
    <3>3. \A d \in completion : d.claim # journal.claim
      BY <2>1, <3>2, <1>s DEF CompletionInv
    <3>4. \A u \in References : u \in Opened /\ upload[u].claim = journal.claim /\ upload[u].run = journal.run
      BY <2>1 DEF References, Missing, DeliveryInv, UploadInv, OfJournal
    <3>5. EvidenceOfRun'
      BY <2>1, <3>1, <3>4, <1>s DEF EvidenceOfRun, CompletionInv
    <3>6. CompletedOnce'
      BY <3>1, <3>3, <1>s DEF CompletedOnce, CompletionInv
    <3>7. \A d \in completion' : /\ d.id <= submitted /\ d.artifacts \subseteq Opened
                                 /\ Past(d.claim) \/ d.claim = journal.claim
                                 /\ d.id = journal.submission <=> d.claim = journal.claim
      BY <2>1, <3>1, <3>4, <1>s DEF CompletionInv
    <3> QED
      BY <2>1, <3>5, <3>6, <3>7, <1>s DEF CompletionInv, Past
  <2> QED
    BY <2>2, <2>3
<1>11. CASE ClearJournal
  <2>1. /\ UNCHANGED <<completion, submitted, upload, lease>> /\ journal' = Blank
        /\ journal.stage = "submitted" => lease[journal.claim].state # "none"
    BY <1>11 DEF ClearJournal, DeliveryInv, StageInv
  <2>2. \A d \in completion : lease[d.claim].state # "none" /\ d.claim # 0
    BY <2>1, <1>s, <1>t, DeliveryConstants DEF CompletionInv, Past, Deliveries
  <2>3. journal'.claim = 0 /\ journal'.stage # "submitted"
    BY <2>1 DEF Blank
  <2> QED
    BY <2>1, <2>2, <2>3, <1>s, CompletionLeave
<1>12. ASSUME NEW o \in Outputs, OpenOutput(o) PROVE CompletionInv'
  <2>1. /\ UNCHANGED <<completion, submitted>> /\ journal'.claim = journal.claim
        /\ (journal'.stage = "submitted") = (journal.stage = "submitted")
        /\ journal.stage = "submitted" => journal'.submission = journal.submission
    BY <1>12 DEF OpenOutput, DeliveryInv, StageInv, PlaceInv, DeliveryTypeOK
  <2>2. UNCHANGED upload \/ \E w \in UploadIds \ Opened : \E v \in UploadRows :
                              upload' = [upload EXCEPT ![w] = v] /\ v.state # "none"
    <3> DEFINE m == Cardinality(Opened) + 1
               row == [state |-> "staging", claim |-> journal.claim, output |-> o, run |-> inHand.run]
    <3>1. UNCHANGED upload \/ (m \in UploadIds /\ upload' = [upload EXCEPT ![m] = row])
      BY <1>12 DEF OpenOutput
    <3>2. \E k \in 0..MaxUploads : Opened = 1..k /\ m = k + 1
      BY NextUpload DEF DeliveryInv
    <3>3. m \notin Opened
      BY <3>2, DeliveryConstants
    <3>4. row \in UploadRows /\ row.state # "none"
      BY DEF DeliveryInv, DeliveryTypeOK, UploadRows
    <3> HIDE DEF m, row
    <3> QED
      BY <3>1, <3>3, <3>4
  <2>3. /\ Opened \subseteq Opened'
        /\ \A w \in Opened : upload'[w].claim = upload[w].claim /\ upload'[w].run = upload[w].run
    BY <2>2, <1>t DEF Opened
  <2>4. \A d \in Claims : lease[d].state # "none" => lease'[d].state # "none"
    BY <1>12 DEF OpenOutput, DeliveryInv, StageInv, PlaceInv, DeliveryTypeOK, LeaseAlive
  <2> QED
    BY <2>1, <2>3, <2>4, <1>s, <1>t, CompletionFrame
<1>13. CASE Renew
  <2>1. /\ UNCHANGED <<completion, submitted>> /\ journal'.claim = journal.claim
        /\ (journal'.stage = "submitted") = (journal.stage = "submitted")
        /\ journal.stage = "submitted" => journal'.submission = journal.submission
    BY <1>13 DEF Renew, Keeping, DeliveryInv, StageInv, PlaceInv, DeliveryTypeOK
  <2>2. UNCHANGED upload
    BY <1>13 DEF Renew, Keeping
  <2>3. /\ Opened \subseteq Opened'
        /\ \A w \in Opened : upload'[w].claim = upload[w].claim /\ upload'[w].run = upload[w].run
    BY <2>2 DEF Opened
  <2>4. \A d \in Claims : lease[d].state # "none" => lease'[d].state # "none"
    BY <1>13 DEF Renew, Keeping, DeliveryInv, StageInv, PlaceInv, DeliveryTypeOK, LeaseAlive
  <2> QED
    BY <2>1, <2>3, <2>4, <1>s, <1>t, CompletionFrame
<1>14. CASE KeeperFails
  <2>1. /\ UNCHANGED <<completion, submitted>> /\ journal'.claim = journal.claim
        /\ (journal'.stage = "submitted") = (journal.stage = "submitted")
        /\ journal.stage = "submitted" => journal'.submission = journal.submission
    BY <1>14 DEF KeeperFails, Keeping, DeliveryInv, StageInv, PlaceInv, DeliveryTypeOK
  <2>2. UNCHANGED upload
    BY <1>14 DEF KeeperFails, Keeping
  <2>3. /\ Opened \subseteq Opened'
        /\ \A w \in Opened : upload'[w].claim = upload[w].claim /\ upload'[w].run = upload[w].run
    BY <2>2 DEF Opened
  <2>4. \A d \in Claims : lease[d].state # "none" => lease'[d].state # "none"
    BY <1>14 DEF KeeperFails, Keeping, DeliveryInv, StageInv, PlaceInv, DeliveryTypeOK, LeaseAlive
  <2> QED
    BY <2>1, <2>3, <2>4, <1>s, <1>t, CompletionFrame
<1>15. CASE ClaimLapses
  <2>1. /\ UNCHANGED <<completion, submitted>> /\ journal'.claim = journal.claim
        /\ (journal'.stage = "submitted") = (journal.stage = "submitted")
        /\ journal.stage = "submitted" => journal'.submission = journal.submission
    BY <1>15 DEF ClaimLapses, DeliveryInv, StageInv, PlaceInv, DeliveryTypeOK
  <2>2. UNCHANGED upload
    BY <1>15 DEF ClaimLapses
  <2>3. /\ Opened \subseteq Opened'
        /\ \A w \in Opened : upload'[w].claim = upload[w].claim /\ upload'[w].run = upload[w].run
    BY <2>2 DEF Opened
  <2>4. \A d \in Claims : lease[d].state # "none" => lease'[d].state # "none"
    BY <1>15 DEF ClaimLapses, DeliveryInv, StageInv, PlaceInv, DeliveryTypeOK, LeaseAlive
  <2> QED
    BY <2>1, <2>3, <2>4, <1>s, <1>t, CompletionFrame
<1>16. CASE WorkerDies
  <2>1. /\ UNCHANGED <<completion, submitted>> /\ journal'.claim = journal.claim
        /\ (journal'.stage = "submitted") = (journal.stage = "submitted")
        /\ journal.stage = "submitted" => journal'.submission = journal.submission
    BY <1>16 DEF WorkerDies, DeliveryInv, StageInv, PlaceInv, DeliveryTypeOK
  <2>2. UNCHANGED upload
    BY <1>16 DEF WorkerDies
  <2>3. /\ Opened \subseteq Opened'
        /\ \A w \in Opened : upload'[w].claim = upload[w].claim /\ upload'[w].run = upload[w].run
    BY <2>2 DEF Opened
  <2>4. \A d \in Claims : lease[d].state # "none" => lease'[d].state # "none"
    BY <1>16 DEF WorkerDies, DeliveryInv, StageInv, PlaceInv, DeliveryTypeOK, LeaseAlive
  <2> QED
    BY <2>1, <2>3, <2>4, <1>s, <1>t, CompletionFrame
<1>17. ASSUME NEW c \in Claims, LeaseRunsOut(c) PROVE CompletionInv'
  <2>1. /\ UNCHANGED <<completion, submitted>> /\ journal'.claim = journal.claim
        /\ (journal'.stage = "submitted") = (journal.stage = "submitted")
        /\ journal.stage = "submitted" => journal'.submission = journal.submission
    BY <1>17 DEF LeaseRunsOut, DeliveryInv, StageInv, PlaceInv, DeliveryTypeOK
  <2>2. UNCHANGED upload
    BY <1>17 DEF LeaseRunsOut
  <2>3. /\ Opened \subseteq Opened'
        /\ \A w \in Opened : upload'[w].claim = upload[w].claim /\ upload'[w].run = upload[w].run
    BY <2>2 DEF Opened
  <2>4. \A d \in Claims : lease[d].state # "none" => lease'[d].state # "none"
    BY <1>17 DEF LeaseRunsOut, DeliveryInv, StageInv, PlaceInv, DeliveryTypeOK, LeaseAlive
  <2> QED
    BY <2>1, <2>3, <2>4, <1>s, <1>t, CompletionFrame
<1>18. ASSUME NEW c \in Claims, ExpireLease(c) PROVE CompletionInv'
  <2>1. /\ UNCHANGED <<completion, submitted>> /\ journal'.claim = journal.claim
        /\ (journal'.stage = "submitted") = (journal.stage = "submitted")
        /\ journal.stage = "submitted" => journal'.submission = journal.submission
    BY <1>18 DEF ExpireLease, DeliveryInv, StageInv, PlaceInv, DeliveryTypeOK
  <2>2. UNCHANGED upload
    BY <1>18 DEF ExpireLease
  <2>3. /\ Opened \subseteq Opened'
        /\ \A w \in Opened : upload'[w].claim = upload[w].claim /\ upload'[w].run = upload[w].run
    BY <2>2 DEF Opened
  <2>4. \A d \in Claims : lease[d].state # "none" => lease'[d].state # "none"
    BY <1>18 DEF ExpireLease, DeliveryInv, StageInv, PlaceInv, DeliveryTypeOK, LeaseAlive
  <2> QED
    BY <2>1, <2>3, <2>4, <1>s, <1>t, CompletionFrame
<1>19. ASSUME NEW u \in UploadIds, ArtifactLost(u) PROVE CompletionInv'
  <2>1. /\ UNCHANGED <<completion, submitted>> /\ journal'.claim = journal.claim
        /\ (journal'.stage = "submitted") = (journal.stage = "submitted")
        /\ journal.stage = "submitted" => journal'.submission = journal.submission
    BY <1>19 DEF ArtifactLost, DeliveryInv, StageInv, PlaceInv, DeliveryTypeOK
  <2>2. UNCHANGED upload \/ upload' = [upload EXCEPT ![u].state = "gone"]
    BY <1>19 DEF ArtifactLost
  <2>3. /\ Opened \subseteq Opened'
        /\ \A w \in Opened : upload'[w].claim = upload[w].claim /\ upload'[w].run = upload[w].run
    BY <2>2, <1>t DEF UploadRows, Opened
  <2>4. \A d \in Claims : lease[d].state # "none" => lease'[d].state # "none"
    BY <1>19 DEF ArtifactLost, DeliveryInv, StageInv, PlaceInv, DeliveryTypeOK, LeaseAlive
  <2> QED
    BY <2>1, <2>3, <2>4, <1>s, <1>t, CompletionFrame
<1>20. CASE UNCHANGED delVars
  <2>1. /\ UNCHANGED <<completion, submitted>> /\ journal'.claim = journal.claim
        /\ (journal'.stage = "submitted") = (journal.stage = "submitted")
        /\ journal.stage = "submitted" => journal'.submission = journal.submission
    BY <1>20 DEF delVars, DeliveryInv, StageInv, PlaceInv, DeliveryTypeOK
  <2>2. UNCHANGED upload
    BY <1>20 DEF delVars
  <2>3. /\ Opened \subseteq Opened'
        /\ \A w \in Opened : upload'[w].claim = upload[w].claim /\ upload'[w].run = upload[w].run
    BY <2>2 DEF Opened
  <2>4. \A d \in Claims : lease[d].state # "none" => lease'[d].state # "none"
    BY <1>20 DEF delVars, DeliveryInv, StageInv, PlaceInv, DeliveryTypeOK, LeaseAlive
  <2> QED
    BY <2>1, <2>3, <2>4, <1>s, <1>t, CompletionFrame
<1> QED
  BY <1>1, <1>2, <1>3, <1>4, <1>5, <1>6, <1>7, <1>8, <1>9, <1>10, <1>11, <1>12, <1>13, <1>14, <1>15,
     <1>16, <1>17, <1>18, <1>19, <1>20 DEF DeliveryNext, DeliveryPass

\* A result that was in the journal is there until its lease is let go.
LEMMA ResultsKept == DeliveryInv /\ [DeliveryNext]_delVars => KeptInv'
<1> SUFFICES ASSUME DeliveryInv, [DeliveryNext]_delVars, NEW c \in kept'
             PROVE  (Past(c) \/ (HasResult /\ c = journal.claim))'
  BY DEF KeptInv
<1>t. journal \in Journals /\ lease \in [Claims -> LeaseRows] /\ kept \subseteq Claims
  BY DeliveryRowsAre DEF DeliveryInv, DeliveryRows
<1>k. c \in kept => Past(c) \/ (HasResult /\ c = journal.claim)
  BY DEF DeliveryInv, KeptInv
<1>g. \A d \in Claims : lease[d].state # "none" => lease'[d].state # "none"
  <2>1. CASE UNCHANGED lease
    BY <2>1
  <2>2. CASE Claim
    BY <2>2, <1>t DEF Claim, LeaseRows
  <2>3. CASE BeginTask
    BY <2>3, <1>t DEF BeginTask, LeaseRows
  <2>4. CASE Renew \/ ClaimLapses
    BY <2>4, <1>t DEF Renew, ClaimLapses, LeaseRows
  <2>5. ASSUME NEW d \in Claims, LeaseRunsOut(d) \/ ExpireLease(d)
        PROVE  \A e \in Claims : lease[e].state # "none" => lease'[e].state # "none"
    BY <2>5, <1>t DEF LeaseRunsOut, ExpireLease, LeaseRows
  <2> QED
    BY <2>1, <2>2, <2>3, <2>4, <2>5 DEF DeliveryNext, DeliveryPass, delVars, BeginPass, NothingQueued, Execute,
         SaveExecution, UploadsDone, CommitOutput, PrepareSubmission, DeliverResult, ClearJournal, OpenOutput,
         KeeperFails, WorkerDies, ArtifactLost
<1>1. CASE BeginPass
  <2>1. c \in kept
    BY <1>1 DEF BeginPass
  <2>2. CASE journal.stage \in {"none", "requested"} /\ journal' # journal
    <3>1. /\ journal.stage = "none" => Unbound # {}
          /\ journal'.claim = NextRequest /\ UNCHANGED lease
      BY <1>1, <2>2, <1>t DEF BeginPass, Blank
    <3>2. Past(c)
      BY <1>k, <2>1, <2>2 DEF HasResult
    <3>3. c # NextRequest
      BY <2>2, <3>1, <3>2, NextRequestType DEF Past
    <3> QED
      BY <3>1, <3>2, <3>3 DEF Past
  <2>3. CASE journal' = journal
    BY <1>g, <1>k, <1>t, <2>1, <2>3 DEF Past, HasResult
  <2> QED
    BY <1>1, <2>2, <2>3 DEF BeginPass
<1>2. CASE Claim
  <2>1. c \in kept /\ journal'.claim = journal.claim /\ journal.stage = "requested"
    BY <1>2, <1>t DEF Claim, Stage, Journals, DeliveryInv, PlaceInv
  <2> QED
    BY <1>g, <1>k, <1>t, <2>1 DEF Past, HasResult
<1>3. CASE NothingQueued \/ ClearJournal
  <2>1. c \in kept /\ UNCHANGED lease /\ journal'.claim = 0 /\ c # 0
    BY <1>3, <1>t, DeliveryConstants DEF NothingQueued, ClearJournal, Blank
  <2>2. lease[c].state # "none"
    <3>1. ClearJournal => journal.stage \in {"claimed", "executed", "submitted"}
      BY DEF ClearJournal, DeliveryInv, PlaceInv
    <3>2. NothingQueued => ~HasResult
      BY DEF NothingQueued, DeliveryInv, PlaceInv, HasResult
    <3> QED
      BY <1>3, <1>k, <2>1, <3>1, <3>2 DEF Past, DeliveryInv, StageInv
  <2> QED
    BY <2>1, <2>2 DEF Past
<1>4. CASE SaveExecution
  <2>1. /\ journal'.claim = journal.claim /\ journal'.stage = "executed" /\ c \in kept \cup {journal.claim}
        /\ UNCHANGED lease
    BY <1>4, <1>t DEF SaveExecution, KeepExecution, Journals
  <2> QED
    BY <1>k, <2>1 DEF Past, HasResult
<1>5. CASE /\ UNCHANGED kept /\ journal'.claim = journal.claim /\ (HasResult => HasResult')
  BY <1>5, <1>g, <1>k, <1>t DEF Past
<1>6. CommitOutput => UNCHANGED kept /\ journal'.claim = journal.claim /\ journal'.stage = journal.stage
  BY <1>t DEF CommitOutput, Journals
<1>7. PrepareSubmission => UNCHANGED kept /\ journal'.claim = journal.claim /\ journal'.stage = "submitted"
  BY <1>t DEF PrepareSubmission, SavedSubmission, Journals
<1>8. UNCHANGED <<kept, journal>> => UNCHANGED kept /\ journal'.claim = journal.claim /\ journal'.stage = journal.stage
  OBVIOUS
<1>9. \/ BeginPass \/ Claim \/ NothingQueued \/ ClearJournal \/ SaveExecution \/ CommitOutput \/ PrepareSubmission
      \/ UNCHANGED <<kept, journal>>
  BY DEF DeliveryNext, DeliveryPass, delVars, BeginTask, Execute, UploadsDone, DeliverResult, OpenOutput, Renew,
       KeeperFails, ClaimLapses, WorkerDies, LeaseRunsOut, ExpireLease, ArtifactLost
<1> QED
  BY <1>1, <1>2, <1>3, <1>4, <1>5, <1>6, <1>7, <1>8, <1>9 DEF HasResult

\* The invariant of the deliveries.
LEMMA DeliveriesInvariant == DeliverySpec => []DeliveryInv
<1>1. DeliveryInit => DeliveryInv
  <2> SUFFICES ASSUME DeliveryInit PROVE DeliveryInv
    OBVIOUS
  <2>1. DeliveryTypeOK
    <3>1. lease \in [Claims -> LeaseRows] /\ upload \in [UploadIds -> UploadRows]
      BY DeliveryConstants DEF DeliveryInit, LeaseRows, UploadRows
    <3>2. runs \in [1..MaxRuns -> 0..MaxClaims] /\ completion \subseteq Deliveries /\ 0 \in 0..MaxDeliveryFaults
      BY DeliveryConstants DEF DeliveryInit
    <3> QED
      BY <3>1, <3>2, RowUpdates, DeliveryRowsAre DEF DeliveryInit, DeliveryRows, Places
  <2>2. Opened = {} /\ 1..0 = {}
    BY DEF DeliveryInit, Opened
  <2>3. StageInv /\ PlaceInv
    BY DEF DeliveryInit, StageInv, PlaceInv, Blank, HasResult
  <2>4. UploadInv
    BY <2>2, DeliveryConstants DEF DeliveryInit, UploadInv, Blank, NoUploads
  <2>5. CompletionInv /\ LeaseRemembered
    BY DEF DeliveryInit, CompletionInv, LeaseRemembered, EvidenceOfRun, CompletedOnce, LeaseAlive, Blank
  <2>6. KeptInv
    BY DEF DeliveryInit, KeptInv
  <2> QED
    BY <2>1, <2>3, <2>4, <2>5, <2>6 DEF DeliveryInv
<1>2. DeliveryInv /\ [DeliveryNext]_delVars => DeliveryInv'
  <2> SUFFICES ASSUME DeliveryInv, [DeliveryNext]_delVars PROVE DeliveryInv'
    OBVIOUS
  <2>1. DeliveryTypeOK'
    BY RowsKept DEF DeliveryRows, DeliveryTypeOK, Journals, Places, Hands, LeaseRows, UploadRows, Deliveries
  <2> QED
    BY <2>1, StagesKept, PlacesKept, UploadsKept, CompletionsKept, MemoryKept, ResultsKept DEF DeliveryInv
<1> QED
  BY <1>1, <1>2, PTL DEF DeliverySpec

\* The safety part of DeliveryCompletes: what a completion reports was uploaded under its
\* lease from the run it names, no claim is completed twice, a lease in force is in the
\* journal unless it was renewed past its first expiry, and an execution never starts for
\* a claim a result of which has been in the journal (process.py:175-242).
THEOREM DeliveryHolds ==
  DeliverySpec => /\ [](DeliveryTypeOK /\ EvidenceOfRun /\ CompletedOnce /\ LeaseRemembered)
                  /\ NoRerun
<1>1. DeliveryInv => DeliveryTypeOK /\ EvidenceOfRun /\ CompletedOnce /\ LeaseRemembered
  BY DEF DeliveryInv, CompletionInv
<1> DEFINE NotStoredYet == \A r \in 1..MaxRuns : runs'[r] # runs[r] => runs'[r] \notin kept
<1>2. DeliveryInv /\ [DeliveryNext]_delVars => [NotStoredYet]_delVars
  <2> SUFFICES ASSUME DeliveryInv, DeliveryNext PROVE NotStoredYet
    OBVIOUS
  <2>1. CASE Execute
    <3>1. PICK r \in 1..MaxRuns : runs' = [runs EXCEPT ![r] = journal.claim]
      BY <2>1 DEF Execute
    <3>2. \A q \in 1..MaxRuns : runs'[q] # runs[q] => runs'[q] = journal.claim
      BY <3>1 DEF DeliveryInv, DeliveryTypeOK
    <3>3. journal.claim \notin kept
      BY <2>1 DEF Execute, DeliveryInv, PlaceInv, KeptInv, HasResult, Past
    <3> QED
      BY <3>2, <3>3
  <2>2. CASE ~Execute
    <3>1. UNCHANGED runs
      BY <2>2 DEF DeliveryNext, DeliveryPass, BeginPass, Claim, NothingQueued, BeginTask, SaveExecution, UploadsDone,
           CommitOutput, PrepareSubmission, DeliverResult, ClearJournal, OpenOutput, Renew, KeeperFails, ClaimLapses,
           WorkerDies, LeaseRunsOut, ExpireLease, ArtifactLost
    <3> QED
      BY <3>1
  <2> QED
    BY <2>1, <2>2
<1>3. DeliverySpec => [][DeliveryNext]_delVars
  BY DEF DeliverySpec
<1> QED
  BY <1>1, <1>2, <1>3, DeliveriesInvariant, PTL DEF NoRerun

-----------------------------------------------------------------------------
(* Execution sessions. *)

\* What the start has done by each of its steps.
StartInv ==
  /\ startAt \in {"idle", "prepared"} =>
       /\ proc = "none" /\ ~session.identity /\ ~monitored /\ ~handle
       /\ doing["starter"] = "idle" /\ doing["monitor"] = "idle"
  /\ startAt = "idle" => ~session.finished /\ ~session.retryable /\ doing["client"] = "idle"
  /\ startAt = "prepared" /\ ~hasty =>
       ~session.finished /\ ~session.retryable /\ doing["client"] \in {"idle", "cancel"}
  /\ startAt \in {"spawned", "recorded", "released", "ready"} => handle
  /\ IF startAt \in {"spawned", "recorded"} THEN proc # "running" ELSE proc # "paused"
  /\ startAt = "recorded" => session.state # "starting"
  /\ session.state = "starting" => proc # "running"
  /\ exitOk => proc = "exited"

\* What a thread that holds the lock has read is still so.
SettlingHolds ==
  /\ ~session.finished /\ seen.cancelled = session.cancelled
  /\ \/ hasty
     \/ ~Alive /\ seen.changed = changed
     \/ ~handle /\ (seen.cancelled \/ Overridden)

\* What is known when a thread has decided on an operation.
DoingInv ==
  \A t \in Threads :
    /\ doing[t] \in {"signal", "settling"} => lock = t
    /\ doing[t] = "interrupt" => ~Alive \/ hasty
    /\ doing[t] = "signal" => session.cancelled
    /\ doing[t] = "settle" /\ Alive =>
         hasty \/ handle \/ session.cancelled \/ session.finished \/ session.state \in {"lost", "uncertain"}
    /\ doing[t] = "settling" => SettlingHolds

SessionRows ==
  [state : SessionStates, identity : BOOLEAN, cancelled : BOOLEAN, finished : BOOLEAN, retryable : BOOLEAN,
   effect : {"unknown", "absent", "completed", "uncertain"}]

SessionInv == SupervisorTypeOK /\ StartInv /\ DoingInv /\ RetryableSafe /\ CompletedWitnessed

\* The variables keep their types.
LEMMA SessionTypesKept == SessionInv /\ [SupervisorNext]_supervisorVars => SupervisorTypeOK'
<1> SUFFICES ASSUME SessionInv, [SupervisorNext]_supervisorVars PROVE SupervisorTypeOK'
  OBVIOUS
<1> USE SupervisorAssumption DEF SessionInv, SupervisorTypeOK, SessionRows, Threads, SessionStates, ActiveStates
<1>1. CASE StartPrepare
  BY <1>1 DEF StartPrepare
<1>2. CASE StartSpawn
  BY <1>2 DEF StartSpawn
<1>3. CASE StartRecord
  <2>1. session' \in SessionRows
    BY <1>3 DEF StartRecord
  <2> QED
    BY <1>3, <2>1 DEF StartRecord
<1>4. CASE StartAborts
  BY <1>4 DEF StartAborts, Does
<1>5. CASE StartRelease
  BY <1>5 DEF StartRelease
<1>6. CASE AwaitReadiness
  BY <1>6 DEF AwaitReadiness, Does
<1>7. CASE MarkReady
  BY <1>7 DEF MarkReady
<1>8. CASE Observe
  BY <1>8 DEF Observe, StatusBy, Does, DecideOwned, DecideInherited, IdentityMatches, ActiveStates
<1>9. CASE MonitorPolls
  <2>1. /\ UNCHANGED <<request, session, proc, exitOk, changed, handle, startAt, lock, seen, overdue, hasty, crashes>>
        /\ monitored' \in BOOLEAN
    BY <1>9 DEF MonitorPolls, StatusBy
  <2>2. UNCHANGED doing \/ \E op \in {"idle", "interrupt", "lose", "doubt", "cancel", "settle"} :
          doing' = [doing EXCEPT !["monitor"] = op]
    BY <1>9 DEF MonitorPolls, StatusBy, Does, DecideOwned, DecideInherited, IdentityMatches, ActiveStates
  <2>3. doing' \in [Threads -> {"idle", "interrupt", "lose", "doubt", "cancel", "signal", "settle", "settling"}]
    BY <2>2
  <2> QED
    BY <2>1, <2>3
<1>10. CASE ClientStatus
  BY <1>10 DEF ClientStatus, StatusBy, Does, DecideOwned, DecideInherited, IdentityMatches, ActiveStates
<1>11. CASE ClientCancels
  BY <1>11 DEF ClientCancels, Does
<1>12. CASE ClientSettles
  BY <1>12 DEF ClientSettles, Does
<1>13. ASSUME NEW declares \in {"paths", "other"}, PtyWrite(declares) PROVE SupervisorTypeOK'
  BY <1>13 DEF PtyWrite, IdentityMatches
<1>14. ASSUME NEW t \in Threads, MarkInterrupted(t) PROVE SupervisorTypeOK'
  BY <1>14 DEF MarkInterrupted, Does
<1>15. ASSUME NEW t \in Threads, MarkLost(t) PROVE SupervisorTypeOK'
  BY <1>15 DEF MarkLost, Does
<1>16. ASSUME NEW t \in Threads, CancelBegins(t) PROVE SupervisorTypeOK'
  <2>1. session' \in SessionRows
    <3>1. session' = session \/ session' = [session EXCEPT !.state = "cancelling", !.cancelled = TRUE]
      BY <1>16 DEF CancelBegins
    <3> QED
      BY <3>1, ZenonT(60)
  <2>2. doing' \in [Threads -> {"idle", "interrupt", "lose", "doubt", "cancel", "signal", "settle", "settling"}]
    BY <1>16 DEF CancelBegins, Does
  <2>3. lock' \in Threads \cup {"free"}
    BY <1>16 DEF CancelBegins, Does
  <2>4. hasty' \in BOOLEAN
    BY <1>16 DEF CancelBegins
  <2> QED
    BY <1>16, <2>1, <2>2, <2>3, <2>4 DEF CancelBegins
<1>17. ASSUME NEW t \in Threads, Signals(t) PROVE SupervisorTypeOK'
  BY <1>17 DEF Signals, Does, IdentityMatches
<1>18. ASSUME NEW t \in Threads, SettleBegins(t) PROVE SupervisorTypeOK'
  BY <1>18 DEF SettleBegins, Does
<1>19. ASSUME NEW t \in Threads, SettleWrites(t) PROVE SupervisorTypeOK'
  <2>1. PICK observable \in BOOLEAN :
         LET effect == IF observable THEN EffectSettlement(seen.changed) ELSE "uncertain"
             state == TerminalState(effect)
         IN session' = [session EXCEPT !.state = state, !.finished = TRUE, !.effect = SettledEffect(effect),
                          !.retryable = (~Overridden /\ state = "failed" /\ effect = "absent")]
    BY <1>19 DEF SettleWrites
  <2> DEFINE effect == IF observable THEN EffectSettlement(seen.changed) ELSE "uncertain"
             state == TerminalState(effect)
             again == ~Overridden /\ state = "failed" /\ effect = "absent"
  <2>2. effect \in {"absent", "completed", "uncertain"}
    BY DEF EffectSettlement
  <2>3. state \in SessionStates /\ SettledEffect(effect) \in {"absent", "completed", "uncertain"} /\ again \in BOOLEAN
    <3>1. Overridden \in BOOLEAN /\ seen.state \in SessionStates
      BY DEF Overridden
    <3> HIDE DEF effect
    <3> QED
      BY <2>2, <3>1 DEF TerminalState, SettledEffect
  <2>4. session' = [session EXCEPT !.state = state, !.finished = TRUE, !.effect = SettledEffect(effect), !.retryable = again]
    BY <2>1
  <2>5. session' \in SessionRows
    <3> HIDE DEF effect, state, again
    <3> QED
      BY <2>3, <2>4
  <2> QED
    BY <1>19, <2>5 DEF SettleWrites, Does
<1>20. CASE ProcessWrites
  BY <1>20 DEF ProcessWrites
<1>21. CASE ProcessExits
  BY <1>21 DEF ProcessExits
<1>22. CASE BecomesOverdue
  BY <1>22 DEF BecomesOverdue
<1>23. CASE DaemonDies
  <2>1. /\ crashes' \in 0..MaxCrashes
        /\ doing' \in [Threads -> {"idle", "interrupt", "lose", "doubt", "cancel", "signal", "settle", "settling"}]
    BY <1>23 DEF DaemonDies
  <2>2. proc' \in {"none", "paused", "running", "exited"} /\ startAt' \in {"observe", "returned"}
    BY <1>23 DEF DaemonDies
  <2>3. /\ UNCHANGED <<request, session, exitOk, changed, seen, overdue, hasty>>
        /\ handle' = FALSE /\ monitored' = FALSE /\ lock' = "free"
    BY <1>23 DEF DaemonDies
  <2> QED
    <3>1. handle' \in BOOLEAN /\ monitored' \in BOOLEAN /\ lock' \in Threads \cup {"free"}
      BY <2>3
    <3>2. /\ request' \in [mode : {"job", "pty"}, readiness : BOOLEAN, declares : {"none", "paths", "other"}]
          /\ session' \in SessionRows
          /\ seen' \in [state : SessionStates, cancelled : BOOLEAN, changed : BOOLEAN, declares : {"none", "paths", "other"}]
      BY <2>3
    <3>3. exitOk' \in BOOLEAN /\ changed' \in BOOLEAN /\ overdue' \in BOOLEAN /\ hasty' \in BOOLEAN
      BY <2>3
    <3> QED
      BY <2>1, <2>2, <3>1, <3>2, <3>3
<1>24. CASE UNCHANGED supervisorVars
  BY <1>24 DEF supervisorVars
<1> QED
  BY <1>1, <1>2, <1>3, <1>4, <1>5, <1>6, <1>7, <1>8, <1>9, <1>10, <1>11, <1>12, <1>13, <1>14, <1>15,
     <1>16, <1>17, <1>18, <1>19, <1>20, <1>21, <1>22, <1>23, <1>24 DEF SupervisorNext, StarterStep,
     ThreadStep

\* What each step of the start has done stays so.
LEMMA StartKept == SessionInv /\ [SupervisorNext]_supervisorVars => StartInv'
<1> SUFFICES ASSUME SessionInv, [SupervisorNext]_supervisorVars PROVE StartInv'
  OBVIOUS
<1> USE DEF SessionInv, SupervisorTypeOK, StartInv, DoingInv, Threads, Alive
<1>1. CASE StartPrepare
  BY <1>1 DEF StartPrepare
<1>2. CASE StartSpawn
  BY <1>2 DEF StartSpawn
<1>3. CASE StartRecord
  BY <1>3 DEF StartRecord
<1>4. CASE StartAborts
  BY <1>4 DEF StartAborts, Does
<1>5. CASE StartRelease
  BY <1>5 DEF StartRelease
<1>6. CASE AwaitReadiness
  BY <1>6 DEF AwaitReadiness, Does
<1>7. CASE MarkReady
  BY <1>7 DEF MarkReady
<1>8. CASE Observe
  BY <1>8 DEF Observe, StatusBy, Does, DecideOwned, DecideInherited, IdentityMatches, ActiveStates
<1>9. CASE MonitorPolls
  BY <1>9 DEF MonitorPolls, StatusBy, Does, DecideOwned, DecideInherited, IdentityMatches, ActiveStates
<1>10. CASE ClientStatus
  BY <1>10 DEF ClientStatus, StatusBy, Does, DecideOwned, DecideInherited, IdentityMatches, ActiveStates
<1>11. CASE ClientCancels
  BY <1>11 DEF ClientCancels, Does
<1>12. CASE ClientSettles
  BY <1>12 DEF ClientSettles, Does
<1>13. ASSUME NEW declares \in {"paths", "other"}, PtyWrite(declares) PROVE StartInv'
  BY <1>13 DEF PtyWrite, IdentityMatches
<1>14. ASSUME NEW t \in Threads, MarkInterrupted(t) PROVE StartInv'
  BY <1>14 DEF MarkInterrupted, Does
<1>15. ASSUME NEW t \in Threads, MarkLost(t) PROVE StartInv'
  BY <1>15 DEF MarkLost, Does
<1>16. ASSUME NEW t \in Threads, CancelBegins(t) PROVE StartInv'
  BY <1>16, ZenonT(60) DEF CancelBegins, Does
<1>17. ASSUME NEW t \in Threads, Signals(t) PROVE StartInv'
  BY <1>17 DEF Signals, Does, IdentityMatches
<1>18. ASSUME NEW t \in Threads, SettleBegins(t) PROVE StartInv'
  BY <1>18 DEF SettleBegins, Does
<1>19. ASSUME NEW t \in Threads, SettleWrites(t) PROVE StartInv'
  BY <1>19 DEF SettleWrites, Does, TerminalState, EffectSettlement, SettledEffect, ExitExpected, Overridden
<1>20. CASE ProcessWrites
  BY <1>20 DEF ProcessWrites
<1>21. CASE ProcessExits
  BY <1>21 DEF ProcessExits
<1>22. CASE BecomesOverdue
  BY <1>22 DEF BecomesOverdue
<1>23. CASE DaemonDies
  BY <1>23 DEF DaemonDies, ActiveStates
<1>24. CASE UNCHANGED supervisorVars
  BY <1>24 DEF supervisorVars
<1> QED
  BY <1>1, <1>2, <1>3, <1>4, <1>5, <1>6, <1>7, <1>8, <1>9, <1>10, <1>11, <1>12, <1>13, <1>14, <1>15,
     <1>16, <1>17, <1>18, <1>19, <1>20, <1>21, <1>22, <1>23, <1>24 DEF SupervisorNext, StarterStep,
     ThreadStep

\* What a thread has decided on stays justified.
LEMMA DoingKept == SessionInv /\ [SupervisorNext]_supervisorVars => DoingInv'
<1> SUFFICES ASSUME SessionInv, [SupervisorNext]_supervisorVars PROVE DoingInv'
  OBVIOUS
<1> USE DEF SessionInv, SupervisorTypeOK, StartInv, DoingInv, SettlingHolds, Overridden, Threads, Alive
<1>1. CASE StartPrepare
  BY <1>1 DEF StartPrepare
<1>2. CASE StartSpawn
  BY <1>2 DEF StartSpawn
<1>3. CASE StartRecord
  BY <1>3 DEF StartRecord
<1>4. CASE StartAborts
  <2> SUFFICES ASSUME NEW u \in Threads
               PROVE  /\ doing'[u] \in {"signal", "settling"} => lock' = u
                      /\ doing'[u] = "interrupt" => ~Alive' \/ hasty'
                      /\ doing'[u] = "signal" => session'.cancelled
                      /\ doing'[u] = "settle" /\ Alive' =>
                           hasty' \/ handle' \/ session'.cancelled \/ session'.finished \/ session'.state \in {"lost", "uncertain"}
                      /\ doing'[u] = "settling" => SettlingHolds'
    OBVIOUS
  <2>1. /\ ~Alive' /\ doing' = [doing EXCEPT !["starter"] = "interrupt"]
        /\ UNCHANGED <<session, handle, lock, seen, changed, hasty>>
    BY <1>4 DEF StartAborts, Does
  <2>2. CASE u = "starter"
    BY <2>1, <2>2
  <2>3. CASE u # "starter"
    BY <1>4, <2>1, <2>3
  <2> QED
    BY <2>2, <2>3
<1>5. CASE StartRelease
  BY <1>5 DEF StartRelease
<1>6. CASE AwaitReadiness
  BY <1>6 DEF AwaitReadiness, Does
<1>7. CASE MarkReady
  BY <1>7 DEF MarkReady
<1>8. CASE Observe
  BY <1>8 DEF Observe, StatusBy, Does, DecideOwned, DecideInherited, IdentityMatches, ActiveStates
<1>9. CASE MonitorPolls
  <2> SUFFICES ASSUME NEW u \in Threads
               PROVE  /\ doing'[u] \in {"signal", "settling"} => lock' = u
                      /\ doing'[u] = "interrupt" => ~Alive' \/ hasty'
                      /\ doing'[u] = "signal" => session'.cancelled
                      /\ doing'[u] = "settle" /\ Alive' =>
                           hasty' \/ handle' \/ session'.cancelled \/ session'.finished \/ session'.state \in {"lost", "uncertain"}
                      /\ doing'[u] = "settling" => SettlingHolds'
    OBVIOUS
  <2>1. UNCHANGED <<session, proc, changed, handle, lock, seen, startAt, hasty>>
    BY <1>9 DEF MonitorPolls, StatusBy
  <2>2. CASE u # "monitor" \/ UNCHANGED doing
    <3>1. doing'[u] = doing[u]
      BY <1>9, <2>2 DEF MonitorPolls, StatusBy, Does
    <3> QED
      BY <2>1, <3>1
  <2>3. CASE u = "monitor" /\ ~UNCHANGED doing
    <3>1. /\ doing'[u] = IF handle THEN DecideOwned ELSE DecideInherited
          /\ startAt \notin {"idle", "prepared"}
      BY <1>9, <2>3 DEF MonitorPolls, StatusBy, Does
    <3> QED
      BY <2>1, <3>1 DEF DecideOwned, DecideInherited, IdentityMatches, ActiveStates
  <2> QED
    BY <2>2, <2>3
<1>10. CASE ClientStatus
  BY <1>10 DEF ClientStatus, StatusBy, Does, DecideOwned, DecideInherited, IdentityMatches, ActiveStates
<1>11. CASE ClientCancels
  BY <1>11 DEF ClientCancels, Does
<1>12. CASE ClientSettles
  BY <1>12 DEF ClientSettles, Does
<1>13. ASSUME NEW declares \in {"paths", "other"}, PtyWrite(declares) PROVE DoingInv'
  BY <1>13 DEF PtyWrite, IdentityMatches
<1>14. ASSUME NEW t \in Threads, MarkInterrupted(t) PROVE DoingInv'
  BY <1>14 DEF MarkInterrupted, Does
<1>15. ASSUME NEW t \in Threads, MarkLost(t) PROVE DoingInv'
  BY <1>15 DEF MarkLost, Does
<1>16. ASSUME NEW t \in Threads, CancelBegins(t) PROVE DoingInv'
  <2> SUFFICES ASSUME NEW u \in Threads
               PROVE  /\ doing'[u] \in {"signal", "settling"} => lock' = u
                      /\ doing'[u] = "interrupt" => ~Alive' \/ hasty'
                      /\ doing'[u] = "signal" => session'.cancelled
                      /\ doing'[u] = "settle" /\ Alive' =>
                           hasty' \/ handle' \/ session'.cancelled \/ session'.finished \/ session'.state \in {"lost", "uncertain"}
                      /\ doing'[u] = "settling" => SettlingHolds'
    OBVIOUS
  <2>1. UNCHANGED <<proc, changed, handle, seen>> /\ lock = "free" /\ (hasty => hasty')
    BY <1>16 DEF CancelBegins
  <2>2. CASE session.finished
    <3>1. UNCHANGED <<session, lock, hasty>> /\ doing' = [doing EXCEPT ![t] = "idle"]
      BY <1>16, <2>2 DEF CancelBegins, Does
    <3> QED
      BY <2>1, <3>1
  <2>3. CASE ~session.finished
    <3>1. /\ session'.cancelled /\ session'.finished = session.finished /\ lock' = t
          /\ doing' = [doing EXCEPT ![t] = "signal"]
      BY <1>16, <2>3 DEF CancelBegins, Does
    <3>2. doing[u] # "settling" /\ doing[u] # "signal"
      BY <2>1
    <3> QED
      BY <2>1, <3>1, <3>2
  <2> QED
    BY <2>2, <2>3
<1>17. ASSUME NEW t \in Threads, Signals(t) PROVE DoingInv'
  BY <1>17 DEF Signals, Does, IdentityMatches
<1>18. ASSUME NEW t \in Threads, SettleBegins(t) PROVE DoingInv'
  BY <1>18 DEF SettleBegins, Does
<1>19. ASSUME NEW t \in Threads, SettleWrites(t) PROVE DoingInv'
  BY <1>19 DEF SettleWrites, Does, TerminalState, EffectSettlement, SettledEffect, ExitExpected, Overridden
<1>20. CASE ProcessWrites
  BY <1>20 DEF ProcessWrites
<1>21. CASE ProcessExits
  BY <1>21 DEF ProcessExits
<1>22. CASE BecomesOverdue
  BY <1>22 DEF BecomesOverdue
<1>23. CASE DaemonDies
  BY <1>23 DEF DaemonDies, ActiveStates
<1>24. CASE UNCHANGED supervisorVars
  BY <1>24 DEF supervisorVars
<1> QED
  BY <1>1, <1>2, <1>3, <1>4, <1>5, <1>6, <1>7, <1>8, <1>9, <1>10, <1>11, <1>12, <1>13, <1>14, <1>15,
     <1>16, <1>17, <1>18, <1>19, <1>20, <1>21, <1>22, <1>23, <1>24 DEF SupervisorNext, StarterStep,
     ThreadStep

\* What a settlement says stays true.
LEMMA SettlementsKept == SessionInv /\ [SupervisorNext]_supervisorVars => (RetryableSafe /\ CompletedWitnessed)'
<1> SUFFICES ASSUME SessionInv, [SupervisorNext]_supervisorVars PROVE (RetryableSafe /\ CompletedWitnessed)'
  OBVIOUS
<1> USE DEF SessionInv, SupervisorTypeOK, StartInv, DoingInv, SettlingHolds, Overridden, Threads, Alive, RetryableSafe, CompletedWitnessed
<1>1. CASE StartPrepare
  BY <1>1 DEF StartPrepare
<1>2. CASE StartSpawn
  BY <1>2 DEF StartSpawn
<1>3. CASE StartRecord
  BY <1>3 DEF StartRecord
<1>4. CASE StartAborts
  BY <1>4 DEF StartAborts, Does
<1>5. CASE StartRelease
  BY <1>5 DEF StartRelease
<1>6. CASE AwaitReadiness
  BY <1>6 DEF AwaitReadiness, Does
<1>7. CASE MarkReady
  BY <1>7 DEF MarkReady
<1>8. CASE Observe
  BY <1>8 DEF Observe, StatusBy, Does, DecideOwned, DecideInherited, IdentityMatches, ActiveStates
<1>9. CASE MonitorPolls
  BY <1>9 DEF MonitorPolls, StatusBy, Does, DecideOwned, DecideInherited, IdentityMatches, ActiveStates
<1>10. CASE ClientStatus
  BY <1>10 DEF ClientStatus, StatusBy, Does, DecideOwned, DecideInherited, IdentityMatches, ActiveStates
<1>11. CASE ClientCancels
  BY <1>11 DEF ClientCancels, Does
<1>12. CASE ClientSettles
  BY <1>12 DEF ClientSettles, Does
<1>13. ASSUME NEW declares \in {"paths", "other"}, PtyWrite(declares) PROVE (RetryableSafe /\ CompletedWitnessed)'
  BY <1>13 DEF PtyWrite, IdentityMatches
<1>14. ASSUME NEW t \in Threads, MarkInterrupted(t) PROVE (RetryableSafe /\ CompletedWitnessed)'
  BY <1>14 DEF MarkInterrupted, Does
<1>15. ASSUME NEW t \in Threads, MarkLost(t) PROVE (RetryableSafe /\ CompletedWitnessed)'
  BY <1>15 DEF MarkLost, Does
<1>16. ASSUME NEW t \in Threads, CancelBegins(t) PROVE (RetryableSafe /\ CompletedWitnessed)'
  BY <1>16, ZenonT(60) DEF CancelBegins, Does
<1>17. ASSUME NEW t \in Threads, Signals(t) PROVE (RetryableSafe /\ CompletedWitnessed)'
  BY <1>17 DEF Signals, Does, IdentityMatches
<1>18. ASSUME NEW t \in Threads, SettleBegins(t) PROVE (RetryableSafe /\ CompletedWitnessed)'
  BY <1>18 DEF SettleBegins, Does
<1>19. ASSUME NEW t \in Threads, SettleWrites(t) PROVE (RetryableSafe /\ CompletedWitnessed)'
  BY <1>19 DEF SettleWrites, Does, TerminalState, EffectSettlement, SettledEffect, ExitExpected, Overridden
<1>20. CASE ProcessWrites
  BY <1>20 DEF ProcessWrites
<1>21. CASE ProcessExits
  BY <1>21 DEF ProcessExits
<1>22. CASE BecomesOverdue
  BY <1>22 DEF BecomesOverdue
<1>23. CASE DaemonDies
  BY <1>23 DEF DaemonDies, ActiveStates
<1>24. CASE UNCHANGED supervisorVars
  BY <1>24 DEF supervisorVars
<1> QED
  BY <1>1, <1>2, <1>3, <1>4, <1>5, <1>6, <1>7, <1>8, <1>9, <1>10, <1>11, <1>12, <1>13, <1>14, <1>15,
     <1>16, <1>17, <1>18, <1>19, <1>20, <1>21, <1>22, <1>23, <1>24 DEF SupervisorNext, StarterStep,
     ThreadStep

\* The invariant of an execution session.
LEMMA SessionsInvariant == SupervisorSpec => []SessionInv
<1>1. SupervisorInit => SessionInv
  <2> SUFFICES ASSUME SupervisorInit PROVE SessionInv
    OBVIOUS
  <2>1. SupervisorTypeOK
    <3>1. request \in [mode : {"job", "pty"}, readiness : BOOLEAN, declares : {"none", "paths", "other"}]
      BY SupervisorAssumption DEF SupervisorInit
    <3>2. 0 \in 0..MaxCrashes
      BY SupervisorAssumption
    <3> QED
      BY <3>1, <3>2 DEF SupervisorInit, SupervisorTypeOK, Threads, SessionStates, ActiveStates
  <2>2. StartInv /\ DoingInv
    BY DEF SupervisorInit, StartInv, DoingInv, Threads, Alive
  <2> QED
    BY <2>1, <2>2 DEF SupervisorInit, SessionInv, RetryableSafe, CompletedWitnessed
<1>2. SessionInv /\ [SupervisorNext]_supervisorVars => SessionInv'
  BY SessionTypesKept, StartKept, DoingKept, SettlementsKept DEF SessionInv
<1> QED
  BY <1>1, <1>2, PTL DEF SupervisorSpec

\* The safety part of SessionsSettle: a session offered for retry has run nothing, unless a
\* client was hasty; one that counts as completed ended as expected, and no thread settles a
\* session a second time, whatever the clients do (execution/supervisor.py).
THEOREM SessionsHold ==
  SupervisorSpec => [](SupervisorTypeOK /\ RetryableSafe /\ CompletedWitnessed) /\ SettledOnce
<1>1. SessionInv => SupervisorTypeOK /\ RetryableSafe /\ CompletedWitnessed
  BY DEF SessionInv
<1> DEFINE Stays == session.finished =>
                      /\ session'.finished /\ session'.effect = session.effect
                      /\ session'.retryable = session.retryable
                      /\ session'.cancelled = session.cancelled
<1>2. SessionInv /\ [SupervisorNext]_supervisorVars => [Stays]_supervisorVars
  <2> SUFFICES ASSUME SessionInv, SupervisorNext, session.finished PROVE Stays
    OBVIOUS
  <2> USE DEF SessionInv, SupervisorTypeOK
  <2>1. ASSUME NEW t \in Threads, SettleWrites(t) PROVE FALSE
    BY <2>1 DEF SettleWrites, DoingInv, SettlingHolds
  <2>2. CASE UNCHANGED session
    BY <2>2
  <2>3. CASE StartPrepare
    BY <2>3 DEF StartPrepare, StartInv
  <2>4. CASE StartRecord \/ MarkReady
    BY <2>4, ZenonT(60) DEF StartRecord, MarkReady
  <2>5. ASSUME NEW t \in Threads, MarkInterrupted(t) \/ MarkLost(t) \/ CancelBegins(t) PROVE Stays
    BY <2>5 DEF MarkInterrupted, MarkLost, CancelBegins
  <2>6. \/ UNCHANGED session \/ StartPrepare \/ StartRecord \/ MarkReady
        \/ \E t \in Threads : MarkInterrupted(t) \/ MarkLost(t) \/ CancelBegins(t) \/ SettleWrites(t)
    BY DEF SupervisorNext, StarterStep, ThreadStep, StartSpawn, StartAborts, StartRelease, AwaitReadiness, Observe,
         MonitorPolls, ClientStatus, ClientCancels, ClientSettles, StatusBy, PtyWrite, Signals, SettleBegins,
         ProcessWrites, ProcessExits, BecomesOverdue, DaemonDies
  <2> QED
    BY <2>1, <2>2, <2>3, <2>4, <2>5, <2>6
<1>3. SupervisorSpec => [][SupervisorNext]_supervisorVars
  BY DEF SupervisorSpec
<1> QED
  BY <1>1, <1>2, <1>3, SessionsInvariant, PTL DEF SettledOnce
=============================================================================
