----------------------------- MODULE MCEffects ------------------------------
(* What acts outside the daemon: processes, browsers, MCP servers and remote   *)
(* workers.  They share no variable, so one of them moves per behaviour        *)
(* (`focus`): their state spaces add up instead of multiplying.                *)
EXTENDS Supervisor, BrowserSessions, McpCalls, WorkerIdentity, WorkerDelivery
CONSTANTS b1, b2, y1, y2, m1, m2, m3, o1

SessionRequests == [mode : {"job", "pty"}, readiness : {TRUE}, declares : {"none", "paths"}]

VARIABLE focus
effectVars == <<focus, supervisorVars, browserVars, mcpVars, identVars, delVars>>

\* The parts at rest keep one initial state.
EffectsInit ==
  /\ focus \in {"sessions", "browser", "mcp", "identity", "delivery"}
  /\ SupervisorInit /\ BrowserInit /\ McpInit /\ IdentityInit /\ DeliveryInit
  /\ focus # "sessions" => request = CHOOSE r \in Requests : TRUE
  /\ focus # "mcp" => offered = CHOOSE s \in Schemas : TRUE

EffectsNext ==
  /\ UNCHANGED focus
  /\ \/ focus = "sessions" /\ SupervisorNext /\ UNCHANGED <<browserVars, mcpVars, identVars, delVars>>
     \/ focus = "browser" /\ BrowserNext /\ UNCHANGED <<supervisorVars, mcpVars, identVars, delVars>>
     \/ focus = "mcp" /\ McpNext /\ UNCHANGED <<supervisorVars, browserVars, identVars, delVars>>
     \/ focus = "identity" /\ IdentityNext /\ UNCHANGED <<supervisorVars, browserVars, mcpVars, delVars>>
     \/ focus = "delivery" /\ DeliveryNext /\ UNCHANGED <<supervisorVars, browserVars, mcpVars, identVars>>

\* The fairness of each part, of the part that moves.
EffectsSpec ==
  /\ EffectsInit /\ [][EffectsNext]_effectVars
  /\ WF_supervisorVars(focus = "sessions" /\ StarterStep)
  /\ WF_supervisorVars(focus = "sessions" /\ MonitorPolls)
  /\ \A t \in Threads : WF_supervisorVars(focus = "sessions" /\ ThreadStep(t))
  /\ WF_delVars(focus = "delivery" /\ DeliveryPass) /\ WF_delVars(focus = "delivery" /\ ClaimLapses)
=============================================================================
