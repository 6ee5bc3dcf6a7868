--------------------------- MODULE CommandAuthority ---------------------------
(* Who may do what through the application commands (application/authorization.py, *)
(* execute_command in daemon/api.py): the daemon derives the scope of a command    *)
(* from its typed payload, from the durable definition its target names and from   *)
(* the configuration, evaluates the effective policy for exactly that scope, and   *)
(* records a refusal under the identity of the command.  Between the decision and  *)
(* the execution the coroutine waits, time passes and the daemon may stop.         *)
(*                                                                                 *)
(* "effects" stands for every collection of the scope: effects, paths, remotes,    *)
(* external resources and the others are all matched alike.                        *)
EXTENDS PolicyDecision

CONSTANTS
  Offered,                        \* command types in use
  CommandIds, Actors,
  OwnedTargets,                   \* change sets and sessions
  Variants,                       \* declared effects and dispositions a payload may carry
  Configured,                     \* targets the configuration has and enables
  MaxStops                        \* bound: restarts of the daemon

NoOne == "nobody"

ASSUME AuthorityAssumption == MaxStops \in Nat /\ NoOne \notin Actors

\* The types whose payload names its author, who must be the authenticated actor.
KnowledgeAuthored ==
  {"knowledge.ingest", "knowledge.refresh", "knowledge.memory.capture",
   "knowledge.operation.reconcile", "knowledge.promotion.propose", "knowledge.promotion.decide"}
SkillAuthored == {"skill.invoke", "skill.learn"}
EnvironmentAuthored ==
  {"environment.observe", "environment.resolve", "environment.descriptor.change.plan",
   "environment.operation.plan", "environment.command.plan", "environment.attempt.settle",
   "environment.verification.record", "environment.binding.invalidate"}
EvidenceAuthored == {"telemetry.evaluation.import", "context.recommend"}
TeamAuthored ==
  {"mission.health.record", "mission.adaptation.record", "mission.retrospective.record",
   "mission.handoff.record"}
DecisionAuthored == {"mission.decision.record"}
BindingAuthored == {"mission.assignment.record", "mission.run-binding.record"}
OrganizationAuthored == {"organization.evidence.record", "organization.promotion.decide"}
Authored ==
  UNION {KnowledgeAuthored, SkillAuthored, EnvironmentAuthored, EvidenceAuthored, TeamAuthored,
         DecisionAuthored, BindingAuthored, OrganizationAuthored, {"session.start"}}

\* The types that name an identity without being its own word: it joins the scope.
CrewNamed == {"mission.crew.record", "mission.health.evaluate"}
ConversationNamed == {"conversation.create", "conversation.message.post"}
ReportNamed == {"mission.run-report.record", "mission.environment.propose", "mission.environment.accept"}
Attributed == CrewNamed \cup ConversationNamed \cup ReportNamed

\* The types whose payload adds effects: what a session, an input or a change set declares,
\* and the disposition, transition or intervention asked for.
SkillVaried ==
  {"skill.version.register", "skill.version.decide", "skill.version.archive",
   "skill.version.delete", "skill.version.restore", "skill.version.reset"}
InterventionVaried == {"mission.intervention.apply"}
TransitionVaried == {"mission.transition"}
Varied ==
  UNION {SkillVaried, InterventionVaried, TransitionVaried, DecisionAuthored, BindingAuthored,
         OrganizationAuthored, {"knowledge.promotion.decide", "mission.adaptation.record",
         "schedule.create", "change.plan", "session.start", "session.write"}}

\* The types that need a binding of the configuration: a worker pool, a repository with its
\* credential, an enabled connection, an enabled source.
WorkerConfigured == {"worker.enrollment.create", "worker.task.place"}
GitConfigured == {"git.stage", "git.commit", "git.push", "git.force_with_lease", "git.force_push"}
McpConfigured == {"mcp.connection.connect", "mcp.call.cancel", "mcp.call.reconcile"}
KnowledgeConfigured == {"knowledge.query", "knowledge.ingest", "knowledge.refresh",
                        "knowledge.memory.capture"}
NeedsConfigured == UNION {WorkerConfigured, GitConfigured, McpConfigured, KnowledgeConfigured}

\* session.* but session.start, and change.* but change.plan, look their target up.
Owned == {"session.write", "session.resize", "session.signal", "session.cancel", "session.settle"}
StoredDefinition == {"change.apply", "change.reconcile"}

VARIABLES
  journal,    \* answer under each command identity, with the command it answers
  pending,    \* commands authorized and not yet executed
  changes,    \* the planned change set of a target, if any: its declared effects
  owners,     \* owner of each session
  deeds,      \* executed commands: [id, command, effects, at]
  stops

authorityVars == <<journal, pending, changes, owners, deeds, stops>>

CommandRecords == [type : Offered, actor : Actors, named : Actors, target : OwnedTargets,
                   variant : Variants]
Answers == {"none", "completed", "refused"}

AuthorityInit ==
  /\ journal = [i \in CommandIds |-> "none"] /\ pending = [i \in CommandIds |-> {}]
  /\ changes = [t \in OwnedTargets |-> {}] /\ owners = [t \in OwnedTargets |-> NoOne]
  /\ deeds = {} /\ stops = 0

\* COMMAND_SEMANTICS: the capability and the effect every command of a type has.
CapabilityOf(c) ==
  CASE c.type \in StoredDefinition \cup {"change.plan"} -> "change"
    [] c.type \in Owned \cup {"session.start"} -> "session"
    [] OTHER -> "application"
BaseEffects(c) == {c.type}

\* The identity checks of the branches, against the authenticated actor.
NamesActor(c) == c.type \in Authored => c.named = c.actor
OwnsSession(c) == c.type \in Owned => owners[c.target] = c.actor

\* _validate_envelope: a payload has the fields of its type and no other.
PayloadFits(c) == c.variant # {} => c.type \in Varied

\* What the branches look up exists and is enabled.
TargetKnown(c) ==
  /\ c.type \in StoredDefinition => changes[c.target] # {}
  /\ c.type \in NeedsConfigured => c.target \in Configured
Admissible(c) == PayloadFits(c) /\ TargetKnown(c) /\ NamesActor(c) /\ OwnsSession(c)

\* _change_scope: what the definition in the repository declares.
StoredEffects(c) == IF c.type \in StoredDefinition THEN UNION changes[c.target] ELSE {}

\* An identity that joins the scope.
Named(c) == IF c.type \in Attributed THEN {c.named} ELSE {}

\* The scope the policy decides on: base effects, what the payload and the stored definition
\* declare, and identities that are only named.
ScopeOf(c) ==
  [capability |-> CapabilityOf(c),
   effects |-> BaseEffects(c) \cup c.variant \cup StoredEffects(c)
                 \cup Named(c)]

\* Mutant: only an executed command is replayed.
UnansweredOrRefused(i) == journal[i] # "completed" /\ pending[i] = {}

\* execute_command: an answered identity is replayed before anything is authorized.
Unanswered(i) == journal[i] = "none" /\ pending[i] = {}

\* Submit: the policy allows the exact scope, or the refusal is recorded.
SubmitCommand(i, c) ==
  /\ loading = "loaded" /\ Unanswered(i) /\ Admissible(c)
  /\ IF Evaluate(ScopeOf(c), {}, today).decision = "allow"
       THEN /\ pending' = [pending EXCEPT ![i] = {[command |-> c, scope |-> ScopeOf(c), at |-> today]}]
            /\ UNCHANGED journal
       ELSE /\ Evaluate(ScopeOf(c), {}, today).decision # "conflict"
            /\ journal' = [journal EXCEPT ![i] = "refused"] /\ UNCHANGED pending
  /\ UNCHANGED <<changes, owners, deeds, stops>>

\* What the command does when it runs: a change set applies what it declared, a session
\* does what its request or input declared.
Does(c) ==
  BaseEffects(c) \cup c.variant \cup (IF c.type \in StoredDefinition THEN UNION changes[c.target] ELSE {})

\* The coroutine ends and with it the entry of active_commands.
Forget(i) == [pending EXCEPT ![i] = {}]

\* The handler of the command.  A session and a change set are created once.
Execute(i) ==
  \E p \in pending[i] :
    LET c == p.command IN
    /\ c.type = "change.plan" => changes[c.target] = {}
    /\ c.type = "session.start" => owners[c.target] = NoOne
    /\ changes' = IF c.type = "change.plan" THEN [changes EXCEPT ![c.target] = {c.variant}]
                 ELSE changes
    /\ owners' = IF c.type = "session.start" THEN [owners EXCEPT ![c.target] = c.named] ELSE owners
    /\ deeds' = deeds \cup {[id |-> i, command |-> c, effects |-> Does(c), at |-> p.at]}
    /\ journal' = [journal EXCEPT ![i] = "completed"]
    /\ pending' = Forget(i)
    /\ UNCHANGED stops

\* The handler refuses: the change set or the session exists already.
ExecuteInVain(i) ==
  \E p \in pending[i] :
    /\ \/ p.command.type = "change.plan" /\ changes[p.command.target] # {}
       \/ p.command.type = "session.start" /\ owners[p.command.target] # NoOne
    /\ pending' = Forget(i)
    /\ UNCHANGED <<journal, changes, owners, deeds, stops>>

\* The daemon stops: what was authorized and not executed is forgotten.
Stop ==
  /\ stops < MaxStops /\ stops' = stops + 1
  /\ pending' = [i \in CommandIds |-> {}]
  /\ UNCHANGED <<journal, changes, owners, deeds>>

AuthorityNext ==
  \/ (Load \/ Wait) /\ UNCHANGED authorityVars
  \/ /\ \/ Stop
        \/ \E i \in CommandIds : Execute(i) \/ ExecuteInVain(i)
        \/ \E i \in CommandIds, c \in CommandRecords : SubmitCommand(i, c)
     /\ UNCHANGED policyVars
AuthoritySpec == PolicyInit /\ AuthorityInit /\ [][AuthorityNext]_<<policyVars, authorityVars>>

AuthorityTypeOK ==
  /\ journal \in [CommandIds -> Answers] /\ stops \in 0..MaxStops
  /\ \A i \in CommandIds : Cardinality(pending[i]) <= 1 /\ \A p \in pending[i] : p.command \in CommandRecords
  /\ \A i \in CommandIds : pending[i] # {} => journal[i] = "none"
  /\ owners \in [OwnedTargets -> Actors \cup {NoOne}]
  /\ \A d \in deeds : d.id \in CommandIds /\ d.command \in CommandRecords /\ d.at \in 0..today

\* Whatever a command really does was granted, effect by effect and for the identity it
\* names, by the documents in force when it was authorized; a change set does no more when
\* applied than was granted then.
DeedsGranted ==
  \A d \in deeds :
    Granted([capability |-> CapabilityOf(d.command), effects |-> d.effects \cup Named(d.command)],
            [decision |-> "allow", at |-> d.at, approval |-> FALSE, until |-> -1])

\* Records carry the authenticated author, and a session is driven by whoever opened it.
AuthoredByActor ==
  \A d \in deeds :
    /\ d.command.type \in Authored => d.command.named = d.command.actor
    /\ d.command.type \in Owned =>
         \E o \in deeds : /\ o.command.type = "session.start" /\ o.command.target = d.command.target
                          /\ o.command.actor = d.command.actor

\* A refusal is an answer: its identity never executes later, when the policy would allow
\* it, and no answer is ever replaced.
RefusedStays ==
  [][\A i \in CommandIds :
       /\ journal[i] # "none" => journal'[i] = journal[i]
       /\ journal[i] = "refused" => \A d \in deeds' : d.id # i]_<<policyVars, authorityVars>>

\* What was executed was granted to the actor it is recorded for when it was decided, by
\* the policy in force, and a refusal is never turned into an execution.
AuthorityHolds ==
  /\ [](PolicyTypeOK /\ AllowedWasGranted /\ ApprovalInTime /\ NoAmbiguousPolicy)
  /\ [](AuthorityTypeOK /\ DeedsGranted /\ AuthoredByActor)
  /\ RefusedStays
=============================================================================
