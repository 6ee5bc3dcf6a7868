------------------------------ MODULE Environment ------------------------------
(* The environment a mission's context is bound to: the plan validator           *)
(* (missions/environment.py), the resolver, the repository of bindings,          *)
(* invalidations and evidence, the descriptor sets and the changes planned from  *)
(* them, and the settlement of attempts and verifications (environment/).        *)
(*                                                                               *)
(* An observation never changes; it only ages.  Commands on one request, one     *)
(* operation or one verification have targets of their own, and the reads of a   *)
(* command are outside the transaction that writes: each command that records    *)
(* evidence reads in one step and inserts in a later one.                        *)
EXTENDS Naturals, Sequences, FiniteSets

CONSTANTS
  Requests,     \* binding requests: one context of one plan
  Engines,      \* engines the profile knows, each with one adapter
  Supports,     \* semantics an engine supports
  Formats,      \* descriptor formats
  FileFormat,   \* the format of the project's descriptor file
  Digests,      \* contents of that file
  Checks,       \* verification checks a binding request asks for
  Operations,   \* operation plans of an adapter
  EngineOf,     \* the engine of an operation
  Probes,       \* operations that only look: validate or readiness, no effect
  EnvHands,     \* threads that serve commands
  MaxAttempts, MaxVerifications \* bounds

ASSUME EnvironmentAssumption ==
  /\ MaxAttempts \in Nat /\ MaxVerifications \in Nat /\ Probes \subseteq Operations
  /\ FileFormat \in Formats /\ EngineOf \in [Operations -> Engines]

VARIABLES
  observed, \* the observation: eligible engines and the descriptor file
  aged,     \* it is older than the freshness bound
  asked,    \* the alternative selected for each request and how it was asked for
  bindings, \* binding rows of each request
  voided,   \* requests whose binding has an invalidation
  described, \* recorded descriptor sets: a request and the content of its file
  changes,  \* planned changes: the file's content and whether it is overwritten
  session,  \* the execution session of each operation
  ended,    \* operations in the order their sessions ended
  attempts, \* recorded attempts
  verdicts, \* recorded verifications of each request
  pending   \* what each thread read and has not inserted yet

environmentVars == <<observed, aged, asked, bindings, voided, described, changes, session, ended,
                     attempts, verdicts, pending>>

Outcomes == {"reuse", "generate", "propose", "host", "unresolved"}
BindingStates == {"compatible", "incompatible", "unresolved", "stale"}
SessionStates == {"none", "planned", "completed", "failed", "cancelled", "uncertain"}
Settlements == {"verified", "failed", "cancelled", "uncertain"}
NoFile == "absent"
NotAsked == [via |-> "nobody"]
Idle == [kind |-> "none"]

Semantics == UNION {Supports[e] : e \in Engines}

\* MissionEnvironmentAlternative and its validator.
Alternatives ==
  {a \in [outcome : Outcomes, semantics : SUBSET Semantics, formats : SUBSET Formats,
          required : SUBSET Engines, eligible : SUBSET Engines] :
     /\ a.outcome = "unresolved" => a.required = {} /\ a.eligible = {} /\ a.formats = {}
     /\ a.outcome \in {"generate", "propose"} => a.formats # {}
     /\ a.required \subseteq a.eligible}

EnvironmentTypeOK ==
  /\ observed.eligible \subseteq Engines /\ observed.file \in Digests \cup {NoFile}
  /\ \A r \in Requests : \A i \in DOMAIN bindings[r] :
       /\ bindings[r][i].state \in BindingStates /\ bindings[r][i].engines \subseteq observed.eligible
       /\ asked[r] # NotAsked
  /\ \A r \in voided : bindings[r] # <<>>
  /\ \A i \in DOMAIN attempts : /\ attempts[i].settlement \in Settlements
                                /\ session[attempts[i].operation] \notin {"none", "planned"}
  /\ \A r \in Requests : \A i \in DOMAIN verdicts[r] :
       verdicts[r][i].settlement \in Settlements \ {"cancelled"}
  /\ \A o \in Operations : session[o] \in SessionStates

EnvironmentInit ==
  /\ observed \in [eligible : SUBSET Engines, file : Digests \cup {NoFile}] /\ aged = FALSE
  /\ asked = [r \in Requests |-> NotAsked] /\ bindings = [r \in Requests |-> <<>>]
  /\ voided = {} /\ described = {} /\ changes = {}
  /\ session = [o \in Operations |-> "none"] /\ ended = <<>> /\ attempts = <<>>
  /\ verdicts = [r \in Requests |-> <<>>] /\ pending = [h \in EnvHands |-> Idle]

-----------------------------------------------------------------------------
(* Plans and resolution.                                                      *)

Allowed(formats) == observed.file # NoFile /\ (formats = {} \/ FileFormat \in formats)

\* _validate_context for a context that names the observation and its platform exactly.
ContextFits(a) ==
  a.outcome # "unresolved" =>
    /\ a.outcome = "reuse" => Allowed(a.formats)
    /\ a.outcome # "reuse" => a.eligible # {}
    /\ \A e \in a.eligible : e \in observed.eligible /\ a.semantics \subseteq Supports[e]

\* The engines a request may be bound to (_engine_satisfies).
Satisfying(a) ==
  {e \in a.eligible \cap observed.eligible :
     (a.required # {} => e \in a.required) /\ a.semantics \subseteq Supports[e]}

Row(state, engines) == [state |-> state, engines |-> engines]

\* EnvironmentResolver.resolve.
Resolved(a) ==
  LET engines == Satisfying(a)
      refused == Row("incompatible", {})
  IN CASE aged -> Row("stale", {})
       [] ~aged /\ a.outcome = "unresolved" -> Row("unresolved", {})
       [] ~aged /\ a.outcome = "reuse" ->
            IF Allowed(a.formats) /\ (a.required \cup a.semantics # {} => engines # {})
            THEN Row("compatible", engines) ELSE refused
       [] OTHER ->
            IF (a.outcome = "host" \/ a.formats # {}) /\ engines # {}
            THEN Row("compatible", engines) ELSE refused

Age == ~aged /\ aged' = TRUE
       /\ UNCHANGED <<observed, asked, bindings, voided, described, changes, session, ended,
                      attempts, verdicts, pending>>

\* A plan is accepted with the alternative selected for its context, or environment.resolve
\* brings a request of its own, which no plan validator has seen.
Ask(r, a, via) ==
  /\ asked[r] = NotAsked
  /\ via = "plan" => ContextFits(a)
  /\ asked' = [asked EXCEPT ![r] = [via |-> via, choice |-> a]]
  /\ UNCHANGED <<observed, aged, bindings, voided, described, changes, session, ended, attempts,
                 verdicts, pending>>

Takes(h, row) == pending[h] = Idle /\ pending' = [pending EXCEPT ![h] = row]
Leaves(h) == pending' = [pending EXCEPT ![h] = Idle]

\* Resolution of a request no binding is found for; both commands that resolve one have
\* targets that do not exclude each other.
CheckResolve(h, r) ==
  /\ asked[r] # NotAsked /\ bindings[r] = <<>>
  /\ Takes(h, [kind |-> "resolve", request |-> r, row |-> Resolved(asked[r].choice)])
  /\ UNCHANGED <<observed, aged, asked, bindings, voided, described, changes, session, ended,
                 attempts, verdicts>>

\* The insert of record_binding: request_id is unique.
WriteBinding(h) ==
  /\ pending[h].kind = "resolve"
  /\ LET r == pending[h].request
     IN bindings' = IF bindings[r] = <<>> THEN [bindings EXCEPT ![r] = <<pending[h].row>>] ELSE bindings
  /\ Leaves(h)
  /\ UNCHANGED <<observed, aged, asked, voided, described, changes, session, ended, attempts, verdicts>>

Bound(r) == bindings[r] # <<>>

\* binding(): an invalidated binding is read as stale.
Compatible(r) == Bound(r) /\ bindings[r][1].state = "compatible" /\ r \notin voided

\* invalidate: of any binding, by its owner, once.
Invalidate(r) ==
  /\ Bound(r) /\ r \notin voided /\ voided' = voided \cup {r}
  /\ UNCHANGED <<observed, aged, asked, bindings, described, changes, session, ended, attempts,
                 verdicts, pending>>

-----------------------------------------------------------------------------
(* Descriptor sets and changes; a set has one member, the project's file.     *)

\* EnvironmentDescriptorValidator.validate.
Describes(r, digest) ==
  LET a == asked[r].choice
  IN /\ a.formats # {} => FileFormat \in a.formats
     /\ IF a.outcome = "reuse" THEN observed.file = digest ELSE observed.file \in {NoFile, digest}

\* environment.descriptor.validate: only a valid set is recorded.
ValidateDescriptors(r, digest) ==
  /\ Compatible(r) /\ Describes(r, digest) /\ <<r, digest>> \notin described
  /\ described' = described \cup {<<r, digest>>}
  /\ UNCHANGED <<observed, aged, asked, bindings, voided, changes, session, ended, attempts,
                 verdicts, pending>>

\* EnvironmentDescriptorChangePlanner.plan: what the observation has already is unchanged,
\* another file is written over it; neither asks whether the binding is still valid.
PlanChange(r, digest) ==
  /\ <<r, digest>> \in described /\ observed.file # digest
  /\ changes' = changes \cup {[content |-> digest, overwrites |-> observed.file # NoFile]}
  /\ UNCHANGED <<observed, aged, asked, bindings, voided, described, session, ended, attempts,
                 verdicts, pending>>

-----------------------------------------------------------------------------
(* Operations and evidence.                                                   *)

\* EnvironmentOperationPlanner.plan and the start of its session.
PlanOperation(r, o) ==
  /\ Compatible(r) /\ EngineOf[o] \in bindings[r][1].engines /\ session[o] = "none"
  /\ session' = [session EXCEPT ![o] = "planned"]
  /\ UNCHANGED <<observed, aged, asked, bindings, voided, described, changes, ended, attempts,
                 verdicts, pending>>

\* The session ends, or an operator settles one that was uncertain.
EndSession(o, outcome) ==
  /\ \/ session[o] = "planned" /\ outcome \in SessionStates \ {"none", "planned"}
        /\ ended' = Append(ended, o)
     \/ session[o] = "uncertain" /\ outcome \in {"completed", "failed"} /\ UNCHANGED ended
  /\ session' = [session EXCEPT ![o] = outcome]
  /\ UNCHANGED <<observed, aged, asked, bindings, voided, described, changes, attempts, verdicts,
                 pending>>

\* _settlement.
SettlementOf(o) == IF session[o] = "completed" THEN "verified" ELSE session[o]

\* settle_attempt, up to the reads of _record_child; an operation may be settled again.
CheckAttempt(h, r, o) ==
  /\ Compatible(r) /\ session[o] \notin {"none", "planned"} /\ EngineOf[o] \in bindings[r][1].engines
  /\ Takes(h, [kind |-> "attempt",
               row |-> [request |-> r, operation |-> o, settlement |-> SettlementOf(o)]])
  /\ UNCHANGED <<observed, aged, asked, bindings, voided, described, changes, session, ended,
                 attempts, verdicts>>

WriteAttempt(h) ==
  /\ pending[h].kind = "attempt" /\ Len(attempts) < MaxAttempts
  /\ attempts' = Append(attempts, pending[h].row) /\ Leaves(h)
  /\ UNCHANGED <<observed, aged, asked, bindings, voided, described, changes, session, ended, verdicts>>

Settled(i) == attempts[i].settlement
Ended(i) == CHOOSE n \in DOMAIN ended : ended[n] = attempts[i].operation

\* Mutant: only the last attempt counts.
CheckStateOfLast(cited) ==
  LET last == {i \in cited : \A j \in cited : Ended(j) <= Ended(i)}
  IN IF \E i \in last : Settled(i) = "verified" THEN "true" ELSE "unknown"

\* _check_state; attempts that ended together are in the order the author cites them in.
CheckState(cited) ==
  LET last == {i \in cited : \A j \in cited : Ended(j) <= Ended(i)}
      reconciled == \E i \in last : /\ Settled(i) = "verified" /\ attempts[i].operation \in Probes
                                    /\ \A j \in cited : Settled(j) \in {"verified", "uncertain"}
  IN IF \E i \in cited : Settled(i) \in {"failed", "cancelled"} THEN "false"
     ELSE IF (\A i \in cited : Settled(i) = "verified") \/ reconciled THEN "true" ELSE "unknown"

VerdictOf(cites) ==
  LET states == {CheckState(cites[c]) : c \in DOMAIN cites}
  IN IF states = {"true"} THEN "verified" ELSE IF "false" \in states THEN "failed" ELSE "uncertain"

\* verify: a set of attempts for each check, the required ones among them, all of this
\* binding and of one engine.
CheckVerify(h, r, cites) ==
  LET all == UNION {cites[c] : c \in DOMAIN cites}
  IN /\ Compatible(r) /\ DOMAIN cites = Checks /\ {} \notin {cites[c] : c \in Checks}
     /\ \A i \in all : attempts[i].request = r
     /\ Cardinality({EngineOf[attempts[i].operation] : i \in all}) = 1
     /\ Takes(h, [kind |-> "verify", request |-> r,
                  row |-> [cites |-> cites, settlement |-> VerdictOf(cites)]])
     /\ UNCHANGED <<observed, aged, asked, bindings, voided, described, changes, session, ended,
                    attempts, verdicts>>

WriteVerify(h) ==
  /\ pending[h].kind = "verify"
  /\ LET r == pending[h].request
     IN /\ Len(verdicts[r]) < MaxVerifications
        /\ verdicts' = [verdicts EXCEPT ![r] = Append(@, pending[h].row)]
  /\ Leaves(h)
  /\ UNCHANGED <<observed, aged, asked, bindings, voided, described, changes, session, ended, attempts>>

\* _context_readiness: the verification recorded last decides.
Ready(r) ==
  /\ Compatible(r) /\ verdicts[r] # <<>>
  /\ verdicts[r][Len(verdicts[r])].settlement = "verified"

\* Which alternatives are bound, and what is planned from their descriptors.
ResolveNext ==
  \/ Age
  \/ \E r \in {r \in Requests : asked[r] = NotAsked}, a \in Alternatives, via \in {"plan", "owner"} :
       Ask(r, a, via)
  \/ \E r \in Requests : \/ Invalidate(r)
                         \/ \E d \in Digests : ValidateDescriptors(r, d) \/ PlanChange(r, d)
                         \/ \E h \in EnvHands : CheckResolve(h, r)
  \/ \E h \in EnvHands : WriteBinding(h)

\* What becomes of a binding.
EvidenceNext ==
  \/ \E r \in Requests : Invalidate(r) \/ \E o \in Operations : PlanOperation(r, o)
  \/ \E o \in Operations, outcome \in SessionStates : EndSession(o, outcome)
  \/ \E h \in EnvHands :
       \/ WriteAttempt(h) \/ WriteVerify(h)
       \/ \E r \in Requests, o \in Operations : CheckAttempt(h, r, o)
       \/ \E r \in Requests, cites \in [Checks -> SUBSET (DOMAIN attempts)] : CheckVerify(h, r, cites)

EnvironmentNext == ResolveNext \/ EvidenceNext

EnvironmentSpec == EnvironmentInit /\ [][EnvironmentNext]_environmentVars

-----------------------------------------------------------------------------
(* Properties.                                                                *)

\* A request has one binding, whichever thread resolved it (record_binding).
OneBinding == \A r \in Requests : Len(bindings[r]) <= 1

\* What the plan validator accepts, the resolver can bind as long as the observation is
\* fresh: two modules check the same alternative against the same observation in
\* different terms.  The one exception is a reuse that asks for semantics and names no
\* engine, which the validator lets pass.
AcceptedResolves ==
  \A r \in Requests :
    LET a == asked[r].choice
    IN asked[r].via = "plan" /\ ~aged /\ a.outcome # "unresolved"
       /\ ~(a.outcome = "reuse" /\ a.semantics # {} /\ a.eligible = {})
       => Resolved(a).state = "compatible"

\* Nothing planned from a recorded descriptor set overwrites a definition the project
\* has: the validator and the planner read the same observation, and the planner alone
\* would write over it.
DefinitionsProtected == \A c \in changes : ~c.overwrites

\* A context that opens the gate of a task was verified by attempts of its own binding,
\* none of which failed, and in every check the latest one looked at a session that
\* really completed, whatever is settled, repeated or invalidated meanwhile.
ReadyIsEarned ==
  \A r \in Requests : Ready(r) =>
    LET cites == verdicts[r][Len(verdicts[r])].cites
    IN \A c \in Checks :
         /\ \A i \in cites[c] : attempts[i].request = r /\ Settled(i) \in {"verified", "uncertain"}
         /\ \E i \in cites[c] : /\ \A j \in cites[c] : Ended(j) <= Ended(i)
                                /\ session[attempts[i].operation] = "completed"

\* A context is bound once, as its plan was accepted, and is ready only on evidence of its
\* own; no definition of the project is overwritten on the way.
EnvironmentGoverned ==
  /\ EnvironmentTypeOK
  /\ OneBinding
  /\ AcceptedResolves
  /\ DefinitionsProtected
  /\ ReadyIsEarned
=============================================================================
