---------------------------- MODULE PolicyDecision ----------------------------
(* Policy (policy/): sources are loaded once into an effective policy with a     *)
(* fingerprint, and every request is decided against it at the time it is made.  *)
(* Documents have validity windows, rules a priority and a scope.  A decision    *)
(* taken when a plan is accepted is taken again when the call is made, with the  *)
(* approvals the plan carries, so time passes between the two.                   *)
(*                                                                               *)
(* A scope and a request have two selector groups, capability and effects, which *)
(* stand for the eighteen of PolicyScope; {"*"} matches anything.                *)
EXTENDS Integers, FiniteSets

CONSTANTS
  Sources,      \* sets of documents that may be configured together
  Asked,        \* the requests made: [capability, effects]
  Horizon       \* bound: the last instant

Decisions == {"allow", "require_approval", "deny"}

ASSUME PolicyAssumption ==
  /\ Horizon \in Nat
  /\ \A documents \in Sources :
       /\ documents # {} /\ IsFiniteSet(documents)
       /\ \A d \in documents :
            /\ d.priority \in Int /\ IsFiniteSet(d.rules)
            /\ \A r \in d.rules :
                 /\ r.priority \in Int /\ r.decision \in Decisions
                 /\ IsFiniteSet(r.scope.capability) /\ IsFiniteSet(r.scope.effects)

VARIABLES
  sources,    \* the documents in the configured files
  policy,     \* EffectivePolicy as loaded: documents, or {} before the load
  loading,    \* "unread", "loaded" or "refused"
  today,      \* utc_now
  approvals,  \* ApprovalEvidence given so far: request, policy, until
  decided     \* the decision for each request, when it was taken and by what

policyVars == <<sources, policy, loading, today, approvals, decided>>

RulesOf(documents) == {[rule |-> r, document |-> d] : r \in UNION {d.rules : d \in documents},
                                                      d \in documents}
Claims(documents) == {c \in RulesOf(documents) : c.rule \in c.document.rules}

Undecided == [decision |-> "none", at |-> 0, approval |-> FALSE, until |-> -1]

PolicyTypeOK ==
  /\ sources \in Sources /\ policy \in {{}, sources} /\ loading \in {"unread", "loaded", "refused"}
  /\ (loading = "loaded") <=> (policy # {})
  /\ today \in 0..Horizon
  /\ \A g \in approvals : g.request \in Asked /\ g.until \in 0..Horizon + 1
  /\ \A r \in Asked : decided[r].decision \in Decisions \cup {"none", "conflict", "mismatch"}
                      /\ decided[r].at \in 0..today

PolicyInit ==
  /\ sources \in Sources /\ policy = {} /\ loading = "unread"
  /\ today \in 0..Horizon /\ approvals = {}
  /\ decided = [r \in Asked |-> Undecided]

\* PolicyLoader.load: an identifier claimed by two rules refuses the whole configuration.
Colliding == \E a, b \in Claims(sources) : a # b /\ a.rule.id = b.rule.id

Load ==
  /\ loading = "unread"
  /\ IF Colliding THEN loading' = "refused" /\ UNCHANGED policy
                  ELSE loading' = "loaded" /\ policy' = sources
  /\ UNCHANGED <<sources, today, approvals, decided>>

\* _matches_one and _matches_all: every value of the request is selected.
Selects(selectors, value) == "*" \in selectors \/ value \in selectors
Matches(req, scope) ==
  /\ Selects(scope.capability, req.capability)
  /\ \A e \in req.effects : Selects(scope.effects, e)

\* _specificity: a selector group other than the lone wildcard counts one and the
\* number of its literals.
Weight(selectors) == IF selectors = {"*"} THEN 0 ELSE 1 + Cardinality(selectors \ {"*"})
Specificity(scope) == Weight(scope.capability) + Weight(scope.effects)

\* The tuple a match is ranked by, and its order.
Score(c) == <<c.document.priority, c.rule.priority, Specificity(c.rule.scope)>>
Outranks(s, t) ==
  \/ s[1] > t[1]
  \/ s[1] = t[1] /\ s[2] > t[2]
  \/ s[1] = t[1] /\ s[2] = t[2] /\ s[3] > t[3]

\* A document is in force from effective_from on and before retired_at.
InForce(d, now) == d.from <= now /\ now < d.until

Candidates(req, now) ==
  {c \in Claims(policy) : InForce(c.document, now) /\ Matches(req, c.rule.scope)}

\* The best score; without a match the closed world denies.
Winners(req, now) ==
  {c \in Candidates(req, now) : \A o \in Candidates(req, now) : ~Outranks(Score(o), Score(c))}

\* is_active_for: the exact request, plan and policy, not expired.
ActiveFor(g, req, now) == g.request = req /\ now < g.until

\* PolicyAuthority.evaluate, with the approval the caller found for the request or none.
Evaluate(req, given, now) ==
  LET winners == Winners(req, now)
      verdicts == {c.rule.decision : c \in winners}
      plain(decision) == [Undecided EXCEPT !.decision = decision, !.at = now]
  IN  IF winners = {} THEN plain("deny")
      ELSE IF Cardinality(verdicts) # 1 THEN plain("conflict")
      ELSE IF verdicts # {"require_approval"} \/ given = {} THEN plain(CHOOSE v \in verdicts : TRUE)
      ELSE IF \E g \in given : ActiveFor(g, req, now)
             THEN [decision |-> "allow", at |-> now, approval |-> TRUE,
                   until |-> (CHOOSE g \in given : ActiveFor(g, req, now)).until]
             ELSE plain("mismatch")

\* The plan validator and the gateway give the first evidence made for the request.
Decide(r) ==
  /\ loading = "loaded"
  /\ LET given == {g \in approvals : g.request = r} IN
     \E g \in {{x} : x \in given} \cup (IF given = {} THEN {{}} ELSE {}) :
       decided' = [decided EXCEPT ![r] = Evaluate(r, g, today)]
  /\ UNCHANGED <<sources, policy, loading, today, approvals>>

\* Somebody approves one request until some instant.
Approve(r) ==
  /\ loading = "loaded" /\ decided[r].decision = "require_approval"
  /\ \E until \in today + 1..Horizon + 1 : approvals' = approvals \cup {[request |-> r, until |-> until]}
  /\ UNCHANGED <<sources, policy, loading, today, decided>>

Wait ==
  /\ today < Horizon /\ today' = today + 1
  /\ UNCHANGED <<sources, policy, loading, approvals, decided>>

PolicyNext == Load \/ Wait \/ \E r \in Asked : Decide(r) \/ Approve(r)
PolicySpec == PolicyInit /\ [][PolicyNext]_policyVars

\* Closed world, in its own terms: what is allowed at an instant has a rule of a
\* document then in force that covers it, which nothing that ranks higher or as high
\* contradicts; with an approval the rule asks for one that had not expired.
Granted(r, d) ==
  \E c \in Claims(sources) :
    /\ c.document.from <= d.at /\ d.at < c.document.until
    /\ {r.capability, "*"} \cap c.rule.scope.capability # {}
    /\ "*" \in c.rule.scope.effects \/ r.effects \subseteq c.rule.scope.effects
    /\ c.rule.decision = IF d.approval THEN "require_approval" ELSE "allow"
    /\ \A o \in Claims(sources) :
         (o.document.from <= d.at /\ d.at < o.document.until /\ Matches(r, o.rule.scope)
            /\ o.rule.decision # c.rule.decision)
           => \/ o.document.priority < c.document.priority
              \/ o.document.priority = c.document.priority /\ Outranks(Score(c), Score(o))
AllowedWasGranted ==
  \A r \in Asked : decided[r].decision = "allow" => Granted(r, decided[r])

\* An approval does not outlive its expiry: the same call asked again later is refused.
ApprovalInTime ==
  \A r \in Asked : decided[r].approval => decided[r].at < decided[r].until

\* Which rule decides never depends on the order of sources: two sources that claim one
\* identifier are refused before anything is decided.
NoAmbiguousPolicy ==
  (\E r \in Asked : decided[r].decision # "none")
    => Cardinality({c.rule.id : c \in Claims(policy)}) = Cardinality(Claims(policy))
=============================================================================
