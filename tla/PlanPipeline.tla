----------------------------- MODULE PlanPipeline -----------------------------
(* The CrewAI flow of one repository run (crewai/coordinator.py, planning/): a    *)
(* model proposes a plan, PlanValidator accepts or refuses it with feedback, the  *)
(* governed tools execute every accepted call once for the producer and once more *)
(* for the reviewer, and the synthesis and its review are taken from a model that *)
(* may answer anything its output schema admits.  RunLifecycle has the durable    *)
(* states of the same run, crashes and cancellation; here are the contents.       *)
(*                                                                                *)
(* A call is a tool and one argument, which for the reading tools is the path     *)
(* read and the only scope their operation evidence names.                        *)
EXTENDS Integers, Sequences, FiniteSets, SequencesExt

CONSTANTS
  Proposals,       \* what the planning model may answer: sequences of tasks
  Discovered,      \* paths the discovery cites
  CitablePaths,    \* paths a synthesis may cite
  TaskRoles, ReviewRole, RoleTools, OutcomeTools, ReadTools,   \* outcome and organization
  Policies,        \* sets of <<role, tool, argument>> the policy may grant
  MaxTasks, MaxIterations,                                     \* max_agent_iterations
  ModelCandidates,      \* the most pairs of a model and a credential a route offers
  PlanRetries, ExecutionRetries, ReviewRetries, OutputRetries

ASSUME PipelineAssumption ==
  /\ {MaxTasks, MaxIterations, PlanRetries, ExecutionRetries, ReviewRetries, OutputRetries} \subseteq Nat
  /\ ModelCandidates \in Nat \ {0}
  /\ \A p \in Proposals : Len(p) \in Nat /\ DOMAIN p = 1..Len(p)

VARIABLES
  stage,      \* what the flow does next
  plan,       \* the accepted plan, <<>> before
  proposed,   \* candidates seen
  batch,      \* tasks of this pass still to execute: their places in the plan
  results,    \* accepted results: [task, cited, checked]
  inHand,     \* the task being executed
  attempted,  \* fingerprints the current tools no longer accept
  ran,        \* invocations that completed, in order: [task, who, at, call]
  cited,      \* citations of the result under review
  round,      \* review_sequence
  recheck,    \* review_attempt
  kickoffs,   \* model kick-offs of the run
  granted     \* what the policy grants at this time

pipelineVars == <<stage, plan, proposed, batch, results, inHand, attempted, ran, cited, round,
                  recheck, kickoffs, granted>>

Ids(p) == {p[i].id : i \in DOMAIN p}
Accepted == {r.task.id : r \in ToSet(results)}
Fingerprint(call) == <<call.tool, call.argument>>
ToolsOf(t) == {t.calls[k].tool : k \in DOMAIN t.calls}

\* _has_cycle peels off tasks without a remaining dependency; none is left, or tasks of
\* which each waits for another.
HasCycle(p) ==
  \E S \in (SUBSET Ids(p)) \ {{}} :
    \A id \in S : \E t \in ToSet(p) : t.id = id /\ t.deps \cap S # {}

\* The checks of accept that need the candidate and the discovery only.
ContractViolated(p) ==
  \/ Len(p) > MaxTasks
  \/ Cardinality(Ids(p)) # Len(p)
  \/ HasCycle(p)
  \/ \E t \in ToSet(p) :
       \/ Len(t.calls) + 1 > MaxIterations
       \/ t.role \notin TaskRoles
       \/ ~(ToolsOf(t) \subseteq OutcomeTools \cap RoleTools[t.role])
       \/ ~(t.paths \subseteq Discovered)
       \/ ~(t.deps \subseteq Ids(p) \ {t.id})

\* _review_tool_ids and _bindings: the calls of a party, by their places; the reviewer has
\* those of the reading tools it is eligible for.
ReviewTools(t) == ToolsOf(t) \cap ReadTools \cap RoleTools[ReviewRole]
CallsOf(t, who) == {k \in DOMAIN t.calls : who = "producer" \/ t.calls[k].tool \in ReviewTools(t)}
RoleOf(t, who) == IF who = "producer" THEN t.role ELSE ReviewRole

Permitted(t, who, call) == <<RoleOf(t, who), call.tool, call.argument>> \in granted

\* One authorization request for each call of each binding.
Unauthorized(p) ==
  \E t \in ToSet(p), who \in {"producer", "reviewer"} :
    \E k \in CallsOf(t, who) : ~Permitted(t, who, t.calls[k])

\* PlanTask refuses two calls of one identifier; that is no MishkanError.
Malformed(p) ==
  \E t \in ToSet(p) : Cardinality({c.id : c \in ToSet(t.calls)}) # Len(t.calls)

Attempts(retries) == retries + 1

\* _kickoff_structured, called up to so many times in a loop of the flow: each pair of a model
\* and a credential has all its attempts before candidates_for yields the next; some have been
\* passed over when one answers.
KickOff(calls, retries) ==
  \E passed \in 0..calls * ModelCandidates - 1, n \in 1..Attempts(retries) :
    kickoffs' = kickoffs + passed * Attempts(retries) + n

\* None answers.  The pool of the next model may have no credential left: the call is over.
KickOffInVain(calls, retries) ==
  \E passed \in 0..calls * ModelCandidates : kickoffs' = kickoffs + passed * Attempts(retries)

PipelineInit ==
  /\ stage = "propose" /\ plan = <<>> /\ proposed = 0 /\ batch = {} /\ results = <<>>
  /\ inHand = <<>> /\ attempted = {} /\ ran = <<>> /\ cited = {} /\ round = 0 /\ recheck = 0
  /\ kickoffs = 0 /\ granted \in Policies

\* propose_plan and accept in establish_plan: a refusal is fed back while attempts last.
ProposePlan ==
  /\ stage = "propose" /\ proposed' = proposed + 1
  /\ \/ /\ KickOff(1, OutputRetries)
        /\ \E p \in Proposals :
             IF Malformed(p) THEN stage' = "failed" /\ UNCHANGED plan
             ELSE IF ContractViolated(p) \/ Unauthorized(p)
               THEN /\ stage' = IF proposed' < Attempts(PlanRetries) THEN "propose" ELSE "failed"
                    /\ UNCHANGED plan
               ELSE stage' = "pass" /\ plan' = p
     \/ KickOffInVain(1, OutputRetries) /\ stage' = "failed" /\ UNCHANGED plan
  /\ UNCHANGED <<batch, results, inHand, attempted, ran, cited, round, recheck, granted>>

\* The while loop: ready tasks in the order of the plan, then the next pass.
Ready == {k \in DOMAIN plan : plan[k].id \notin Accepted /\ plan[k].deps \subseteq Accepted}
Least(S) == {k \in S : \A j \in S : k <= j}

NextTask ==
  /\ stage = "pass"
  /\ LET todo == IF batch = {} THEN Ready ELSE batch IN
     \/ /\ todo = {} /\ Accepted = Ids(plan) /\ stage' = "reported"
        /\ UNCHANGED <<batch, inHand, round>>
     \/ \E k \in Least(todo) :
          /\ stage' = "producer" /\ inHand' = plan[k] /\ batch' = todo \ {k} /\ round' = 1
  /\ attempted' = {}
  /\ UNCHANGED <<plan, proposed, results, ran, cited, recheck, kickoffs, granted>>

\* The invocations of this task that the party in turn has completed, and what it has left.
Completed(who) == {i \in DOMAIN ran : ran[i].task = inHand.id /\ ran[i].who = who}
Outstanding(who) == CallsOf(inHand, who) \ {ran[i].at : i \in Completed(who)}

\* GatewayCrewAITool._run: the fingerprint is given up before the dispatch.
Reserve(call) == Fingerprint(call) \notin attempted

\* _execute_planned_calls: one call after the other, any but a completed one raises.
ExecuteCall(who) ==
  /\ stage = who
  /\ \E k \in Least(Outstanding(who)) :
       LET call == inHand.calls[k] IN
       /\ attempted' = attempted \cup {Fingerprint(call)}
       /\ \/ /\ Reserve(call) /\ Permitted(inHand, who, call)
             /\ ran' = Append(ran, [task |-> inHand.id, who |-> who, at |-> k, call |-> call])
             /\ UNCHANGED stage
          \/ stage' = "failed" /\ UNCHANGED ran
  /\ UNCHANGED <<plan, proposed, batch, results, inHand, cited, round, recheck, kickoffs, granted>>

\* _require_completed_calls: exactly the argument fingerprints of the accepted calls.
CompletedBatch(who) ==
  {ran[i].call.argument : i \in Completed(who)}
    = {inHand.calls[k].argument : k \in CallsOf(inHand, who)}

EndCalls(who) ==
  /\ stage = who /\ Outstanding(who) = {}
  /\ stage' = IF ~CompletedBatch(who) THEN "failed"
              ELSE IF who = "producer" THEN "reviewer" ELSE "synthesis"
  /\ attempted' = {}
  /\ UNCHANGED <<plan, proposed, batch, results, inHand, ran, cited, round, recheck, kickoffs, granted>>

\* execute_task and ResultValidator.verify: an unbound citation is not retried.
Synthesize ==
  /\ stage = "synthesis" /\ recheck' = 0
  /\ \/ /\ KickOff(Attempts(ExecutionRetries), 0)
        /\ \E c \in (SUBSET CitablePaths) \ {{}} :
             cited' = c /\ stage' = IF c \subseteq inHand.paths THEN "review" ELSE "failed"
     \/ KickOffInVain(Attempts(ExecutionRetries), 0) /\ stage' = "failed" /\ UNCHANGED cited
  /\ UNCHANGED <<plan, proposed, batch, results, inHand, attempted, ran, round, granted>>

\* Mutant: the reviewer is taken to have checked what it was shown.
CheckedAsCited == cited

\* _reviewed_citations: what the scopes of the review calls prove.
Observed ==
  {ran[i].call.argument : i \in {j \in Completed("reviewer") : ran[j].call.tool \in ReadTools}}
Checked == cited \cap Observed

\* accept_review: only a result whose every citation was checked, by another role.
Acceptable == cited \subseteq Checked

\* review_task and the two loops around it.  ReviewDecision refuses a review without a
\* checked citation and one by the producer, which no loop expects.
Review ==
  /\ stage = "review"
  /\ \/ /\ KickOff(Attempts(ExecutionRetries), 0)
        /\ IF Checked = {} \/ inHand.role = ReviewRole
             THEN stage' = "failed" /\ UNCHANGED <<results, round, recheck>>
           ELSE \/ \* a rejection starts the next round
                   /\ IF round < Attempts(ReviewRetries) THEN stage' = "synthesis" /\ round' = round + 1
                                                         ELSE stage' = "failed" /\ UNCHANGED round
                   /\ UNCHANGED <<results, recheck>>
                \/ /\ Acceptable
                   /\ results' = Append(results, [task |-> inHand, cited |-> cited, checked |-> Checked])
                   /\ stage' = "pass" /\ UNCHANGED <<round, recheck>>
                \/ /\ ~Acceptable
                   /\ IF recheck + 1 < Attempts(ReviewRetries)
                        THEN recheck' = recheck + 1 /\ UNCHANGED stage
                        ELSE stage' = "failed" /\ UNCHANGED recheck
                   /\ UNCHANGED <<results, round>>
     \/ KickOffInVain(Attempts(ExecutionRetries), 0) /\ stage' = "failed"
        /\ UNCHANGED <<results, round, recheck>>
  /\ UNCHANGED <<plan, proposed, batch, inHand, attempted, ran, cited, granted>>

\* A document of the policy comes into force or is retired.
PolicyTurns ==
  /\ stage \in {"pass", "producer", "reviewer"} /\ granted' \in Policies \ {granted}
  /\ UNCHANGED <<stage, plan, proposed, batch, results, inHand, attempted, ran, cited, round,
                 recheck, kickoffs>>

PipelineNext ==
  \/ ProposePlan \/ NextTask \/ Synthesize \/ Review \/ PolicyTurns
  \/ \E who \in {"producer", "reviewer"} : ExecuteCall(who) \/ EndCalls(who)
PipelineSpec == PipelineInit /\ [][PipelineNext]_pipelineVars

PipelineTypeOK ==
  /\ stage \in {"propose", "pass", "producer", "reviewer", "synthesis", "review", "reported", "failed"}
  /\ plan \in Proposals \cup {<<>>} /\ granted \in Policies
  /\ proposed \in 0..PlanRetries + 1 /\ round \in 0..ReviewRetries + 1 /\ recheck \in 0..ReviewRetries
  /\ cited \subseteq CitablePaths /\ Accepted \subseteq Ids(plan)
  /\ \A i, j \in DOMAIN results : results[i].task.id = results[j].task.id => i = j

\* The while loop of the flow always finds a task to execute until all are accepted: an
\* accepted plan is executable to its end, in dependency order.
NeverSpins ==
  /\ stage = "pass" /\ Accepted # Ids(plan) => batch # {} \/ Ready # {}
  /\ \A i \in DOMAIN results : results[i].task.deps \subseteq {results[j].task.id : j \in 1..i - 1}

\* Nothing is synthesized from partial evidence: every accepted call of the task was executed
\* for the producer, and every reading one for the reviewer, and none of them twice.
EvidenceComplete ==
  /\ \A i, j \in DOMAIN ran :
       (/\ ran[i].task = ran[j].task /\ ran[i].who = ran[j].who
        /\ Fingerprint(ran[i].call) = Fingerprint(ran[j].call))
         => i = j
  /\ stage \in {"synthesis", "review"} =>
       \A who \in {"producer", "reviewer"} : \A k \in CallsOf(inHand, who) :
         \E i \in Completed(who) : ran[i].call = inHand.calls[k]

\* What an accepted result cites was discovered, bound to the task and read again by a
\* reviewer of another role, in calls that completed.
AcceptedGrounded ==
  \A r \in ToSet(results) :
    /\ r.cited # {} /\ r.cited \subseteq r.task.paths \cap Discovered /\ r.task.role # ReviewRole
    /\ \A path \in r.cited :
         \E x \in ToSet(ran) : /\ x.task = r.task.id /\ x.who = "reviewer"
                               /\ x.call.tool \in ReadTools /\ x.call.argument = path

\* The loops over rounds, reviews, calls, candidates and attempts nest, and their product
\* bounds the model calls of a run.
ProposalBudget == ModelCandidates * Attempts(OutputRetries)
AnswerBudget == Attempts(ExecutionRetries) * ModelCandidates
RoundBudget == AnswerBudget + Attempts(ReviewRetries) * AnswerBudget
TaskBudget == Attempts(ReviewRetries) * RoundBudget
KickoffBudget == Attempts(PlanRetries) * ProposalBudget + Len(plan) * TaskBudget
KickoffsBounded == kickoffs <= KickoffBudget

\* An accepted plan is carried out to its end on complete evidence, within a bounded
\* number of model calls.
PlanCarriedOut ==
  /\ PipelineTypeOK
  /\ NeverSpins
  /\ EvidenceComplete
  /\ AcceptedGrounded
  /\ KickoffsBounded
=============================================================================
