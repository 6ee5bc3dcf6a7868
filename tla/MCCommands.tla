----------------------------- MODULE MCCommands -----------------------------
(* How a command is admitted and a plan is carried out: the ledger of command  *)
(* identities, policy decisions, the authority over commands and the plan a    *)
(* run executes.  They share no variable but the policy, so one of them moves  *)
(* per behaviour (`focus`): their state spaces add up.                         *)
EXTENDS CommandLedger, CommandAuthority, PlanPipeline, TLC

CONSTANTS c1, c2, m1, run1, first, any, q1, q2, q3, shared, runs, rows

\* Content first expects the initial revision, content any expects none.
ContentExpects == [k \in Contents |-> IF k = first THEN 0 ELSE AnyRevision]

\* Effects share a target; mutations and runs have types of target of their own.
TargetsOfKind ==
  [c \in Commands |-> IF c \in RunCommands THEN runs ELSE IF c \in Mutations THEN rows ELSE shared]

Everything == [capability |-> {"*"}, effects |-> {"*"}]
On(caps, effects) == [capability |-> caps, effects |-> effects]
Rule(id, priority, decision, scope) ==
  [id |-> id, priority |-> priority, decision |-> decision, scope |-> scope]
Doc(priority, from, until, rules) ==
  [priority |-> priority, from |-> from, until |-> until, rules |-> rules]

\* A base that asks for approval of writing, and one of several local documents in force
\* at first or later: of other priorities, narrower or wider, with an identifier of the base.
Base == Doc(0, 0, 9, {Rule("base.read", 0, "allow", On({"read"}, {"*"})),
                      Rule("base.write", 0, "require_approval", On({"write"}, {"*"}))})
Local(from, until) ==
  {Doc(p, from, until, {Rule("local", q, d, s)}) :
     p \in {0, 1}, q \in {0, 1}, d \in Decisions,
     s \in {Everything, On({"write"}, {"x"}), On({"write"}, {"x", "y"}), On({"read", "write"}, {"*"})}}
Rivals(d, e) ==
  Doc(0, 0, 9, {Rule("wide", 0, d, On({"write"}, {"x", "y"})), Rule("narrow", 0, e, On({"write"}, {"x"}))})
DocumentSets ==
  {{Base, l} : l \in UNION {Local(0, 1), Local(1, 9)}}
  \cup {{Base, Doc(1, 0, 9, {Rule("base.read", 1, "allow", Everything)})}}
  \cup {{Rivals(d, e)} : d \in Decisions, e \in Decisions}
MadeRequests == {[capability |-> "write", effects |-> {"x"}]}

\* What every command needs, and a document that more is allowed or denied by, now or later,
\* or one that denies a message but not one that names its author.
Granting(effects) == Doc(0, 0, 9, {Rule("base", 0, "allow", On({"*"}, effects))})
CommandSources ==
  {{Granting(Offered), Doc(1, span[1], span[2], {Rule("more", 0, d, On({"*"}, Offered \cup {"x", "ada"}))})} :
      span \in {<<0, 1>>, <<1, 9>>}, d \in {"allow", "deny"}}
  \cup {{Granting(Offered \cup {"ada"}),
         Doc(1, 0, 9, {Rule("post", 0, "deny", On({"*"}, {"conversation.message.post"}))})}}
AllSources == DocumentSets \cup CommandSources

\* One task with calls and citations of every kind, two tasks that wait for each other or
\* do not, a task proposed twice.
Call(id, tool, argument) == [id |-> id, tool |-> tool, argument |-> argument]
Task(id, role, calls, paths, deps) ==
  [id |-> id, role |-> role, calls |-> calls, paths |-> paths, deps |-> deps]
ReadA == Call("c1", "read", "a")
ReadB == Call("c2", "read", "b")
RunX == Call("c3", "exec", "x")
Whole == Task("t1", "Investigator", <<ReadA, ReadB>>, {"a", "b"}, {})
MadeProposals ==
  {<<Task("t1", "Investigator", calls, paths, deps)>> :
      calls \in {<<ReadA>>, <<ReadA, RunX>>, <<ReadA, Call("c2", "read", "a")>>, <<ReadA, ReadA>>, <<RunX>>},
      paths \in {{"a"}, {"a", "b"}, {"z"}}, deps \in {{}, {"t1"}, {"t2"}}}
  \cup {<<Task("t1", "Investigator", <<ReadA>>, {"a"}, deps), Task("t2", role, <<ReadB>>, {"b"}, also)>> :
          deps \in {{}, {"t2"}}, role \in {"Investigator", "Reviewer"}, also \in {{}, {"t1"}}}
  \cup {<<Whole>>, <<Whole, Whole>>}
MadeRoleTools == ("Investigator" :> {"read", "exec"}) @@ ("Reviewer" :> {"read"})
Every == {"Investigator", "Reviewer"} \X {"read", "exec"} \X {"a", "b", "x"}
MadePolicies == {Every, {g \in Every : g[2] = "read"}}

VARIABLE focus
authorityPart == <<policyVars, authorityVars>>
commandVars == <<focus, vars, authorityPart, pipelineVars>>

\* The parts at rest keep one initial state.
CommandsInit ==
  /\ focus \in {"ledger", "policy", "authority", "plan"}
  /\ sources \in CASE focus = "policy" -> DocumentSets [] focus = "authority" -> CommandSources
                   [] OTHER -> {CHOOSE s \in AllSources : TRUE}
  /\ CASE focus = "policy" -> TRUE [] focus = "authority" -> today \in 0..1 [] OTHER -> today = 0
  /\ IF focus = "plan" THEN TRUE ELSE granted = Every
  /\ Init /\ PolicyInit /\ AuthorityInit /\ PipelineInit

\* Time passes once while commands are authorized and executed.
CommandsNext ==
  /\ UNCHANGED focus
  /\ \/ focus = "ledger" /\ UNCHANGED <<authorityPart, pipelineVars>> /\ Next
     \/ focus = "policy" /\ UNCHANGED <<vars, authorityVars, pipelineVars>> /\ PolicyNext
     \/ focus = "authority" /\ UNCHANGED <<vars, pipelineVars>> /\ AuthorityNext /\ today' <= 1
     \/ focus = "plan" /\ UNCHANGED <<vars, authorityPart>> /\ PipelineNext

\* The fairness of FairSpec where the ledger moves.
CommandsSpec ==
  /\ CommandsInit /\ [][CommandsNext]_commandVars
  /\ \A c \in Commands : /\ WF_vars(focus = "ledger" /\ Step(c))
                         /\ SF_vars(focus = "ledger" /\ TakeLock(c))
=============================================================================
