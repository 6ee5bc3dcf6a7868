------------------------------- MODULE MCGrowth -------------------------------
(* What the organization learns and looks up: skills, environments, the        *)
(* evolution of its members, knowledge and the web.                            *)
(*                                                                             *)
(* None of these reads a table another writes, so a behaviour follows one of   *)
(* them (`focus`) while the others rest in their first states.                 *)
EXTENDS Skills, Environment, ProfessionalEvolution, KnowledgeQueries, WebRequests, TLC
CONSTANTS t1, t2, sv1, sv2, sv3, tool, spare,
          rq1, en1, en2, sm, ft1, ft2, ck, op1, op2, ev1, ev2,
          ki1, ki2, kr1, kg1, kg2, kc1, k1, k2, ad1, ad2,
          pg1, pg2, pg3, pg4, or1, or2, or3

\* Three versions of one skill; the first requires a tool that has a fallback.
SkillNames == (sv1 :> "s") @@ (sv2 :> "s") @@ (sv3 :> "s")
SkillNumbers == (sv1 :> 1) @@ (sv2 :> 2) @@ (sv3 :> 2)
RequiredTools == (sv1 :> {tool}) @@ (sv2 :> {}) @@ (sv3 :> {})
FallbackTools == (tool :> {spare}) @@ (spare :> {})

\* One engine supports the semantics asked for; its second operation only probes.
SupportedSemantics == (en1 :> {sm}) @@ (en2 :> {})
OperationEngines == (op1 :> en1) @@ (op2 :> en1)
OnHost == [outcome |-> "host", semantics |-> {}, formats |-> {}, required |-> {}, eligible |-> Engines]

\* Two ingestions and a refresh of one corpus, two refreshes of the graph, one capture.
OperationKinds == (ki1 :> "ingest") @@ (ki2 :> "ingest") @@ (kr1 :> "refresh")
                    @@ (kg1 :> "graph") @@ (kg2 :> "graph") @@ (kc1 :> "capture")
OperationCorpora == (ki1 :> k1) @@ (ki2 :> k1) @@ (kr1 :> k1) @@ (kg1 :> k2) @@ (kg2 :> k2)
ClassSources == <<"a", "b">>
LiteralSources == <<"l">>

\* Diamonds, cycles and dead ends between four pages.
LinkGraphs == {g \in [Pages -> SUBSET Pages] :
                 /\ g[pg1] \subseteq {pg2, pg3} /\ g[pg2] \subseteq {pg3, pg4}
                 /\ g[pg3] \subseteq {pg2, pg4} /\ g[pg4] \subseteq {pg1}}
NoLinks == [p \in Pages |-> {}]

\* Two sources that share an upstream and one that reports none; requests with and
\* without a credential, started on the credential's origin and off it.
SearchRoutes == <<"a", "b", "c">>
SourceUpstreams == ("a" :> {"u"}) @@ ("b" :> {"u"}) @@ ("c" :> {})
WebFetches ==
  {[start |-> or3, credential |-> FALSE, method |-> "safe", policy |-> "safe_get_head"]}
  \cup {[start |-> or1, credential |-> c, method |-> "safe", policy |-> "safe_get_head"] : c \in BOOLEAN}
  \cup {[start |-> or1, credential |-> TRUE, method |-> "stateful", policy |-> p] :
          p \in {"none", "safe_get_head", "same_method"}}

VARIABLE focus
growthVars == <<focus, skillVars, environmentVars, evolutionVars, knowledgeVars, queryVars, crawlVars, webVars>>

GrowthInit ==
  /\ focus \in {"skills", "uses", "choice", "evidence", "evolution", "semantic", "graph", "memory",
                "promotion", "query", "crawl", "search", "fetch"}
  /\ IF focus = "choice" THEN TRUE ELSE observed = [eligible |-> Engines, file |-> NoFile]
  /\ IF focus = "query" THEN TRUE ELSE query = [state |-> "absent", required |-> FALSE, by |-> NobodyYet]
  /\ IF focus = "crawl" THEN TRUE ELSE /\ links = NoLinks /\ excluded = {} /\ refused = {} /\ broken = {}
                                       /\ maxPages \in PageLimits
  /\ SkillsInit /\ EnvironmentInit /\ EvolutionInit /\ KnowledgeInit /\ QueryInit /\ CrawlInit /\ WebInit

\* Administration without use; one command at a time, and no pins, while skills are used
\* and learned.
SkillsFocused ==
  \/ focus = "skills" /\ UNCHANGED <<learning, invoked>> /\ SkillsNext
  \/ /\ focus = "uses" /\ SkillsNext
     /\ \A g, h \in SkillHands :
          order'[g] # NoOrder => order'[g].op \notin {"pin", "unpin"} /\ (g = h \/ order'[h] = NoOrder)

\* Which binding is found; then attempts and verification on a bound host engine.
EnvironmentFocused ==
  \/ focus = "choice" /\ ResolveNext
  \/ /\ focus = "evidence"
     /\ \/ EvidenceNext
        \/ \E r \in Requests : Ask(r, OnHost, "plan")
        \/ \E h \in EnvHands, r \in Requests :
             (\A g \in EnvHands : pending[g] = Idle) /\ CheckResolve(h, r)
        \/ \E h \in EnvHands : WriteBinding(h)

\* Scope and individuality tell demonstrations apart, self-certification the others.
EvolutionFocused ==
  /\ focus = "evolution" /\ EvolutionNext
  /\ \A e \in Evidence : shown'[e] # NotRecorded =>
       \/ shown'[e].outcome = "demonstrated"
       \/ shown'[e].individual /\ shown'[e].scope = 0

KnowledgeFocused ==
  \/ focus = "promotion" /\ PromoteNext
  \/ /\ focus \in {"semantic", "graph", "memory"} /\ MutateNext
     /\ LET busy == CASE focus = "semantic" -> {ki1, ki2, kr1} [] focus = "graph" -> {kg1, kg2}
                      [] OTHER -> {kc1}
        IN  \A o \in Mutations \ busy : working'[o] = Resting /\ mutation'[o] = mutation[o]

WebFocused == (focus = "search" /\ SearchNext) \/ (focus = "fetch" /\ FetchNext)

GrowthNext ==
  /\ UNCHANGED focus
  /\ \/ SkillsFocused
        /\ UNCHANGED <<environmentVars, evolutionVars, knowledgeVars, queryVars, crawlVars, webVars>>
     \/ EnvironmentFocused
        /\ UNCHANGED <<skillVars, evolutionVars, knowledgeVars, queryVars, crawlVars, webVars>>
     \/ EvolutionFocused
        /\ UNCHANGED <<skillVars, environmentVars, knowledgeVars, queryVars, crawlVars, webVars>>
     \/ KnowledgeFocused
        /\ UNCHANGED <<skillVars, environmentVars, evolutionVars, queryVars, crawlVars, webVars>>
     \/ focus = "query" /\ QueryNext
        /\ UNCHANGED <<skillVars, environmentVars, evolutionVars, knowledgeVars, crawlVars, webVars>>
     \/ focus = "crawl" /\ VisitPage
        /\ UNCHANGED <<skillVars, environmentVars, evolutionVars, knowledgeVars, queryVars, webVars>>
     \/ WebFocused
        /\ UNCHANGED <<skillVars, environmentVars, evolutionVars, knowledgeVars, queryVars, crawlVars>>

GrowthSpec == GrowthInit /\ [][GrowthNext]_growthVars

\* The threads of the parts; a promotion is called after the thread that records it.
Interchangeable == Permutations({t1, t2})
=============================================================================
