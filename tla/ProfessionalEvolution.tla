-------------------------- MODULE ProfessionalEvolution --------------------------
(* SQLiteProfessionalEvolutionRepository (organization/evolution_repository.py):  *)
(* what one identity has demonstrated in one subject and how far it was promoted. *)
(*                                                                                *)
(* Evidence never changes and expires with time.  The target of a decision is its *)
(* request, so two requests for one subject run side by side: each reads the      *)
(* evidence and the latest decision in one step and inserts in a later one.       *)
EXTENDS Naturals, Sequences

CONSTANTS
  Evidence,       \* evidence identities
  Promotions,     \* promotion requests
  MaxScope,       \* ranks of the scopes: mission, project, agent, branch, organization
  MaxTime, MaxDecisions \* bounds

ASSUME EvolutionAssumption == {MaxScope, MaxTime, MaxDecisions} \subseteq Nat

VARIABLES
  now,       \* time
  shown,     \* recorded evidence
  decisions, \* decisions of the subject by revision
  deciding   \* what each request's thread read and has not inserted yet

evolutionVars == <<now, shown, decisions, deciding>>

NotRecorded == [outcome |-> "none"]
NotDeciding == [revision |-> 0]

\* ProfessionalEvidenceRecord; a contradiction and a failure weigh alike, and critical
\* evidence is self-certified when the identity evaluated it itself.
EvidenceRecords ==
  [outcome : {"demonstrated", "partial", "against"}, individual : BOOLEAN, selfCertified : BOOLEAN,
   scope : 0..MaxScope, until : 1..MaxTime]

\* ProfessionalPromotionRequest: its target is broader than its source.
PromotionRequests ==
  {p \in [source : 0..MaxScope, target : 0..MaxScope, support : (SUBSET Evidence) \ {{}}] :
     p.target > p.source}

Recorded == {e \in Evidence : shown[e] # NotRecorded}
Against == {e \in Recorded : shown[e].outcome = "against"}

\* Fresh evidence of an individual result.
FreshSupport ==
  {e \in Recorded : shown[e].outcome = "demonstrated" /\ shown[e].until > now /\ shown[e].individual}

EvolutionTypeOK ==
  /\ now \in 0..MaxTime
  /\ \A e \in Recorded : shown[e] \in EvidenceRecords
                         /\ (shown[e].selfCertified => shown[e].outcome # "demonstrated")
  /\ \A i \in DOMAIN decisions :
       /\ decisions[i].revision = i /\ decisions[i].request \in Promotions
       /\ decisions[i].support \subseteq Recorded /\ decisions[i].against \subseteq Against
  /\ \A p \in Promotions : deciding[p] # NotDeciding => deciding[p].revision <= Len(decisions) + 1

EvolutionInit ==
  /\ now = 0 /\ shown = [e \in Evidence |-> NotRecorded]
  /\ decisions = <<>> /\ deciding = [p \in Promotions |-> NotDeciding]

Tick == now < MaxTime /\ now' = now + 1 /\ UNCHANGED <<shown, decisions, deciding>>

\* record_evidence: immutable, fresh for a while, and critical mastery is not
\* self-certified.
RecordEvidence(e, record) ==
  /\ shown[e] = NotRecorded /\ record.until > now
  /\ ~(record.selfCertified /\ record.outcome = "demonstrated")
  /\ shown' = [shown EXCEPT ![e] = record]
  /\ UNCHANGED <<now, decisions, deciding>>

Decided(p) == \E i \in DOMAIN decisions : decisions[i].request = p

\* The reads of decide_promotion.
CheckPromotion(p, content, disposition) ==
  /\ ~Decided(p) /\ deciding[p] = NotDeciding /\ Len(decisions) < MaxDecisions
  /\ content.support \subseteq Recorded
  /\ \A e \in content.support : shown[e].scope = content.source
  /\ disposition = "accepted" => content.support \cap FreshSupport # {}
  /\ deciding' = [deciding EXCEPT ![p] =
       [revision |-> Len(decisions) + 1, request |-> p, disposition |-> disposition,
        source |-> content.source, target |-> content.target, support |-> content.support,
        against |-> Against, at |-> now]]
  /\ UNCHANGED <<now, shown, decisions>>

\* Mutant: a decision takes the revision that is free when it is written.
WritePromotionAnyway(p) ==
  /\ deciding[p] # NotDeciding
  /\ decisions' = Append(decisions, [deciding[p] EXCEPT !.revision = Len(decisions) + 1])
  /\ deciding' = [deciding EXCEPT ![p] = NotDeciding]
  /\ UNCHANGED <<now, shown>>

\* The insert: (identity, kind, subject, revision) is unique.
WritePromotion(p) ==
  /\ deciding[p] # NotDeciding
  /\ decisions' = IF deciding[p].revision = Len(decisions) + 1
                  THEN Append(decisions, deciding[p]) ELSE decisions
  /\ deciding' = [deciding EXCEPT ![p] = NotDeciding]
  /\ UNCHANGED <<now, shown>>

\* The accepted decisions; the latest of them is in effect whatever was rejected since.
AcceptedDecisions == {i \in DOMAIN decisions : decisions[i].disposition = "accepted"}

\* competence_state: the decision in effect while one of its supports is fresh.
Effective ==
  {i \in AcceptedDecisions : /\ \A j \in AcceptedDecisions : j <= i
                             /\ decisions[i].support \cap FreshSupport # {}}

EvolutionNext ==
  \/ Tick
  \/ \E e \in Evidence, record \in EvidenceRecords : RecordEvidence(e, record)
  \/ \E p \in Promotions : \/ WritePromotion(p)
                           \/ \E content \in PromotionRequests, d \in {"accepted", "rejected"} :
                                CheckPromotion(p, content, d)

EvolutionSpec == EvolutionInit /\ [][EvolutionNext]_evolutionVars

-----------------------------------------------------------------------------
(* Properties.                                                                *)

\* The history of a subject never loses what speaks against the identity: a later decision
\* lists every contradiction and failure an earlier one listed, although two requests
\* read the evidence at different times and either may be written first (ORG-016).
AgainstPreserved ==
  \A i, j \in DOMAIN decisions : i <= j => decisions[i].against \subseteq decisions[j].against

\* A scope in effect was earned: the decision cites a demonstration at its narrower source
\* scope that is individual, not self-certified, still fresh now and was fresh then.
EffectiveEarned ==
  \A i \in Effective : \E e \in decisions[i].support :
    /\ shown[e].outcome = "demonstrated" /\ shown[e].individual /\ ~shown[e].selfCertified
    /\ shown[e].until > now /\ shown[e].until > decisions[i].at
    /\ shown[e].scope = decisions[i].source /\ decisions[i].source < decisions[i].target

\* A scope in effect was earned and the history keeps what speaks against it.
EvolutionEarned ==
  /\ EvolutionTypeOK
  /\ AgainstPreserved
  /\ EffectiveEarned
=============================================================================
